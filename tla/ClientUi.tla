----------------------------- MODULE ClientUi -----------------------------
(***************************************************************************)
(* The student's user interface and its pipe to the privileged client.     *)
(*                                                                         *)
(* JoinForm finds the run, registers the student and polls until the run   *)
(* is running; then the main form is shown and a thread of its own talks   *)
(* to client.exe: it writes what the form has queued and posts what it     *)
(* reads to the form.  client.exe serves one message after the other and   *)
(* ends when its pipe is broken; nobody starts it again.  There is one     *)
(* user interface.                                                         *)
(***************************************************************************)
EXTENDS Naturals, Sequences

CONSTANTS
    MayBreak,   \* the pipe may break, or client.exe end
    MaxClicks,  \* bound: clicks on Start exam and Continue
    MaxErrors   \* bound: requests to the backend that fail

ASSUME BreakAssumption == MayBreak \in BOOLEAN
ASSUME BoundsAssumption == MaxClicks \in Nat /\ MaxErrors \in Nat

VARIABLES
    \* JoinForm
    form,        \* "run", "kind", "name", "waiting", "over"; then "main"
    request,     \* the request to the backend that is under way, and its answer
    registered,  \* the student has a name; not so for a test exam
    runStatus,   \* the run's status on the backend
    \* the main form
    label,       \* what label1 says
    frame,       \* mainFrame is visible
    active,      \* examLayoutActive
    startShown,  \* the button Start exam is visible
    consent,     \* the boxes and the button Continue are visible
    agreed,      \* all boxes are checked
    canContinue, \* continueButton.Enabled
    boxes,       \* the open message boxes, each shown from within the next one
    posted,      \* what the pipe thread has posted to the form
    \* the pipe thread and client.exe
    pipe,        \* "off", "connecting", "handshake", "greeted", "open"
    outgoing,    \* outgoingMessages
    toClient, toUi,
    held,        \* how many lines of toUi the reader has taken from the pipe
    client,      \* "starting", "listening", "reading", "ending", "gone"
    serving,     \* the message client.exe is at
    \* history and bounds
    reviewed,    \* on this connection, the student agreed to what was listed
    ready,       \* the student was told how to enter the exam
    clicks, errors

joinVars == <<form, request, registered, runStatus>>
mainVars == <<label, frame, active, startShown, consent, agreed, canContinue, boxes>>
pipeVars == <<pipe, outgoing, toClient, toUi, held>>
clientVars == <<client, serving>>
historyVars == <<reviewed, ready, clicks, errors>>
vars == <<joinVars, mainVars, posted, pipeVars, clientVars, historyVars>>

-----------------------------------------------------------------------------
Statuses == {"pending", "running", "finished"}
NoRequest == [what |-> "none", answer |-> "none"]
Asked == {"start_exam", "continue_to_exam"}
Results == {"programs", "no_programs", "initialized", "failed"}

JoinOK ==
    /\ form \in {"run", "kind", "name", "waiting", "over", "main"}
    /\ request \in [what : {"none", "find", "register", "poll"},
                    answer : Statuses \cup {"none", "done", "error"}]
    /\ registered \in BOOLEAN
    /\ runStatus \in Statuses

MainOK ==
    /\ label \in {"loading", "connected", "preparing", "review", "sending", "initialized", "failed"}
    /\ frame \in BOOLEAN /\ active \in BOOLEAN /\ startShown \in BOOLEAN
    /\ consent \in BOOLEAN /\ agreed \in BOOLEAN /\ canContinue \in BOOLEAN
    /\ boxes \in Seq({"instructions", "error"})
    /\ posted \in Seq({"up", "down"} \cup Results)

PipeOK ==
    /\ pipe \in {"off", "connecting", "handshake", "greeted", "open"}
    /\ outgoing \in Seq(Asked)
    /\ toClient \in Seq(Asked \cup {"connect"})
    /\ toUi \in Seq(Results \cup {"response"})
    /\ held \in 0 .. Len(toUi)
    /\ client \in {"starting", "listening", "reading", "ending", "gone"}
    /\ serving \in Asked \cup {"none", "connect"}

HistoryOK ==
    /\ reviewed \in BOOLEAN /\ ready \in BOOLEAN
    /\ clicks \in 0 .. MaxClicks /\ errors \in 0 .. MaxErrors

TypeOK == JoinOK /\ MainOK /\ PipeOK /\ HistoryOK

Init ==
    /\ form = "run" /\ request = NoRequest /\ registered = FALSE
    /\ runStatus \in Statuses
    /\ label = "loading" /\ frame = FALSE /\ active = FALSE /\ startShown = TRUE
    /\ consent = FALSE /\ agreed = FALSE /\ canContinue = FALSE /\ boxes = <<>>
    /\ posted = <<>> /\ pipe = "off" /\ outgoing = <<>> /\ toClient = <<>> /\ toUi = <<>> /\ held = 0
    /\ client = "starting" /\ serving = "none"
    /\ reviewed = FALSE /\ ready = FALSE /\ clicks = 0 /\ errors = 0

-----------------------------------------------------------------------------
(* JoinForm.                                                               *)

Ask(what) == request = NoRequest /\ request' = [what |-> what, answer |-> "none"]

\* A click on Join, on Register; a tick of pollTimer.
Join ==
    /\ form = "run" /\ Ask("find")
    /\ UNCHANGED <<form, registered, runStatus, mainVars, posted, pipeVars, clientVars, historyVars>>

Register ==
    /\ form = "name" /\ Ask("register")
    /\ UNCHANGED <<form, registered, runStatus, mainVars, posted, pipeVars, clientVars, historyVars>>

Poll ==
    /\ form = "waiting" /\ Ask("poll")
    /\ UNCHANGED <<form, registered, runStatus, mainVars, posted, pipeVars, clientVars, historyVars>>

\* The backend answers the thread that asked it, or the request fails.
Answer ==
    /\ request.what # "none" /\ request.answer = "none"
    /\ \/ /\ request' = [request EXCEPT !.answer = IF request.what = "register" THEN "done" ELSE runStatus]
          /\ UNCHANGED errors
       \/ /\ errors < MaxErrors /\ errors' = errors + 1
          /\ request' = [request EXCEPT !.answer = "error"]
    /\ UNCHANGED <<form, registered, runStatus, mainVars, posted, pipeVars, clientVars, reviewed, ready, clicks>>

\* The main form is made, and the pipe thread, which first tells that it is not connected.
OpenMain ==
    /\ form' = "main" /\ pipe' = "connecting" /\ posted' = <<"down">>
    /\ UNCHANGED <<outgoing, toClient, toUi, held>>

StayIn(f) == form' = f /\ UNCHANGED <<pipeVars, posted>>

\* Mutant: the status decides what is shown next.
ShowFoundStatus ==
    /\ request.what = "find" /\ request.answer # "none"
    /\ request' = NoRequest
    /\ StayIn(IF request.answer = "error" THEN "run" ELSE request.answer)
    /\ UNCHANGED <<registered, runStatus, mainVars, clientVars, historyVars>>

ShowFound ==
    /\ request.what = "find" /\ request.answer # "none"
    /\ request' = NoRequest
    /\ StayIn(CASE request.answer = "error" -> "run" [] request.answer = "finished" -> "over" [] OTHER -> "kind")
    /\ UNCHANGED <<registered, runStatus, mainVars, clientVars, historyVars>>

ShowRegistered ==
    /\ request.what = "register" /\ request.answer # "none"
    /\ request' = NoRequest
    /\ registered' = (request.answer = "done")
    /\ StayIn(IF request.answer = "done" THEN "waiting" ELSE "name")
    /\ UNCHANGED <<runStatus, mainVars, clientVars, historyVars>>

\* Mutant: the timer is not started again after a request that failed.
AfterPollStopped ==
    /\ request' = IF request.answer = "error" THEN request ELSE NoRequest
    /\ \/ request.answer = "running" /\ OpenMain
       \/ request.answer = "finished" /\ StayIn("over")
       \/ request.answer \notin {"running", "finished"} /\ StayIn("waiting")

\* pollTimer_Tick: the timer goes on after every answer but these two.
AfterPoll ==
    /\ request' = NoRequest
    /\ \/ request.answer = "running" /\ OpenMain
       \/ request.answer = "finished" /\ StayIn("over")
       \/ request.answer \notin {"running", "finished"} /\ StayIn("waiting")

ShowPoll ==
    /\ request.what = "poll" /\ request.answer # "none"
    /\ AfterPoll
    /\ UNCHANGED <<registered, runStatus, mainVars, clientVars, historyVars>>

TestExam ==
    /\ form = "kind" /\ OpenMain
    /\ UNCHANGED <<request, registered, runStatus, mainVars, clientVars, historyVars>>

RealExam ==
    /\ form = "kind" /\ StayIn("name")
    /\ UNCHANGED <<request, registered, runStatus, mainVars, clientVars, historyVars>>

\* The teacher sets the run's status.
SetStatus(status) ==
    /\ status # runStatus /\ runStatus' = status
    /\ UNCHANGED <<form, request, registered, mainVars, posted, pipeVars, clientVars, historyVars>>

-----------------------------------------------------------------------------
(* The pipe thread: PipeThread and PipeClientRun.                          *)

Connected == client = "reading"

ConnectPipe ==
    /\ pipe = "connecting" /\ client = "listening"
    /\ pipe' = "handshake" /\ client' = "reading"
    /\ posted' = Append(posted, "up")
    /\ reviewed' = FALSE
    /\ UNCHANGED <<joinVars, mainVars, outgoing, toClient, toUi, held, serving, ready, clicks, errors>>

Greet ==
    /\ pipe = "handshake" /\ Connected
    /\ pipe' = "greeted" /\ toClient' = Append(toClient, "connect")
    /\ UNCHANGED <<joinVars, mainVars, posted, outgoing, toUi, held, clientVars, historyVars>>

\* A line is read when there are bytes in the pipe: one that was taken along with an
\* earlier line waits until more bytes come (tryReadString looks at the pipe only).
ReadLine ==
    /\ Len(toUi) > held
    /\ toUi' = Tail(toUi)
    /\ \E taken \in IF held = 0 THEN 1 .. Len(toUi) ELSE {held} : held' = taken - 1

Greeted ==
    /\ pipe = "greeted" /\ ReadLine
    /\ Head(toUi) = "response"
    /\ pipe' = "open"
    /\ UNCHANGED <<joinVars, mainVars, posted, outgoing, toClient, clientVars, historyVars>>

\* FlushOutgoingMessages: a message that cannot be written goes to the tail of the queue.
Flush ==
    /\ pipe = "open" /\ outgoing # <<>>
    /\ \/ Connected /\ outgoing' = Tail(outgoing) /\ toClient' = Append(toClient, Head(outgoing))
       \/ ~Connected /\ outgoing' = Append(Tail(outgoing), Head(outgoing)) /\ UNCHANGED toClient
    /\ UNCHANGED <<joinVars, mainVars, posted, pipe, toUi, held, clientVars, historyVars>>

ReadPipe ==
    /\ pipe = "open" /\ ReadLine
    /\ posted' = IF Head(toUi) \in Results THEN Append(posted, Head(toUi)) ELSE posted
    /\ UNCHANGED <<joinVars, mainVars, pipe, outgoing, toClient, clientVars, historyVars>>

\* Mutant: the form is not told of the loss.
TellLossNever == UNCHANGED posted

TellLoss == posted' = Append(posted, "down")

LosePipe ==
    /\ pipe \in {"handshake", "greeted", "open"} /\ ~Connected
    /\ pipe' = "connecting"
    /\ TellLoss
    /\ toUi' = <<>> /\ held' = 0
    /\ UNCHANGED <<joinVars, mainVars, outgoing, toClient, clientVars, historyVars>>

-----------------------------------------------------------------------------
(* client.exe: pipe_server_thread and pipe_client.                         *)

Listen ==
    /\ client = "starting" /\ client' = "listening"
    /\ UNCHANGED <<joinVars, mainVars, posted, pipeVars, serving, historyVars>>

Serve ==
    /\ Connected /\ serving = "none" /\ toClient # <<>>
    /\ serving' = Head(toClient) /\ toClient' = Tail(toClient)
    /\ UNCHANGED <<joinVars, mainVars, posted, pipe, outgoing, toUi, held, client, historyVars>>

\* Without a registered_name the request is refused; start_exam may fail, too.
Replies ==
    CASE serving = "connect" -> {"response"}
      [] serving = "start_exam" -> {"programs", "no_programs"}
      [] serving = "continue_to_exam" -> IF registered THEN {"initialized", "failed"} ELSE {"failed"}

Respond ==
    /\ Connected /\ serving # "none"
    /\ \E reply \in Replies : toUi' = Append(toUi, reply)
    /\ serving' = "none"
    /\ UNCHANGED <<joinVars, mainVars, posted, pipe, outgoing, toClient, held, client, historyVars>>

\* Mutant: the server waits for the next connection.
AfterDisconnectAgain == "listening"

\* "[PIPE] Client disconnected, exiting."
AfterDisconnect == "gone"

\* What is in the pipe is lost, or not before the reader has it.
LoseBytes ==
    /\ toClient' = <<>>
    /\ toUi' \in {toUi, SubSeq(toUi, 1, held)}
    /\ UNCHANGED held

\* The pipe breaks: client.exe first completes what it is at, whose answer is lost.
BreakPipe ==
    /\ MayBreak /\ Connected
    /\ client' = "ending"
    /\ LoseBytes
    /\ UNCHANGED <<joinVars, mainVars, posted, pipe, outgoing, serving, historyVars>>

Exit ==
    /\ client = "ending"
    /\ client' = AfterDisconnect
    /\ serving' = "none"
    /\ UNCHANGED <<joinVars, mainVars, posted, pipeVars, historyVars>>

\* client.exe is ended, at whatever it is.
EndClient ==
    /\ MayBreak /\ client # "gone"
    /\ client' = "gone"
    /\ serving' = "none"
    /\ LoseBytes
    /\ UNCHANGED <<joinVars, mainVars, posted, pipe, outgoing, historyVars>>

-----------------------------------------------------------------------------
(* The main form.                                                          *)

Usable == form = "main" /\ frame /\ boxes = <<>>

\* button1_Click
StartExam ==
    /\ Usable /\ startShown
    /\ clicks < MaxClicks /\ clicks' = clicks + 1
    /\ active' = TRUE /\ startShown' = FALSE /\ label' = "preparing"
    /\ consent' = FALSE /\ agreed' = FALSE /\ canContinue' = FALSE
    /\ outgoing' = Append(outgoing, "start_exam")
    /\ UNCHANGED <<joinVars, frame, boxes, posted, pipe, toClient, toUi, held, clientVars, reviewed, ready, errors>>

\* consentCheckBox_CheckedChanged
Check ==
    /\ Usable /\ consent
    /\ agreed' = ~agreed /\ canContinue' = agreed'
    /\ UNCHANGED <<joinVars, label, frame, active, startShown, consent, boxes, posted, pipeVars,
                   clientVars, historyVars>>

\* continueButton_Click
Continue ==
    /\ Usable /\ consent /\ canContinue
    /\ clicks < MaxClicks /\ clicks' = clicks + 1
    /\ canContinue' = FALSE /\ label' = "sending"
    /\ outgoing' = Append(outgoing, "continue_to_exam")
    /\ reviewed' = TRUE
    /\ UNCHANGED <<joinVars, frame, active, startShown, consent, agreed, boxes, posted, pipe, toClient,
                   toUi, held, clientVars, ready, errors>>

\* The message box shown last is closed; after an error, Continue can be clicked again.
CloseBox ==
    /\ boxes # <<>> /\ boxes' = Tail(boxes)
    /\ canContinue' = IF Head(boxes) = "error" THEN agreed ELSE canContinue
    /\ UNCHANGED <<joinVars, label, frame, active, startShown, consent, agreed, posted, pipeVars,
                   clientVars, historyVars>>

Posted(what) == posted # <<>> /\ Head(posted) = what /\ posted' = Tail(posted)

\* SetConnectedState
ShowUp ==
    /\ Posted("up")
    /\ frame' = TRUE /\ label' = "connected"
    /\ consent' = (active /\ consent) /\ startShown' = (active => startShown)
    /\ UNCHANGED <<joinVars, active, agreed, canContinue, boxes, pipeVars, clientVars, historyVars>>

\* SetLoadingState
ShowDown ==
    /\ Posted("down")
    /\ frame' = FALSE /\ label' = "loading" /\ active' = FALSE
    /\ consent' = FALSE /\ startShown' = TRUE
    /\ UNCHANGED <<joinVars, agreed, canContinue, boxes, pipeVars, clientVars, historyVars>>

\* ShowStartExamLocalPrograms returns early when nothing is listed.
ShowPrograms ==
    /\ label' = "review"
    /\ \/ Posted("programs") /\ consent' = TRUE /\ canContinue' = agreed
       \/ Posted("no_programs") /\ UNCHANGED <<consent, canContinue>>
    /\ UNCHANGED <<joinVars, frame, active, startShown, agreed, boxes, pipeVars, clientVars, historyVars>>

\* ShowInitExamResponse; while its message box is open, the form handles what is posted.
ShowInit ==
    /\ \/ /\ Posted("initialized") /\ label' = "initialized"
          /\ boxes' = <<"instructions">> \o boxes /\ ready' = TRUE
       \/ /\ Posted("failed") /\ label' = "failed"
          /\ boxes' = <<"error">> \o boxes /\ UNCHANGED ready
    /\ UNCHANGED <<joinVars, frame, active, startShown, consent, agreed, canContinue, pipeVars,
                   clientVars, reviewed, clicks, errors>>

\* A form is closed, which ends the user interface and client.exe, and the student starts
\* the user interface again.
Close ==
    /\ form' = "run" /\ request' = NoRequest /\ registered' = FALSE
    /\ label' = "loading" /\ frame' = FALSE /\ active' = FALSE /\ startShown' = TRUE
    /\ consent' = FALSE /\ agreed' = FALSE /\ canContinue' = FALSE /\ boxes' = <<>>
    /\ posted' = <<>> /\ pipe' = "off" /\ outgoing' = <<>> /\ toClient' = <<>> /\ toUi' = <<>> /\ held' = 0
    /\ client' = "starting" /\ serving' = "none"
    /\ reviewed' = FALSE /\ ready' = FALSE
    /\ UNCHANGED <<runStatus, clicks, errors>>

-----------------------------------------------------------------------------
JoinForm == ShowFound \/ ShowRegistered \/ Poll \/ ShowPoll
PipeThread == ConnectPipe \/ Greet \/ Greeted \/ Flush \/ ReadPipe \/ LosePipe
MainForm == ShowUp \/ ShowDown \/ ShowPrograms \/ ShowInit
ClientExe == Listen \/ Serve \/ Respond \/ Exit
Student == Join \/ Register \/ TestExam \/ RealExam \/ StartExam \/ Check \/ Continue \/ CloseBox \/ Close

Next ==
    \/ Student \/ JoinForm \/ Answer \/ PipeThread \/ MainForm \/ ClientExe
    \/ BreakPipe \/ EndClient
    \/ \E status \in Statuses : SetStatus(status)

Spec == Init /\ [][Next]_vars

\* The threads run, the backend answers, and the student closes message boxes.
FairSpec ==
    /\ Spec
    /\ WF_vars(JoinForm) /\ WF_vars(Answer) /\ WF_vars(PipeThread)
    /\ WF_vars(MainForm) /\ WF_vars(ClientExe) /\ WF_vars(CloseBox)

-----------------------------------------------------------------------------
(* Properties.                                                             *)

\* client.exe begins to prepare the exam, which removes the account exam_user and what is
\* on it, only when the student has agreed to the list shown over this very connection.
ConsentFirst == serving = "continue_to_exam" => reviewed

\* Once the student has clicked, the form says what came of it: an answer or the loss of
\* the service; it does not stay at "Preparing" or "Sending".
ClickAnswered ==
    LET atClick == form = "main" /\ label \in {"preparing", "sending"} IN atClick ~> ~atClick

\* A student who waits for a run that is running, and stays so, gets to the main form,
\* whatever requests have failed on the way.
WaitingEnds ==
    LET due == form = "waiting" /\ runStatus = "running" IN due ~> ~due

-----------------------------------------------------------------------------
(* What a message, a comment or the form says, and what does not hold (README.md). *)

\* "Status: Review required before continue": after the review the student can go on.
ReviewLeadsOn == (form = "main" /\ label = "review") ~> (consent \/ label # "review" \/ form # "main")

\* "Status: Loading exam service...": the service is there in the end.
LoadingEnds == (form = "main" /\ label = "loading") ~> (label # "loading" \/ form # "main")

\* "The exam will start after you log in to that account.": the account the student was
\* told to log in to is not prepared anew.
ReadyStays == ready => serving # "continue_to_exam"

\* "registered_name, run_id and backend_host are required"
NameGiven == serving = "continue_to_exam" => registered
=============================================================================
