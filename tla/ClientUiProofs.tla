-------------------------- MODULE ClientUiProofs --------------------------
(***************************************************************************)
(* Proofs about ClientUi: type correctness, and that client.exe prepares   *)
(* an exam only for a confirmation given over the connection that is open. *)
(***************************************************************************)
EXTENDS ClientUi, TLAPS

LEMMA SeqType ==
    ASSUME NEW S, NEW s \in Seq(S)
    PROVE  /\ \A x \in S : Append(s, x) \in Seq(S)
           /\ s # <<>> => Tail(s) \in Seq(S) /\ Head(s) \in S
           /\ <<>> \in Seq(S)
OBVIOUS

LEMMA TypeJoin == ASSUME TypeOK, Next PROVE JoinOK'
<1> USE DEF TypeOK, JoinOK
<1>1. CASE Join BY <1>1 DEF Join, Ask, NoRequest, historyVars
<1>2. CASE Register BY <1>2 DEF Register, Ask, NoRequest
<1>3. CASE Poll BY <1>3 DEF Poll, Ask, NoRequest
<1>4. CASE Answer BY <1>4 DEF Answer
<1>5. CASE ShowFound BY <1>5 DEF ShowFound, StayIn, NoRequest
<1>6. CASE ShowRegistered
  <2>1. registered' \in BOOLEAN BY <1>6, Zenon DEF ShowRegistered
  <2> QED BY <1>6, <2>1 DEF ShowRegistered, StayIn, NoRequest
<1>7. CASE ShowPoll BY <1>7 DEF ShowPoll, AfterPoll, StayIn, OpenMain, NoRequest
<1>8. CASE TestExam BY <1>8 DEF TestExam, OpenMain
<1>9. CASE RealExam BY <1>9 DEF RealExam, StayIn
<1>10. CASE \E status \in Statuses : SetStatus(status) BY <1>10 DEF SetStatus
<1>11. CASE Close BY <1>11 DEF Close, NoRequest
<1>12. CASE PipeThread \/ MainForm \/ ClientExe \/ BreakPipe \/ EndClient
  BY <1>12 DEF PipeThread, ConnectPipe, Greet, Greeted, Flush, ReadPipe, LosePipe, MainForm, ShowUp, ShowDown,
       ShowPrograms, ShowInit, ClientExe, Listen, Serve, Respond, Exit, BreakPipe, EndClient, joinVars
<1>13. CASE StartExam \/ Check \/ Continue \/ CloseBox
  BY <1>13 DEF StartExam, Check, Continue, CloseBox, joinVars
<1> QED BY <1>1, <1>2, <1>3, <1>4, <1>5, <1>6, <1>7, <1>8, <1>9, <1>10, <1>11, <1>12, <1>13
     DEF Next, Student, JoinForm

\* The controls of the main form.
ControlsOK ==
    /\ label \in {"loading", "connected", "preparing", "review", "sending", "initialized", "failed"}
    /\ frame \in BOOLEAN /\ active \in BOOLEAN /\ startShown \in BOOLEAN
    /\ consent \in BOOLEAN /\ agreed \in BOOLEAN /\ canContinue \in BOOLEAN
BoxesOK == boxes \in Seq({"instructions", "error"})
PostedOK == posted \in Seq({"up", "down"} \cup Results)

LEMMA MainParts ==
    /\ MainOK <=> ControlsOK /\ BoxesOK /\ PostedOK
    /\ MainOK' <=> ControlsOK' /\ BoxesOK' /\ PostedOK'
BY DEF MainOK, ControlsOK, BoxesOK, PostedOK

LEMMA TypeControls == ASSUME TypeOK, Next PROVE ControlsOK'
<1> USE MainParts DEF TypeOK
<1>0. UNCHANGED mainVars => ControlsOK' BY Zenon DEF mainVars, ControlsOK
<1>1. CASE JoinForm \/ Answer \/ Join \/ Register \/ TestExam \/ RealExam \/ (\E status \in Statuses : SetStatus(status))
  BY <1>0, <1>1, Zenon DEF JoinForm, ShowFound, ShowRegistered, Poll, ShowPoll, Answer, Join, Register, TestExam, RealExam,
       SetStatus
<1>2. CASE PipeThread \/ ClientExe \/ BreakPipe \/ EndClient
  BY <1>0, <1>2, Zenon DEF PipeThread, ConnectPipe, Greet, Greeted, Flush, ReadPipe, LosePipe, ClientExe, Listen, Serve,
       Respond, Exit, BreakPipe, EndClient
<1>3. CASE StartExam BY <1>3, Zenon DEF StartExam, ControlsOK
<1>4. CASE Check BY <1>4, Zenon DEF Check, ControlsOK
<1>5. CASE Continue BY <1>5, Zenon DEF Continue, ControlsOK
<1>6. CASE CloseBox BY <1>6, Zenon DEF CloseBox, ControlsOK
<1>7. CASE Close BY <1>7, Zenon DEF Close, ControlsOK
<1>8. CASE ShowUp BY <1>8, Zenon DEF ShowUp, ControlsOK
<1>9. CASE ShowDown BY <1>9, Zenon DEF ShowDown, ControlsOK
<1>10. CASE ShowPrograms BY <1>10, Zenon DEF ShowPrograms, ControlsOK
<1>11. CASE ShowInit BY <1>11, Zenon DEF ShowInit, ControlsOK
<1> QED BY <1>1, <1>2, <1>3, <1>4, <1>5, <1>6, <1>7, <1>8, <1>9, <1>10, <1>11 DEF Next, Student, MainForm

LEMMA TypeBoxes == ASSUME TypeOK, Next PROVE BoxesOK'
<1> USE MainParts DEF TypeOK, BoxesOK
<1>0. UNCHANGED boxes => BoxesOK' OBVIOUS
<1>1. CASE JoinForm \/ Answer \/ Join \/ Register \/ TestExam \/ RealExam \/ (\E status \in Statuses : SetStatus(status))
  BY <1>0, <1>1, Zenon DEF JoinForm, ShowFound, ShowRegistered, Poll, ShowPoll, Answer, Join, Register, TestExam, RealExam,
       SetStatus, mainVars
<1>2. CASE PipeThread \/ ClientExe \/ BreakPipe \/ EndClient
  BY <1>0, <1>2, Zenon DEF PipeThread, ConnectPipe, Greet, Greeted, Flush, ReadPipe, LosePipe, ClientExe, Listen, Serve,
       Respond, Exit, BreakPipe, EndClient, mainVars
<1>3. CASE StartExam \/ Check \/ Continue \/ ShowUp \/ ShowDown \/ ShowPrograms
  BY <1>0, <1>3, Zenon DEF StartExam, Check, Continue, ShowUp, ShowDown, ShowPrograms
<1>4. CASE CloseBox
  <2>1. boxes # <<>> /\ boxes' = Tail(boxes) BY <1>4, Zenon DEF CloseBox
  <2> QED BY <2>1
<1>5. CASE Close
  <2>1. boxes' = <<>> BY <1>5, Zenon DEF Close
  <2> QED BY <2>1
<1>6. CASE ShowInit
  <2>1. boxes' = <<"instructions">> \o boxes \/ boxes' = <<"error">> \o boxes BY <1>6, Zenon DEF ShowInit
  <2>2. \A x \in {"instructions", "error"} : <<x>> \o boxes \in Seq({"instructions", "error"}) OBVIOUS
  <2> QED BY <2>1, <2>2
<1> QED BY <1>1, <1>2, <1>3, <1>4, <1>5, <1>6 DEF Next, Student, MainForm

LEMMA TypePosted == ASSUME TypeOK, Next PROVE PostedOK'
<1> USE MainParts DEF TypeOK, PostedOK
<1>0. UNCHANGED posted => PostedOK' OBVIOUS
<1>1. CASE Join \/ Register \/ Poll \/ Answer \/ ShowFound \/ ShowRegistered \/ RealExam
            \/ (\E status \in Statuses : SetStatus(status))
  BY <1>0, <1>1 DEF Join, Register, Poll, Answer, ShowFound, ShowRegistered, RealExam, SetStatus, StayIn
<1>2. CASE ShowPoll \/ TestExam
  <2>1. OpenMain => posted' = <<"down">> BY DEF OpenMain
  <2>2. <<"down">> \in Seq({"up", "down"} \cup Results) OBVIOUS
  <2>3. posted' = <<"down">> \/ UNCHANGED posted
    BY <1>2, <2>1 DEF ShowPoll, AfterPoll, TestExam, StayIn
  <2> QED BY <1>0, <2>2, <2>3
<1>3. CASE ConnectPipe BY <1>3 DEF ConnectPipe
<1>4. CASE Greet \/ Greeted \/ Flush \/ ClientExe \/ BreakPipe \/ EndClient
  BY <1>0, <1>4 DEF Greet, Greeted, Flush, ClientExe, Listen, Serve, Respond, Exit, BreakPipe, EndClient, LoseBytes,
       pipeVars
<1>5. CASE ReadPipe BY <1>5 DEF ReadPipe
<1>6. CASE LosePipe BY <1>6 DEF LosePipe, TellLoss
<1>7. CASE StartExam \/ Check \/ Continue \/ CloseBox
  BY <1>0, <1>7 DEF StartExam, Check, Continue, CloseBox
<1>8. CASE Close BY <1>8 DEF Close
<1>9. CASE MainForm
  <2>1. posted # <<>> /\ posted' = Tail(posted)
    BY <1>9, Zenon DEF MainForm, ShowUp, ShowDown, ShowPrograms, ShowInit, Posted
  <2> QED BY <2>1
<1> QED BY <1>1, <1>2, <1>3, <1>4, <1>5, <1>6, <1>7, <1>8, <1>9 DEF Next, Student, JoinForm, PipeThread

\* The head and the tail of what is queued, and the empty queue.
LEMMA QueuesTyped ==
    ASSUME TypeOK
    PROVE  /\ outgoing # <<>> => Tail(outgoing) \in Seq(Asked) /\ Head(outgoing) \in Asked
           /\ \A x \in Asked : Append(outgoing, x) \in Seq(Asked)
           /\ \A x \in Asked : Append(toClient, x) \in Seq(Asked \cup {"connect"})
           /\ <<>> \in Seq(Asked \cup {"connect"})
<1>1. outgoing \in Seq(Asked) /\ toClient \in Seq(Asked \cup {"connect"}) BY DEF TypeOK, PipeOK
<1>2. Asked \subseteq Asked \cup {"connect"} OBVIOUS
<1> QED BY <1>1, <1>2, SeqType

LEMMA TypePipe == ASSUME TypeOK, Next PROVE PipeOK'
<1> USE DEF TypeOK, PipeOK, Asked, Results
<1>30. Len(toUi) \in Nat /\ held \in Nat OBVIOUS
<1>0. UNCHANGED <<pipeVars, clientVars>> => PipeOK' BY DEF pipeVars, clientVars
<1>1. CASE Join \/ Register \/ Poll \/ Answer \/ ShowFound \/ ShowRegistered \/ RealExam
            \/ (\E status \in Statuses : SetStatus(status))
  BY <1>0, <1>1 DEF Join, Register, Poll, Answer, ShowFound, ShowRegistered, RealExam, SetStatus, StayIn
<1>2. CASE ShowPoll \/ TestExam
  BY <1>0, <1>2 DEF ShowPoll, AfterPoll, TestExam, OpenMain, StayIn, clientVars
<1>3. CASE ConnectPipe BY <1>3 DEF ConnectPipe
<1>4. CASE Greet BY <1>4 DEF Greet, clientVars
<1>6. CASE Flush
  <2> USE QueuesTyped
  <2> HIDE DEF Asked, TypeOK, PipeOK
  <2>1. outgoing # <<>> /\ UNCHANGED <<pipe, toUi, held, client, serving>> BY <1>6 DEF Flush, clientVars
  <2>2. outgoing \in Seq(Asked) /\ toClient \in Seq(Asked \cup {"connect"}) BY DEF TypeOK, PipeOK
  <2>3. Tail(outgoing) \in Seq(Asked) /\ Head(outgoing) \in Asked BY <2>1
  <2>4. Append(Tail(outgoing), Head(outgoing)) \in Seq(Asked) BY <2>3
  <2>5. outgoing' \in Seq(Asked) BY <1>6, <2>3, <2>4 DEF Flush
  <2>6. toClient' \in Seq(Asked \cup {"connect"}) BY <1>6, <2>2, <2>3 DEF Flush
  <2> QED BY <2>1, <2>5, <2>6 DEF TypeOK, PipeOK
<1>7. CASE Greeted \/ ReadPipe
  <2>1. PICK taken \in IF held = 0 THEN 1 .. Len(toUi) ELSE {held} : held' = taken - 1
    BY <1>7 DEF Greeted, ReadPipe, ReadLine
  <2>2. Len(toUi) > held /\ toUi' = Tail(toUi) BY <1>7 DEF Greeted, ReadPipe, ReadLine
  <2>3. toUi' \in Seq(Results \cup {"response"}) /\ Len(toUi') = Len(toUi) - 1 BY <1>30, <2>2
  <2>4. held' \in 0 .. Len(toUi') BY <1>30, <2>1, <2>2, <2>3
  <2> QED BY <1>7, <2>3, <2>4 DEF Greeted, ReadPipe, clientVars
<1>8. CASE LosePipe BY <1>8 DEF LosePipe, clientVars
<1>9. CASE Listen \/ Exit BY <1>9 DEF Listen, Exit, AfterDisconnect, pipeVars
<1>10. CASE Serve BY <1>10 DEF Serve
<1>11. CASE Respond
  <2>1. PICK reply \in Replies : toUi' = Append(toUi, reply) BY <1>11 DEF Respond
  <2>2. reply \in Results \cup {"response"} BY <1>11, <2>1 DEF Respond, Replies
  <2>3. toUi' \in Seq(Results \cup {"response"}) /\ Len(toUi') = Len(toUi) + 1 BY <2>1, <2>2
  <2>4. held' \in 0 .. Len(toUi') BY <1>11, <1>30, <2>3 DEF Respond
  <2> QED BY <1>11, <2>3, <2>4 DEF Respond
<1>12. CASE BreakPipe \/ EndClient
  <2>1. toUi' \in Seq(Results \cup {"response"}) /\ held' \in 0 .. Len(toUi')
    <3>1. toUi' = toUi \/ toUi' = SubSeq(toUi, 1, held) BY <1>12 DEF BreakPipe, EndClient, LoseBytes
    <3>2. /\ SubSeq(toUi, 1, held) \in Seq(Results \cup {"response"})
          /\ Len(SubSeq(toUi, 1, held)) = held
      BY <1>30
    <3>3. held' = held BY <1>12 DEF BreakPipe, EndClient, LoseBytes
    <3> QED BY <1>30, <3>1, <3>2, <3>3
  <2>2. toClient' \in Seq(Asked \cup {"connect"})
    <3>1. toClient' = <<>> BY <1>12 DEF BreakPipe, EndClient, LoseBytes
    <3> HIDE DEF Asked, TypeOK, PipeOK
    <3> QED BY <3>1, QueuesTyped
  <2> QED BY <1>12, <2>1, <2>2 DEF BreakPipe, EndClient
<1>13. CASE StartExam BY <1>13 DEF StartExam, clientVars
<1>14. CASE Continue BY <1>14 DEF Continue, clientVars
<1>15. CASE Check \/ CloseBox \/ MainForm
  BY <1>0, <1>15 DEF Check, CloseBox, MainForm, ShowUp, ShowDown, ShowPrograms, ShowInit
<1>16. CASE Close BY <1>16 DEF Close
<1> QED BY <1>1, <1>2, <1>3, <1>4, <1>6, <1>7, <1>8, <1>9, <1>10, <1>11, <1>12, <1>13, <1>14, <1>15, <1>16
     DEF Next, Student, JoinForm, PipeThread, ClientExe

LEMMA TypeHistory == ASSUME TypeOK, Next PROVE HistoryOK'
<1> USE BoundsAssumption DEF TypeOK, HistoryOK
<1>0. UNCHANGED historyVars => HistoryOK' BY Zenon DEF historyVars
<1>1. UNCHANGED <<clicks, errors>> => clicks' \in 0 .. MaxClicks /\ errors' \in 0 .. MaxErrors OBVIOUS
<1>2. CASE JoinForm \/ Join \/ Register \/ TestExam \/ RealExam \/ (\E status \in Statuses : SetStatus(status))
  BY <1>0, <1>2, Zenon DEF JoinForm, ShowFound, ShowRegistered, Poll, ShowPoll, Join, Register, TestExam, RealExam, SetStatus
<1>3. CASE Answer
  <2>1. errors' \in 0 .. MaxErrors /\ clicks' \in 0 .. MaxClicks BY <1>3 DEF Answer
  <2> QED BY <1>3, <2>1, Zenon DEF Answer
<1>4. CASE ConnectPipe BY <1>1, <1>4, Zenon DEF ConnectPipe
<1>5. CASE Greet \/ Greeted \/ Flush \/ ReadPipe \/ LosePipe \/ ClientExe \/ BreakPipe \/ EndClient
  BY <1>0, <1>5, Zenon DEF Greet, Greeted, Flush, ReadPipe, LosePipe, ClientExe, Listen, Serve, Respond, Exit, BreakPipe,
       EndClient
<1>6. CASE StartExam
  <2>1. errors' \in 0 .. MaxErrors /\ clicks' \in 0 .. MaxClicks BY <1>6 DEF StartExam
  <2> QED BY <1>6, <2>1, Zenon DEF StartExam
<1>7. CASE Continue
  <2>1. errors' \in 0 .. MaxErrors /\ clicks' \in 0 .. MaxClicks BY <1>7 DEF Continue
  <2> QED BY <1>7, <2>1, Zenon DEF Continue
<1>8. CASE Check \/ CloseBox \/ ShowUp \/ ShowDown \/ ShowPrograms
  BY <1>0, <1>8, Zenon DEF Check, CloseBox, ShowUp, ShowDown, ShowPrograms
<1>9. CASE ShowInit BY <1>1, <1>9, Zenon DEF ShowInit
<1>10. CASE Close BY <1>1, <1>10, Zenon DEF Close
<1> QED BY <1>2, <1>3, <1>4, <1>5, <1>6, <1>7, <1>8, <1>9, <1>10 DEF Next, Student, PipeThread, MainForm

LEMMA TypeStutter == ASSUME TypeOK, UNCHANGED vars PROVE TypeOK'
<1> USE DEF TypeOK, vars
<1>1. JoinOK' BY DEF JoinOK, joinVars
<1>2. ControlsOK' BY MainParts, Zenon DEF ControlsOK, mainVars
<1>3. PostedOK' /\ BoxesOK' BY MainParts DEF PostedOK, BoxesOK, mainVars
<1>4. PipeOK' BY DEF PipeOK, pipeVars, clientVars
<1>5. HistoryOK' BY Zenon DEF HistoryOK, historyVars
<1> QED BY <1>1, <1>2, <1>3, <1>4, <1>5, MainParts

LEMMA TypeInit == Init => TypeOK
<1> SUFFICES ASSUME Init PROVE TypeOK OBVIOUS
<1>1. JoinOK BY DEF Init, JoinOK, NoRequest
<1>2. ControlsOK BY Zenon DEF Init, ControlsOK
<1>3. PostedOK /\ BoxesOK BY DEF Init, PostedOK, BoxesOK
<1>4. PipeOK BY DEF Init, PipeOK
<1>5. clicks \in 0 .. MaxClicks /\ errors \in 0 .. MaxErrors BY BoundsAssumption DEF Init
<1>6. HistoryOK BY <1>5, Zenon DEF Init, HistoryOK
<1> QED BY <1>1, <1>2, <1>3, <1>4, <1>6, MainParts DEF TypeOK

LEMMA TypeKept == TypeOK /\ [Next]_vars => TypeOK'
BY TypeJoin, TypeControls, TypeBoxes, TypePosted, TypePipe, TypeHistory, TypeStutter, MainParts DEF TypeOK

\* Every variable keeps its type: the form, the requests, the pipe's queues and the life of
\* client.exe are always in one of the states of the code.
THEOREM TypeCorrect == Spec => []TypeOK
BY TypeInit, TypeKept, PTL DEF Spec

-----------------------------------------------------------------------------
(* ConsentFirst.  What is queued for client.exe outlives a connection in   *)
(* outgoing, so the invariant says where it cannot be: nothing is queued   *)
(* before the first connection of a client.exe, which is also its last.    *)

Absent(message, queue) == \A i \in 1 .. Len(queue) : queue[i] # message

\* Before client.exe is connected the form can send nothing.
QuietBefore ==
    client \in {"starting", "listening"} =>
        /\ ~frame /\ Absent("up", posted)
        /\ outgoing = <<>> /\ toClient = <<>> /\ serving = "none"

\* Without an agreement no confirmation is on its way.
NoneWithout ==
    ~reviewed =>
        /\ Absent("continue_to_exam", outgoing)
        /\ Absent("continue_to_exam", toClient)
        /\ serving # "continue_to_exam"

ConsentInv == TypeOK /\ QuietBefore /\ NoneWithout

LEMMA AbsentLater ==
    ASSUME NEW S, NEW queue \in Seq(S), NEW message
    PROVE  /\ \A x \in S : Absent(message, queue) /\ x # message => Absent(message, Append(queue, x))
           /\ queue # <<>> /\ Absent(message, queue) =>
                 Absent(message, Tail(queue)) /\ Head(queue) # message
           /\ Absent(message, <<>>)
<1>1. \A x \in S : Absent(message, queue) /\ x # message => Absent(message, Append(queue, x)) BY DEF Absent
<1>2. queue # <<>> /\ Absent(message, queue) => Absent(message, Tail(queue)) /\ Head(queue) # message BY DEF Absent
<1>3. Absent(message, <<>>) BY DEF Absent
<1> QED BY <1>1, <1>2, <1>3

LEMMA QuietKept == ASSUME ConsentInv, Next PROVE QuietBefore'
<1>1. posted \in Seq({"up", "down"} \cup Results) BY DEF ConsentInv, TypeOK, MainOK
<1>2. posted # <<>> /\ Absent("up", posted) => Absent("up", Tail(posted)) /\ Head(posted) # "up"
  BY <1>1, AbsentLater
<1>3. \A x \in {"down"} \cup Results : Absent("up", posted) => Absent("up", Append(posted, x))
  <2>1. \A x \in {"down"} \cup Results : x \in {"up", "down"} \cup Results /\ x # "up" BY DEF Results
  <2> QED BY <1>1, <2>1, AbsentLater
<1>4. Absent("up", <<>>) /\ Absent("up", <<"down">>) BY DEF Absent
<1>5. ASSUME UNCHANGED <<frame, outgoing, toClient, serving>>,
             client' = client \/ client = "starting",
             Absent("up", posted) => Absent("up", posted')
      PROVE  QuietBefore'
  BY <1>5 DEF ConsentInv, QuietBefore
<1>6. CASE Join \/ Register \/ Poll \/ Answer \/ ShowFound \/ ShowRegistered \/ RealExam \/ Check \/ CloseBox
            \/ Greeted \/ Listen \/ (\E status \in Statuses : SetStatus(status))
  <2>1. UNCHANGED <<frame, outgoing, toClient, serving, posted>>
    BY <1>6 DEF Join, Register, Poll, Answer, ShowFound, ShowRegistered, RealExam, Check, CloseBox, Greeted, Listen,
         SetStatus, StayIn, mainVars, pipeVars, clientVars
  <2>2. client' = client \/ client = "starting"
    BY <1>6 DEF Join, Register, Poll, Answer, ShowFound, ShowRegistered, RealExam, Check, CloseBox, Greeted, Listen,
         SetStatus, clientVars
  <2> QED BY <1>5, <2>1, <2>2
<1>7. CASE ShowPoll \/ TestExam
  <2>1. UNCHANGED <<frame, outgoing, toClient, serving, client>>
    BY <1>7 DEF ShowPoll, AfterPoll, TestExam, OpenMain, StayIn, mainVars, pipeVars, clientVars
  <2>2. posted' = <<"down">> \/ UNCHANGED posted BY <1>7 DEF ShowPoll, AfterPoll, TestExam, OpenMain, StayIn
  <2> QED BY <1>4, <1>5, <2>1, <2>2
<1>8. CASE ConnectPipe \/ BreakPipe \/ Exit \/ EndClient
  BY <1>8 DEF ConnectPipe, BreakPipe, Exit, AfterDisconnect, EndClient, QuietBefore
<1>9. CASE Greet \/ Serve \/ Respond
  BY <1>9 DEF Greet, Serve, Respond, Connected, clientVars, QuietBefore
<1>10. CASE Flush BY <1>10 DEF Flush, ConsentInv, QuietBefore, clientVars
<1>11. CASE ReadPipe
  <2>1. Absent("up", posted) => Absent("up", posted') BY <1>3, <1>11 DEF ReadPipe
  <2> QED BY <1>5, <1>11, <2>1 DEF ReadPipe, mainVars, clientVars
<1>12. CASE LosePipe
  <2>1. Absent("up", posted) => Absent("up", posted') BY <1>3, <1>12 DEF LosePipe, TellLoss
  <2> QED BY <1>5, <1>12, <2>1 DEF LosePipe, mainVars, clientVars
<1>13. CASE StartExam \/ Continue
  BY <1>13 DEF StartExam, Continue, Usable, ConsentInv, QuietBefore, clientVars
<1>14. CASE ShowUp
  <2>1. ~Absent("up", posted) BY <1>2, <1>14 DEF ShowUp, Posted
  <2> QED BY <1>14, <2>1 DEF ShowUp, clientVars, ConsentInv, QuietBefore
<1>15. CASE ShowDown BY <1>2, <1>15 DEF ShowDown, Posted, pipeVars, clientVars, ConsentInv, QuietBefore
<1>16. CASE ShowPrograms \/ ShowInit
  <2>1. Absent("up", posted) => Absent("up", posted') BY <1>2, <1>16 DEF ShowPrograms, ShowInit, Posted
  <2> QED BY <1>5, <1>16, <2>1 DEF ShowPrograms, ShowInit, pipeVars, clientVars
<1>17. CASE Close BY <1>4, <1>17 DEF Close, QuietBefore
<1> QED BY <1>6, <1>7, <1>8, <1>9, <1>10, <1>11, <1>12, <1>13, <1>14, <1>15, <1>16, <1>17
     DEF Next, Student, JoinForm, PipeThread, MainForm, ClientExe

LEMMA NoneKept == ASSUME ConsentInv, Next PROVE NoneWithout'
<1> DEFINE message == "continue_to_exam"
<1>1. outgoing \in Seq(Asked) /\ toClient \in Seq(Asked \cup {"connect"}) BY DEF ConsentInv, TypeOK, PipeOK
<1>2. /\ \A x \in Asked : Absent(message, outgoing) /\ x # message => Absent(message, Append(outgoing, x))
      /\ outgoing # <<>> /\ Absent(message, outgoing) =>
            Absent(message, Tail(outgoing)) /\ Head(outgoing) # message
  BY <1>1, AbsentLater
<1>3. /\ \A x \in Asked \cup {"connect"} :
            Absent(message, toClient) /\ x # message => Absent(message, Append(toClient, x))
      /\ toClient # <<>> /\ Absent(message, toClient) =>
            Absent(message, Tail(toClient)) /\ Head(toClient) # message
  BY <1>1, AbsentLater
<1>4. Absent(message, <<>>) BY DEF Absent
<1> HIDE DEF message
<1>5. ASSUME UNCHANGED <<outgoing, toClient, serving, reviewed>> PROVE NoneWithout'
  BY <1>5 DEF ConsentInv, NoneWithout
<1>6. CASE Join \/ Register \/ Poll \/ Answer \/ ShowFound \/ ShowRegistered \/ ShowPoll \/ TestExam \/ RealExam
            \/ Check \/ CloseBox \/ (\E status \in Statuses : SetStatus(status))
  BY <1>5, <1>6 DEF Join, Register, Poll, Answer, ShowFound, ShowRegistered, ShowPoll, AfterPoll, TestExam, RealExam,
       OpenMain, StayIn, Check, CloseBox, SetStatus, pipeVars, clientVars, historyVars
<1>7. CASE Greeted \/ ReadPipe \/ LosePipe \/ Listen \/ MainForm
  BY <1>5, <1>7 DEF Greeted, ReadPipe, LosePipe, Listen, MainForm, ShowUp, ShowDown, ShowPrograms, ShowInit,
       pipeVars, clientVars, historyVars
<1>8. CASE ConnectPipe
  BY <1>4, <1>8 DEF ConnectPipe, ConsentInv, QuietBefore, NoneWithout, message
<1>9. CASE Greet
  <2>1. Absent(message, toClient) => Absent(message, toClient') BY <1>3, <1>9 DEF Greet, message
  <2> QED BY <1>9, <2>1 DEF Greet, clientVars, historyVars, ConsentInv, NoneWithout, message
<1>10. CASE Flush
  <2>1. outgoing # <<>> /\ Head(outgoing) \in Asked /\ Tail(outgoing) \in Seq(Asked)
    BY <1>1, <1>10, SeqType DEF Flush
  <2>2. Absent(message, outgoing) /\ Absent(message, toClient) =>
            Absent(message, Append(toClient, Head(outgoing)))
    BY <1>2, <1>3, <2>1
  <2>3. Absent(message, outgoing) => Absent(message, Append(Tail(outgoing), Head(outgoing)))
    BY <1>2, <2>1, AbsentLater
  <2>4. Absent(message, outgoing) => Absent(message, Tail(outgoing)) BY <1>2, <2>1
  <2>5. UNCHANGED <<serving, reviewed>> BY <1>10 DEF Flush, clientVars, historyVars
  <2>6. Absent(message, outgoing) /\ Absent(message, toClient) =>
            Absent(message, outgoing') /\ Absent(message, toClient')
    BY <1>10, <2>2, <2>3, <2>4 DEF Flush
  <2> QED BY <2>5, <2>6 DEF ConsentInv, NoneWithout, message
<1>11. CASE Serve
  BY <1>3, <1>11 DEF Serve, historyVars, ConsentInv, NoneWithout, message
<1>12. CASE Respond \/ Exit BY <1>12 DEF Respond, Exit, pipeVars, historyVars, ConsentInv, NoneWithout
<1>13. CASE BreakPipe \/ EndClient
  BY <1>4, <1>13 DEF BreakPipe, EndClient, LoseBytes, historyVars, ConsentInv, NoneWithout, message
<1>14. CASE StartExam
  <2>1. Absent(message, outgoing) => Absent(message, outgoing') BY <1>2, <1>14 DEF StartExam, Asked, message
  <2> QED BY <1>14, <2>1 DEF StartExam, clientVars, ConsentInv, NoneWithout, message
<1>15. CASE Continue BY <1>15 DEF Continue, NoneWithout
<1>16. CASE Close BY <1>4, <1>16 DEF Close, NoneWithout, message
<1> QED BY <1>6, <1>7, <1>8, <1>9, <1>10, <1>11, <1>12, <1>13, <1>14, <1>15, <1>16
     DEF Next, Student, JoinForm, PipeThread, ClientExe

\* client.exe begins to prepare the exam only when the student has agreed to the list shown
\* over this very connection: a confirmation queued for one connection is never written to
\* another.
THEOREM ConsentIsFirst == Spec => []ConsentFirst
<1>1. Init => ConsentInv
  <2>1. Init => TypeOK BY TypeInit
  <2>2. Init => QuietBefore /\ NoneWithout BY DEF Init, QuietBefore, NoneWithout, Absent
  <2> QED BY <2>1, <2>2 DEF ConsentInv
<1>2. ConsentInv /\ [Next]_vars => ConsentInv'
  <2>1. ASSUME ConsentInv, Next PROVE ConsentInv'
    BY <2>1, TypeKept, QuietKept, NoneKept DEF ConsentInv
  <2>2. ASSUME ConsentInv, UNCHANGED vars PROVE ConsentInv'
    <3>1. TypeOK' BY <2>2, TypeKept DEF ConsentInv
    <3>2. QuietBefore' /\ NoneWithout'
      BY <2>2 DEF ConsentInv, QuietBefore, NoneWithout, vars, mainVars, pipeVars, clientVars, historyVars
    <3> QED BY <3>1, <3>2 DEF ConsentInv
  <2> QED BY <2>1, <2>2
<1>3. ConsentInv => ConsentFirst BY DEF ConsentInv, NoneWithout, ConsentFirst
<1> QED BY <1>1, <1>2, <1>3, PTL DEF Spec
=============================================================================
