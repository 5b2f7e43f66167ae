-------------------------- MODULE WorkUploadProofs --------------------------
(***************************************************************************)
(* Proofs about WorkUpload: the guard admits one upload at a time, what    *)
(* the student is told is true, a stored work is not touched again while   *)
(* answers are waited for, and WorkUpload implements Submission.           *)
(***************************************************************************)
EXTENDS WorkUpload, TLAPS

\* TypeOK by the groups of variables.
AppOK ==
    /\ running \in BOOLEAN /\ workUploaded \in BOOLEAN /\ examEnded \in BOOLEAN
    /\ studentFinished \in BOOLEAN /\ loggedIn \in BOOLEAN
    /\ button \in {"on", "asking", "off"}
    /\ exitBox \in BOOLEAN
ThreadsOK == at \in [Uploads -> ThreadStates]
ConnOK == conn \in {"down", "open", "in", "refused"} /\ finishSent \in BOOLEAN
InboxOK == inbox \in Seq(Messages)
BackOK ==
    /\ status \in Statuses
    /\ grace \in BOOLEAN /\ finishEvent \in BOOLEAN /\ clientFinished \in BOOLEAN
SrvOK ==
    /\ srv \in [Uploads -> HandlerStates]
    /\ ans \in [Uploads -> {"none", "ok", "error"}]
    /\ file \in Uploads \cup {"none", "part", "mixed"}
    /\ kept \subseteq Uploads /\ conflicts \subseteq Uploads
HistOK ==
    /\ starts \in Nat /\ changes \in Nat
    /\ told \subseteq Uploads
    /\ warned \in BOOLEAN /\ abandoned \in BOOLEAN

LEMMA TypeParts ==
    TypeOK <=> AppOK /\ ThreadsOK /\ ConnOK /\ InboxOK /\ BackOK /\ SrvOK /\ HistOK
BY DEF TypeOK, AppOK, ThreadsOK, ConnOK, InboxOK, BackOK, SrvOK, HistOK

LEMMA TypePartsNext ==
    TypeOK' <=> AppOK' /\ ThreadsOK' /\ ConnOK' /\ InboxOK' /\ BackOK' /\ SrvOK' /\ HistOK'
BY DEF TypeOK, AppOK, ThreadsOK, ConnOK, InboxOK, BackOK, SrvOK, HistOK

\* A group of variables that does not change keeps its type.
LEMMA Kept ==
    ASSUME TypeOK
    PROVE  /\ UNCHANGED appVars => AppOK'
           /\ UNCHANGED at => ThreadsOK'
           /\ UNCHANGED connVars => ConnOK' /\ InboxOK'
           /\ UNCHANGED backVars => BackOK'
           /\ UNCHANGED srvVars => SrvOK'
           /\ UNCHANGED histVars => HistOK'
<1> USE TypeParts
<1>1. UNCHANGED appVars => AppOK'
  BY Zenon DEF appVars, AppOK
<1>2. UNCHANGED at => ThreadsOK'
  BY DEF ThreadsOK
<1>3. UNCHANGED connVars => ConnOK' /\ InboxOK'
  BY Zenon DEF connVars, ConnOK, InboxOK
<1>4. UNCHANGED backVars => BackOK'
  BY Zenon DEF backVars, BackOK
<1>5. UNCHANGED srvVars => SrvOK'
  BY DEF srvVars, SrvOK
<1>6. UNCHANGED histVars => HistOK'
  BY Zenon DEF histVars, HistOK
<1> QED BY <1>1, <1>2, <1>3, <1>4, <1>5, <1>6

LEMMA AppendType ==
    ASSUME InboxOK, NEW m \in Messages
    PROVE  Append(inbox, m) \in Seq(Messages)
BY DEF InboxOK

LEMMA TailType ==
    ASSUME InboxOK, inbox # <<>>
    PROVE  Tail(inbox) \in Seq(Messages)
BY DEF InboxOK

LEMMA TypeStart == ASSUME TypeOK, Start PROVE TypeOK'
<1> USE TypeParts, Kept DEF Start
<1>1. AppOK'
  BY Zenon DEF AppOK
<1>2. starts' \in Nat
  BY DEF HistOK
<1>3. HistOK'
  BY <1>2, Zenon DEF HistOK
<1> QED BY <1>1, <1>3, TypePartsNext, Zenon

LEMMA TypeExit == ASSUME TypeOK, Exit PROVE TypeOK'
<1> USE TypeParts, Kept DEF Exit
<1>1. AppOK'
  BY Zenon DEF AppOK
<1>2. ThreadsOK'
  BY DEF ThreadsOK, ThreadStates
<1>3. ConnOK'
  BY Zenon DEF ConnOK
<1>4. InboxOK'
  BY DEF InboxOK
<1>5. HistOK'
  BY Zenon DEF HistOK
<1> QED BY <1>1, <1>2, <1>3, <1>4, <1>5, TypePartsNext, Zenon

LEMMA TypeConn ==
    ASSUME TypeOK, Connect \/ Drop \/ Login \/ Beat \/ StoreFinish
    PROVE  TypeOK'
<1> USE TypeParts, Kept
<1>1. CASE Connect
  <2>1. ConnOK' BY <1>1, Zenon DEF Connect, ConnOK
  <2>2. InboxOK' BY <1>1, Zenon DEF Connect, InboxOK
  <2>3. BackOK' BY <1>1, Zenon DEF Connect, BackOK
  <2> QED BY <1>1, <2>1, <2>2, <2>3, TypePartsNext, Zenon DEF Connect
<1>2. CASE Drop
  <2>1. ConnOK' BY <1>2, Zenon DEF Drop, ConnOK
  <2>2. InboxOK' BY <1>2 DEF Drop, InboxOK
  <2> QED BY <1>2, <2>1, <2>2, TypePartsNext, Zenon DEF Drop
<1>3. CASE Login
  <2>1. ConnOK' BY <1>3, Zenon DEF Login, ConnOK
  <2>2. InboxOK' BY <1>3, AppendType DEF Login, InboxOK, Messages
  <2> QED BY <1>3, <2>1, <2>2, TypePartsNext, Zenon DEF Login
<1>4. CASE Beat
  <2>1. ConnOK' BY <1>4, Zenon DEF Beat, ConnOK
  <2>2. InboxOK' BY <1>4, AppendType DEF Beat, InboxOK, Messages
  <2> QED BY <1>4, <2>1, <2>2, TypePartsNext, Zenon DEF Beat
<1>5. CASE StoreFinish
  <2>1. ConnOK' BY <1>5, Zenon DEF StoreFinish, ConnOK
  <2>2. InboxOK' BY <1>5, Zenon DEF StoreFinish, InboxOK
  <2>3. BackOK' BY <1>5, Zenon DEF StoreFinish, BackOK
  <2> QED BY <1>5, <2>1, <2>2, <2>3, TypePartsNext, Zenon DEF StoreFinish
<1> QED BY <1>1, <1>2, <1>3, <1>4, <1>5

LEMMA TypeSpawn == ASSUME TypeOK, NEW u \in Uploads, Spawn(u) PROVE ThreadsOK'
BY TypeParts DEF Spawn, ThreadsOK, ThreadStates

LEMMA TypeUser ==
    ASSUME TypeOK, ReceiveAnswer \/ ClickFinish \/ CancelFinish \/ TimerTick
    PROVE  TypeOK'
<1> USE TypeParts, Kept
<1>1. CASE ReceiveAnswer
  <2>1. AppOK' BY <1>1, Zenon DEF ReceiveAnswer, AppOK
  <2>2. InboxOK' BY <1>1, TailType DEF ReceiveAnswer, InboxOK
  <2>3. ConnOK' BY <1>1, Zenon DEF ReceiveAnswer, ConnOK
  <2> QED BY <1>1, <2>1, <2>2, <2>3, TypePartsNext, Zenon DEF ReceiveAnswer
<1>2. CASE ClickFinish
  <2>1. AppOK' BY <1>2, Zenon DEF ClickFinish, AppOK
  <2> QED BY <1>2, <2>1, TypePartsNext, Zenon DEF ClickFinish
<1>3. CASE CancelFinish
  <2>1. button' \in {"on", "asking", "off"} BY <1>3 DEF CancelFinish
  <2>2. AppOK' BY <1>3, <2>1, Zenon DEF CancelFinish, AppOK
  <2> QED BY <1>3, <2>2, TypePartsNext, Zenon DEF CancelFinish
<1>4. CASE TimerTick
  <2>1. AppOK' BY <1>4, Zenon DEF TimerTick, AppOK
  <2> QED BY <1>4, <2>1, TypePartsNext, Zenon DEF TimerTick
<1> QED BY <1>1, <1>2, <1>3, <1>4

LEMMA TypeTrigger ==
    ASSUME TypeOK, NEW u \in Uploads, ReceiveEnd(u) \/ ConfirmFinish(u)
    PROVE  TypeOK'
<1> USE TypeParts, Kept, TypeSpawn
<1>1. CASE ReceiveEnd(u)
  <2>1. AppOK' BY <1>1, Zenon DEF ReceiveEnd, AppOK
  <2>2. InboxOK' BY <1>1, TailType DEF ReceiveEnd, InboxOK
  <2>3. ConnOK' BY <1>1, Zenon DEF ReceiveEnd, ConnOK
  <2>4. HistOK' BY <1>1, Zenon DEF ReceiveEnd, HistOK
  <2> QED BY <1>1, <2>1, <2>2, <2>3, <2>4, TypePartsNext, Zenon DEF ReceiveEnd
<1>2. CASE ConfirmFinish(u)
  <2>1. AppOK' BY <1>2, Zenon DEF ConfirmFinish, AppOK
  <2>2. InboxOK' BY <1>2, Zenon DEF ConfirmFinish, InboxOK
  <2>3. ConnOK' BY <1>2, Zenon DEF ConfirmFinish, ConnOK
  <2>4. HistOK' BY <1>2, Zenon DEF ConfirmFinish, HistOK
  <2> QED BY <1>2, <2>1, <2>2, <2>3, <2>4, TypePartsNext, Zenon DEF ConfirmFinish
<1> QED BY <1>1, <1>2

LEMMA TypeFail ==
    ASSUME TypeOK, NEW u \in Uploads, Fail(u)
    PROVE  AppOK' /\ ThreadsOK' /\ ConnOK' /\ InboxOK' /\ BackOK' /\ starts' \in Nat /\ changes' \in Nat
           /\ told' \subseteq Uploads /\ warned' \in BOOLEAN
<1> USE TypeParts, Kept DEF Fail
<1>1. AppOK' BY Zenon DEF AppOK
<1>2. ThreadsOK' BY DEF ThreadsOK, ThreadStates
<1>3. starts' \in Nat /\ changes' \in Nat /\ told' \subseteq Uploads /\ warned' \in BOOLEAN
  BY Zenon DEF HistOK
<1> QED BY <1>1, <1>2, <1>3, Zenon

LEMMA TypeThread ==
    ASSUME TypeOK, NEW u \in Uploads, Thread(u)
    PROVE  TypeOK'
<1> USE TypeParts, Kept
<1>1. CASE Begin(u)
  <2>1. ThreadsOK' BY <1>1 DEF Begin, Take, ThreadsOK, ThreadStates
  <2>2. AppOK' BY <1>1, Zenon DEF Begin, Take, AppOK
  <2> QED BY <1>1, <2>1, <2>2, TypePartsNext, Zenon DEF Begin, Take
<1>2. CASE Zip(u)
  <2>1. ThreadsOK' BY <1>2 DEF Zip, ThreadsOK, ThreadStates
  <2> QED BY <1>2, <2>1, TypePartsNext, Zenon DEF Zip
<1>3. CASE Post(u)
  <2>1. ThreadsOK' BY <1>3 DEF Post, ThreadsOK, ThreadStates
  <2>2. SrvOK' BY <1>3 DEF Post, SrvOK, HandlerStates
  <2> QED BY <1>3, <2>1, <2>2, TypePartsNext, Zenon DEF Post
<1>4. CASE Success(u)
  <2>1. ThreadsOK' BY <1>4 DEF Success, ThreadsOK, ThreadStates
  <2>2. told' \subseteq Uploads BY <1>4 DEF Success, HistOK
  <2>3. HistOK' BY <1>4, <2>2, Zenon DEF Success, HistOK
  <2> QED BY <1>4, <2>1, <2>3, TypePartsNext, Zenon DEF Success
<1>5. CASE ZipFails(u) \/ PostFails(u) \/ Refused(u)
  <2>1. Fail(u) /\ UNCHANGED <<srvVars, abandoned>>
    BY <1>5, Zenon DEF ZipFails, PostFails, Refused
  <2>2. HistOK' BY <2>1, TypeFail, Zenon DEF HistOK
  <2> QED BY <2>1, <2>2, TypeFail, TypePartsNext, Zenon
<1>6. CASE Lost(u)
  <2>1. HistOK' BY <1>6, TypeFail, Zenon DEF HistOK, Lost
  <2> QED BY <1>6, <2>1, TypeFail, TypePartsNext, Zenon DEF Lost
<1> QED BY <1>1, <1>2, <1>3, <1>4, <1>5, <1>6 DEF Thread

LEMMA TypeServe ==
    ASSUME TypeOK, NEW u \in Uploads, Serve(u)
    PROVE  TypeOK'
<1> USE TypeParts, Kept
<1>1. SrvOK'
  <2> USE DEF SrvOK, HandlerStates, Handler, Reply
  <2>1. CASE CheckTiming(u) BY <2>1 DEF CheckTiming
  <2>2. CASE CheckDir(u) BY <2>2 DEF CheckDir
  <2>3. CASE Create(u) BY <2>3 DEF Create
  <2>4. CASE CreateFails(u) BY <2>4 DEF CreateFails
  <2>5. CASE Copy(u) BY <2>5 DEF Copy
  <2>6. CASE CopyFails(u) BY <2>6 DEF CopyFails
  <2> QED BY <2>1, <2>2, <2>3, <2>4, <2>5, <2>6 DEF Serve
<1>2. UNCHANGED <<appVars, at, connVars, backVars, histVars>>
  BY Zenon DEF Serve, CheckTiming, CheckDir, Create, CreateFails, Copy, CopyFails
<1> QED BY <1>1, <1>2, TypePartsNext, Zenon

LEMMA TypeRun ==
    ASSUME TypeOK, (\E s \in Statuses : ChangeStatus(s)) \/ GraceOver \/ RestartBackend
    PROVE  TypeOK'
<1> USE TypeParts, Kept
<1>1. ASSUME NEW s \in Statuses, ChangeStatus(s) PROVE TypeOK'
  <2>1. ConnOK' BY <1>1, Zenon DEF ChangeStatus, ConnOK
  <2>2. InboxOK' BY <1>1, AppendType DEF ChangeStatus, InboxOK, Messages
  <2>3. BackOK' BY <1>1, Zenon DEF ChangeStatus, BackOK
  <2>4. changes' \in Nat BY <1>1 DEF ChangeStatus, HistOK
  <2>5. HistOK' BY <1>1, <2>4, Zenon DEF ChangeStatus, HistOK
  <2> QED BY <1>1, <2>1, <2>2, <2>3, <2>5, TypePartsNext, Zenon DEF ChangeStatus
<1>2. CASE GraceOver
  <2>1. BackOK' BY <1>2, Zenon DEF GraceOver, BackOK
  <2> QED BY <1>2, <2>1, TypePartsNext, Zenon DEF GraceOver
<1>3. CASE RestartBackend
  <2>1. ConnOK' BY <1>3, Zenon DEF RestartBackend, ConnOK
  <2>2. InboxOK' BY <1>3 DEF RestartBackend, InboxOK
  <2>3. SrvOK' BY <1>3 DEF RestartBackend, SrvOK, HandlerStates
  <2>4. changes' \in Nat BY <1>3 DEF RestartBackend, HistOK
  <2>5. HistOK' BY <1>3, <2>4, Zenon DEF RestartBackend, HistOK
  <2> QED BY <1>3, <2>1, <2>2, <2>3, <2>5, TypePartsNext, Zenon DEF RestartBackend
<1> QED BY <1>1, <1>2, <1>3

\* Every global, message, thread and handler keeps its type.
THEOREM TypeCorrect == Spec => []TypeOK
<1>1. Init => TypeOK
  <2> SUFFICES ASSUME Init PROVE TypeOK
    OBVIOUS
  <2> USE DEF Init
  <2>1. AppOK /\ ConnOK /\ BackOK BY DEF AppOK, ConnOK, BackOK, Statuses
  <2>2. ThreadsOK BY DEF ThreadsOK, ThreadStates
  <2>3. InboxOK BY DEF InboxOK
  <2>4. SrvOK BY DEF SrvOK, HandlerStates
  <2>5. HistOK BY DEF HistOK
  <2> QED BY <2>1, <2>2, <2>3, <2>4, <2>5, TypeParts, Zenon
<1>2. TypeOK /\ [Next]_vars => TypeOK'
  <2> SUFFICES ASSUME TypeOK, [Next]_vars PROVE TypeOK'
    OBVIOUS
  <2>1. CASE UNCHANGED vars
    BY <2>1, Kept, TypeParts, TypePartsNext, Zenon DEF vars
  <2>2. CASE Next
    BY <2>2, TypeStart, TypeExit, TypeConn, TypeUser, TypeTrigger, TypeThread, TypeServe, TypeRun, ZenonT(60)
       DEF Next, LogOff, ExitBoxOk, SuccessOk
  <2> QED BY <2>1, <2>2
<1> QED BY <1>1, <1>2, PTL DEF Spec

-----------------------------------------------------------------------------
(* The guard.                                                              *)

\* A step leaves the guard and its holders alone, takes a free guard for one thread,
\* gives it back with its holder, or ends every thread.
LEMMA GuardStep ==
    ASSUME TypeOK, [Next]_vars
    PROVE  \/ Holders' = Holders /\ workUploaded' = workUploaded
           \/ \E u \in Uploads : ~workUploaded /\ workUploaded' /\ Holders' = Holders \cup {u}
           \/ \E u \in Holders : ~workUploaded' /\ Holders' = Holders \ {u}
           \/ ~workUploaded' /\ Holders' = {}
<1> DEFINE Same == Holders' = Holders /\ workUploaded' = workUploaded
           Taken(u) == ~workUploaded /\ workUploaded' /\ Holders' = Holders \cup {u}
           Freed(u) == ~workUploaded' /\ Holders' = Holders \ {u}
<1> at \in [Uploads -> ThreadStates]
  BY DEF TypeOK
<1>1. UNCHANGED <<at, workUploaded>> => Same
  BY DEF Holders
<1>2. ASSUME NEW u \in Uploads, Spawn(u) PROVE Holders' = Holders
  BY <1>2 DEF Spawn, Holders
<1>3. ASSUME NEW u \in Holders, Fail(u) PROVE Freed(u)
  BY <1>3 DEF Fail, Holders
<1>4. CASE Exit
  BY <1>4 DEF Exit, Holders
<1>5. CASE Start \/ Connect \/ Drop \/ Login \/ Beat \/ StoreFinish \/ ReceiveAnswer \/ ClickFinish
           \/ CancelFinish \/ TimerTick \/ GraceOver \/ RestartBackend
           \/ \E s \in Statuses : ChangeStatus(s)
  BY <1>5, <1>1, ZenonT(60) DEF Start, Connect, Drop, Login, Beat, StoreFinish, ReceiveAnswer, ClickFinish, CancelFinish,
     TimerTick, GraceOver, RestartBackend, ChangeStatus, appVars
<1>6. CASE UNCHANGED vars
  BY <1>6, <1>1, Zenon DEF vars, appVars
<1>7. ASSUME NEW u \in Uploads, ReceiveEnd(u) \/ ConfirmFinish(u) PROVE Same
  BY <1>7, <1>2, Zenon DEF ReceiveEnd, ConfirmFinish
<1>8. ASSUME NEW u \in Uploads, Serve(u) PROVE Same
  BY <1>8, <1>1, Zenon DEF Serve, CheckTiming, CheckDir, Create, CreateFails, Copy, CopyFails, appVars
<1>9. ASSUME NEW u \in Uploads, Thread(u)
      PROVE  Same \/ Taken(u) \/ (u \in Holders /\ Freed(u))
  <2>1. CASE Begin(u)
    <3>1. CASE workUploaded
      <4>1. at' = [at EXCEPT ![u] = "over"] /\ at[u] = "spawned"
        BY <2>1, <3>1, Zenon DEF Begin, Take
      <4>2. workUploaded' = workUploaded
        BY <2>1, <3>1, Zenon DEF Begin, Take
      <4> QED BY <4>1, <4>2 DEF Holders
    <3>2. CASE ~workUploaded
      <4>1. PICK next \in {"zip", "skipped"} : at' = [at EXCEPT ![u] = next]
        BY <2>1, <3>2, Zenon DEF Begin, Take
      <4>2. workUploaded'
        BY <2>1, <3>2, Zenon DEF Begin, Take
      <4>3. Holders' = Holders \cup {u}
        BY <4>1 DEF Holders
      <4> QED BY <3>2, <4>2, <4>3, Zenon
    <3> QED BY <3>1, <3>2
  <2>2. CASE Zip(u)
    <3>1. Holders' = Holders BY <2>2 DEF Zip, Holders
    <3> QED BY <2>2, <3>1, Zenon DEF Zip, appVars
  <2>3. CASE Post(u)
    <3>1. Holders' = Holders BY <2>3 DEF Post, Holders
    <3> QED BY <2>3, <3>1, Zenon DEF Post, appVars
  <2>4. CASE Success(u)
    <3>1. Holders' = Holders BY <2>4 DEF Success, Holders
    <3> QED BY <2>4, <3>1, Zenon DEF Success, appVars
  <2>5. CASE ZipFails(u) \/ PostFails(u) \/ Refused(u) \/ Lost(u)
    <3>1. u \in Holders /\ Fail(u)
      BY <2>5 DEF ZipFails, PostFails, Refused, Lost, Holders
    <3> QED BY <3>1, <1>3, Zenon
  <2> QED BY <1>9, <2>1, <2>2, <2>3, <2>4, <2>5 DEF Thread
<1>10. CASE \E u \in Uploads : ReceiveEnd(u) \/ ConfirmFinish(u) \/ Thread(u) \/ Serve(u)
  BY <1>10, <1>7, <1>8, <1>9, Zenon
<1> QED
  BY <1>4, <1>5, <1>6, <1>10, ZenonT(60) DEF Next, LogOff, ExitBoxOk, SuccessOk

\* Neither half is inductive without the other: a free guard could be taken beside a
\* holder, and the reset by one of two holders would free a guard still in use.
LEMMA FlightStep == ASSUME TypeOK, Flight, [Next]_vars PROVE Flight'
<1> USE DEF Flight, SingleFlight, GuardHeld
<1>1. CASE Holders' = Holders /\ workUploaded' = workUploaded
  BY <1>1, Zenon
<1>2. ASSUME NEW u \in Uploads, ~workUploaded, workUploaded', Holders' = Holders \cup {u}
      PROVE  Flight'
  <2>1. Holders = {} BY <1>2, Zenon
  <2>2. Holders' = {u} BY <1>2, <2>1
  <2> QED BY <1>2, <2>2
<1>3. ASSUME NEW u \in Holders, ~workUploaded', Holders' = Holders \ {u} PROVE Flight'
  <2>1. Holders' = {} BY <1>3
  <2> QED BY <1>3, <2>1
<1>4. CASE ~workUploaded' /\ Holders' = {}
  BY <1>4
<1> QED BY <1>1, <1>2, <1>3, <1>4, GuardStep, Zenon

LEMMA FlightInvariant == Spec => []Flight
<1>1. Init => Flight
  BY DEF Init, Flight, SingleFlight, GuardHeld, Holders
<1> QED BY <1>1, FlightStep, TypeCorrect, PTL DEF Spec

\* However the end of the exam, the finish button and failed attempts are interleaved,
\* one upload at most is under way, and the guard is taken exactly while one is under way
\* or has ended the matter.
THEOREM OneAtATime == Spec => []Flight
BY FlightInvariant, PTL

-----------------------------------------------------------------------------
(* What is stored and what is told.                                        *)

\* An answer of success stands for a stored archive.
Honest == told \subseteq kept /\ \A u \in Uploads : ans[u] = "ok" => u \in kept

\* A step stores one more archive, tells of one answered with success, or leaves both
\* sets alone; and it answers with success only what it stores.
LEMMA StoreStep ==
    ASSUME TypeOK, [Next]_vars
    PROVE  /\ \/ kept' = kept /\ told' = told
              \/ \E u \in Uploads : kept' = kept \cup {u} /\ told' = told
              \/ \E u \in Uploads : ans[u] = "ok" /\ kept' = kept /\ told' = told \cup {u}
           /\ \A v \in Uploads : ans'[v] = "ok" => ans[v] = "ok" \/ v \in kept'
<1> DEFINE Same == UNCHANGED <<kept, told>>
           Stores(u) == kept' = kept \cup {u} /\ told' = told
           Tells(u) == ans[u] = "ok" /\ kept' = kept /\ told' = told \cup {u}
           Answers == \A v \in Uploads : ans'[v] = "ok" => ans[v] = "ok" \/ v \in kept'
<1> ans \in [Uploads -> {"none", "ok", "error"}]
  BY DEF TypeOK
<1>1. UNCHANGED ans => Answers
  BY Zenon
<1>2. CASE Start \/ Exit \/ Connect \/ Drop \/ Login \/ Beat \/ StoreFinish \/ ReceiveAnswer \/ ClickFinish
           \/ CancelFinish \/ TimerTick \/ GraceOver \/ RestartBackend
           \/ (\E s \in Statuses : ChangeStatus(s)) \/ UNCHANGED vars
  <2>1. UNCHANGED <<ans, kept, told>>
    BY <1>2, ZenonT(60) DEF Start, Exit, Connect, Drop, Login, Beat, StoreFinish, ReceiveAnswer, ClickFinish, CancelFinish,
       TimerTick, GraceOver, RestartBackend, ChangeStatus, srvVars, histVars, vars
  <2> QED BY <2>1, <1>1
<1>3. ASSUME NEW u \in Uploads, ReceiveEnd(u) \/ ConfirmFinish(u) PROVE Same /\ Answers
  BY <1>3, <1>1, Zenon DEF ReceiveEnd, ConfirmFinish, srvVars
<1>4. ASSUME NEW u \in Uploads, Thread(u) PROVE (Same \/ Tells(u)) /\ Answers
  <2>1. CASE Success(u)
    BY <2>1, <1>1, Zenon DEF Success, srvVars
  <2>2. CASE Begin(u) \/ Zip(u) \/ ZipFails(u) \/ Post(u) \/ PostFails(u) \/ Refused(u) \/ Lost(u)
    BY <2>2, <1>1, ZenonT(60) DEF Begin, Take, Zip, ZipFails, Post, PostFails, Refused, Lost, Fail, srvVars, histVars
  <2> QED BY <1>4, <2>1, <2>2 DEF Thread
<1>5. ASSUME NEW u \in Uploads, Serve(u) PROVE (Same \/ Stores(u)) /\ Answers
  <2>1. CASE Copy(u)
    BY <2>1 DEF Copy, Reply, histVars
  <2>2. CASE CheckTiming(u) \/ CheckDir(u) \/ Create(u) \/ CreateFails(u) \/ CopyFails(u)
    <3>1. Same
      BY <2>2, ZenonT(60) DEF CheckTiming, CheckDir, Create, CreateFails, CopyFails, histVars
    <3>2. ans' = ans \/ ans' = [ans EXCEPT ![u] = "error"]
      BY <2>2, ZenonT(60) DEF CheckTiming, CheckDir, Create, CreateFails, CopyFails, Reply
    <3>3. Answers
      BY <3>2
    <3> QED BY <3>1, <3>3
  <2> QED BY <1>5, <2>1, <2>2 DEF Serve
<1>6. CASE \E u \in Uploads : ReceiveEnd(u) \/ ConfirmFinish(u) \/ Thread(u) \/ Serve(u)
  BY <1>6, <1>3, <1>4, <1>5, Zenon
<1> QED
  BY <1>2, <1>6, ZenonT(60) DEF Next, LogOff, ExitBoxOk, SuccessOk

LEMMA HonestStep == ASSUME TypeOK, Honest, [Next]_vars PROVE Honest'
BY StoreStep DEF Honest

LEMMA HonestInvariant == Spec => []Honest
<1>1. Init => Honest
  BY DEF Init, Honest
<1> QED BY <1>1, HonestStep, TypeCorrect, PTL DEF Spec

-----------------------------------------------------------------------------
(* A stored work is not touched again.                                     *)

Active(u) == srv[u] \in {"received", "timed", "clear", "created"}

\* A thread has no request before it posts one.
Fresh == \A u \in Uploads : at[u] \in {"unused", "spawned", "zip", "post"} => srv[u] = "none" /\ ans[u] = "none"

\* A request at work is one its thread waits for, and what the handler saw is still so.
Waited ==
    ~abandoned => \A u \in Uploads :
        /\ Active(u) => at[u] = "sent" /\ ans[u] = "none"
        /\ srv[u] = "clear" => file = "none"
        /\ srv[u] = "created" => file = "part"
        /\ at[u] = "sent" /\ ans[u] = "ok" => file = u

\* A handler at its copy has made the file.
Opened == \A u \in Uploads : srv[u] = "created" => file # "none"

Untouched == Fresh /\ Waited /\ Opened

LEMMA AtSent ==
    ASSUME TypeOK, Flight, NEW u \in Uploads, NEW v \in Uploads, at[u] = "sent", at[v] = "sent"
    PROVE  u = v
BY DEF Flight, SingleFlight, Holders

LEMMA UntouchedThread ==
    ASSUME TypeOK, Untouched, NEW u \in Uploads, ReceiveEnd(u) \/ ConfirmFinish(u) \/ Thread(u)
    PROVE  Untouched'
<1> USE DEF Untouched, Fresh, Waited, Opened, Active
<1> at \in [Uploads -> ThreadStates] /\ srv \in [Uploads -> HandlerStates]
  BY DEF TypeOK
<1>1. CASE Spawn(u) /\ UNCHANGED <<srvVars, abandoned>>
  BY <1>1 DEF Spawn, srvVars
<1>2. CASE Begin(u)
  <2>1. PICK next \in {"over", "zip", "skipped"} : at' = [at EXCEPT ![u] = next]
    BY <1>2 DEF Begin, Take
  <2>2. at[u] = "spawned" /\ UNCHANGED <<srvVars, abandoned>>
    BY <1>2, Zenon DEF Begin, Take, histVars
  <2> QED BY <2>1, <2>2 DEF srvVars
<1>3. CASE Zip(u) BY <1>3 DEF Zip, srvVars, histVars
<1>4. CASE Post(u) BY <1>4 DEF Post, srvVars, histVars
<1>5. CASE Success(u) BY <1>5 DEF Success, srvVars
<1>6. CASE ZipFails(u) \/ PostFails(u) \/ Refused(u)
  <2>1. at[u] \in {"zip", "post"} \/ (at[u] = "sent" /\ ans[u] = "error")
    BY <1>6 DEF ZipFails, PostFails, Refused
  <2>2. at' = [at EXCEPT ![u] = "over"] /\ UNCHANGED <<srvVars, abandoned>>
    BY <1>6, Zenon DEF ZipFails, PostFails, Refused, Fail
  <2> QED BY <2>1, <2>2 DEF srvVars
<1>7. CASE Lost(u) BY <1>7 DEF Lost, Fail, srvVars
<1> QED
  BY <1>1, <1>2, <1>3, <1>4, <1>5, <1>6, <1>7, Zenon DEF ReceiveEnd, ConfirmFinish, Thread

LEMMA UntouchedServe ==
    ASSUME TypeOK, Flight, Untouched, NEW u \in Uploads, Serve(u)
    PROVE  Untouched'
<1> USE DEF Untouched
<1> at \in [Uploads -> ThreadStates] /\ srv \in [Uploads -> HandlerStates]
    /\ ans \in [Uploads -> {"none", "ok", "error"}]
  BY DEF TypeOK
<1>1. UNCHANGED <<at, abandoned>>
  BY Zenon DEF Serve, CheckTiming, CheckDir, Create, CreateFails, Copy, CopyFails, histVars
<1>2. PICK to \in HandlerStates, a \in {"none", "ok", "error"} :
         /\ Active(u)
         /\ srv' = [srv EXCEPT ![u] = to]
         /\ ans' = [ans EXCEPT ![u] = a]
         /\ to \in {"timed", "clear", "created"} => a = ans[u]
         /\ to \in {"timed", "clear", "created", "done"}
         /\ to = "clear" => file' = "none"
         /\ to = "created" =>
                /\ srv[u] = "clear"
                /\ file' = "part" \/ \E v \in Uploads : srv[v] = "created"
         /\ (file # "none" \/ to = "created") => file' # "none"
         /\ a = "ok" /\ ans[u] # "ok" => srv[u] = "created" /\ (file = "part" => file' = u)
  <2> USE UploadsAssumption DEF Handler, Reply, HandlerStates, Active
  <2>1. CASE CheckTiming(u) BY <2>1 DEF CheckTiming
  <2>2. CASE CheckDir(u) BY <2>2 DEF CheckDir, Vacant
  <2>3. CASE Create(u) BY <2>3 DEF Create
  <2>4. CASE CreateFails(u) BY <2>4 DEF CreateFails
  <2>5. CASE Copy(u) BY <2>5 DEF Copy
  <2>6. CASE CopyFails(u) BY <2>6 DEF CopyFails
  <2> QED BY <2>1, <2>2, <2>3, <2>4, <2>5, <2>6 DEF Serve
<1>3. Fresh'
  BY <1>1, <1>2 DEF Fresh, Active
<1>4. Waited'
  <2> SUFFICES ASSUME ~abandoned, NEW v \in Uploads
               PROVE  /\ Active(v)' => at[v] = "sent" /\ ans'[v] = "none"
                      /\ srv'[v] = "clear" => file' = "none"
                      /\ srv'[v] = "created" => file' = "part"
                      /\ at[v] = "sent" /\ ans'[v] = "ok" => file' = v
    BY <1>1 DEF Waited
  <2>1. at[u] = "sent" /\ ans[u] = "none"
    BY <1>2 DEF Waited
  <2>2. CASE v = u
    <3>1. srv'[u] = to /\ ans'[u] = a
      BY <1>2
    <3>2. to \in {"timed", "clear", "created", "done"}
      BY <1>2
    <3>3. to = "created" => file' = "part"
      <4>1. ASSUME to = "created", NEW w \in Uploads, srv[w] = "created" PROVE FALSE
        <5>1. at[w] = "sent"
          BY <4>1 DEF Waited, Active
        <5>2. w = u /\ srv[u] = "clear"
          BY <1>2, <2>1, <4>1, <5>1, AtSent
        <5> QED BY <4>1, <5>2
      <4> QED BY <1>2, <4>1
    <3>4. to # "done" => a = "none"
      BY <1>2, <2>1, <3>2
    <3>5. a = "ok" => file' = u
      BY <1>2, <2>1 DEF Waited
    <3> QED BY <1>2, <2>1, <2>2, <3>1, <3>2, <3>3, <3>4, <3>5 DEF Active
  <2>3. CASE v # u
    <3>1. at[v] # "sent"
      BY <2>1, <2>3, AtSent
    <3>2. ~Active(v)
      BY <3>1 DEF Waited
    <3> QED BY <1>2, <2>3, <3>1, <3>2 DEF Active
  <2> QED BY <2>2, <2>3
<1>5. Opened'
  BY <1>2, UploadsAssumption DEF Opened
<1> QED BY <1>3, <1>4, <1>5

LEMMA UntouchedStep == ASSUME TypeOK, Flight, Untouched, [Next]_vars PROVE Untouched'
<1>1. CASE Start \/ Connect \/ Drop \/ Login \/ Beat \/ StoreFinish \/ ReceiveAnswer \/ ClickFinish
           \/ CancelFinish \/ TimerTick \/ GraceOver
           \/ (\E s \in Statuses : ChangeStatus(s)) \/ UNCHANGED vars
  <2>1. UNCHANGED <<at, srv, ans, file, abandoned>>
    BY <1>1, ZenonT(60) DEF Start, Connect, Drop, Login, Beat, StoreFinish, ReceiveAnswer, ClickFinish, CancelFinish,
       TimerTick, GraceOver, ChangeStatus, srvVars, histVars, vars
  <2> QED BY <2>1, Zenon DEF Untouched, Fresh, Waited, Opened, Active
<1>2. CASE Exit
  <2> USE DEF Untouched, Fresh, Waited, Opened, Active
  <2> at \in [Uploads -> ThreadStates]
    BY DEF TypeOK
  <2>1. UNCHANGED <<srv, ans, file>> /\ at' = [u \in Uploads |-> IF at[u] = "unused" THEN "unused" ELSE "over"]
    BY <1>2, Zenon DEF Exit, srvVars
  <2>2. abandoned' = (abandoned \/ \E u \in Uploads : at[u] = "sent")
    BY <1>2, Zenon DEF Exit
  <2>3. Fresh' /\ Opened'
    BY <2>1
  <2>4. CASE abandoned'
    BY <2>3, <2>4 DEF Waited
  <2>5. CASE ~abandoned'
    <3>1. ~abandoned /\ \A u \in Uploads : at[u] # "sent"
      BY <2>2, <2>5, Zenon
    <3> QED BY <2>1, <2>3, <2>5, <3>1
  <2> QED BY <2>4, <2>5
<1>3. CASE RestartBackend
  BY <1>3 DEF RestartBackend, Untouched, Fresh, Waited, Opened, Active, TypeOK
<1>4. CASE \E u \in Uploads : ReceiveEnd(u) \/ ConfirmFinish(u) \/ Thread(u) \/ Serve(u)
  BY <1>4, UntouchedThread, UntouchedServe, Zenon
<1> QED
  BY <1>1, <1>2, <1>3, <1>4, ZenonT(60) DEF Next, LogOff, ExitBoxOk, SuccessOk

LEMMA UntouchedInvariant == Spec => []Untouched
<1>1. Init => Untouched
  BY DEF Init, Untouched, Fresh, Waited, Opened, Active
<1> QED BY <1>1, UntouchedStep, FlightInvariant, TypeCorrect, PTL DEF Spec

\* Only a handler at its last steps changes the file.
LEMMA FileStep ==
    ASSUME [Next]_vars, file' # file
    PROVE  \E u \in Uploads : srv[u] \in {"clear", "created"}
<1>1. ASSUME NEW u \in Uploads, Serve(u) PROVE srv[u] \in {"clear", "created"}
  BY <1>1 DEF Serve, CheckTiming, CheckDir, Create, CreateFails, Copy, CopyFails, Handler
<1>2. ASSUME NEW u \in Uploads, ReceiveEnd(u) \/ ConfirmFinish(u) \/ Thread(u) PROVE FALSE
  BY <1>2, ZenonT(60) DEF ReceiveEnd, ConfirmFinish, Thread, Begin, Take, Zip, ZipFails, Post, PostFails, Success, Refused, Lost, Fail, srvVars
<1>3. CASE Start \/ Exit \/ Connect \/ Drop \/ Login \/ Beat \/ StoreFinish \/ ReceiveAnswer \/ ClickFinish
           \/ CancelFinish \/ TimerTick \/ GraceOver \/ RestartBackend
           \/ (\E s \in Statuses : ChangeStatus(s)) \/ UNCHANGED vars
  BY <1>3, ZenonT(60) DEF Start, Exit, Connect, Drop, Login, Beat, StoreFinish, ReceiveAnswer, ClickFinish, CancelFinish,
     TimerTick, GraceOver, RestartBackend, ChangeStatus, srvVars, vars
<1> QED
  BY <1>1, <1>2, <1>3, ZenonT(60) DEF Next, LogOff, ExitBoxOk, SuccessOk

\* Though the look into the directory and the creation of the file are two steps, as
\* long as the application has not given up an answer, a stored work stays as it is.
THEOREM StoredStays == Spec => KeptUntouched
<1>1. TypeOK /\ Untouched /\ [Next]_vars => ((file \in Uploads /\ file' # file) => abandoned)
  <2> SUFFICES ASSUME Untouched, [Next]_vars, file \in Uploads, file' # file, ~abandoned PROVE FALSE
    OBVIOUS
  <2>1. PICK u \in Uploads : srv[u] \in {"clear", "created"}
    BY FileStep
  <2>2. file \in {"none", "part"}
    BY <2>1 DEF Untouched, Waited
  <2> QED BY <2>2, UploadsAssumption
<1> QED BY <1>1, UntouchedInvariant, TypeCorrect, PTL DEF Spec, KeptUntouched

-----------------------------------------------------------------------------
(* The refinement.                                                         *)

\* What one step does to the file, the archives stored, what is told and given up.
LEMMA SubmitStep ==
    ASSUME TypeOK, Flight, Honest, Untouched, [Next]_vars
    PROVE  Submit!Next \/ UNCHANGED <<file, kept, told, abandoned>>
<1> DEFINE Same == UNCHANGED <<file, kept, told, abandoned>>
<1> USE DEF Submit!Next, Submit!GiveUp
<1>1. CASE Start \/ Connect \/ Drop \/ Login \/ Beat \/ StoreFinish \/ ReceiveAnswer \/ ClickFinish
           \/ CancelFinish \/ TimerTick \/ GraceOver \/ RestartBackend
           \/ (\E s \in Statuses : ChangeStatus(s)) \/ UNCHANGED vars
  BY <1>1, ZenonT(60) DEF Start, Connect, Drop, Login, Beat, StoreFinish, ReceiveAnswer, ClickFinish, CancelFinish,
     TimerTick, GraceOver, RestartBackend, ChangeStatus, srvVars, histVars, vars
<1>2. CASE Exit
  <2>1. UNCHANGED <<file, kept, told>>
    BY <1>2, Zenon DEF Exit, srvVars
  <2>2. abandoned' = (abandoned \/ \E u \in Uploads : at[u] = "sent")
    BY <1>2, Zenon DEF Exit
  <2>3. CASE abandoned \/ \E u \in Uploads : at[u] = "sent"
    <3>1. abandoned' = TRUE
      BY <2>2, <2>3, Zenon
    <3> QED BY <2>1, <3>1, Zenon
  <2>4. CASE ~(abandoned \/ \E u \in Uploads : at[u] = "sent")
    <3>1. abandoned' = FALSE /\ abandoned = FALSE
      BY <2>2, <2>4, Zenon DEF TypeOK
    <3> QED BY <2>1, <3>1, Zenon
  <2> QED BY <2>3, <2>4
<1>3. ASSUME NEW u \in Uploads, ReceiveEnd(u) \/ ConfirmFinish(u) PROVE Same
  BY <1>3, Zenon DEF ReceiveEnd, ConfirmFinish, srvVars
<1>4. ASSUME NEW u \in Uploads, Thread(u) PROVE Submit!Next \/ Same
  <2>1. CASE Success(u)
    <3>1. u \in kept /\ (file = u \/ abandoned)
      BY <2>1 DEF Success, Honest, Untouched, Waited
    <3>2. told' = told \cup {u} /\ UNCHANGED <<file, kept, abandoned>>
      BY <2>1, Zenon DEF Success, srvVars
    <3>3. Submit!Confirm(u)
      BY <3>1, <3>2, Zenon DEF Submit!Confirm
    <3> QED BY <3>3, Zenon
  <2>2. CASE Lost(u)
    BY <2>2, Zenon DEF Lost, Fail, srvVars
  <2>3. CASE Begin(u) \/ Zip(u) \/ ZipFails(u) \/ Post(u) \/ PostFails(u) \/ Refused(u)
    BY <2>3, ZenonT(60) DEF Begin, Take, Zip, ZipFails, Post, PostFails, Refused, Fail, srvVars, histVars
  <2> QED BY <1>4, <2>1, <2>2, <2>3 DEF Thread
<1>5. ASSUME NEW u \in Uploads, Serve(u) PROVE Submit!Next \/ Same
  <2>1. UNCHANGED <<told, abandoned>>
    BY <1>5, Zenon DEF Serve, CheckTiming, CheckDir, Create, CreateFails, Copy, CopyFails, histVars
  <2>2. CASE CheckTiming(u) \/ CheckDir(u) \/ CreateFails(u)
    BY <2>2, Zenon DEF CheckTiming, CheckDir, CreateFails, histVars
  <2>3. CASE Create(u)
    <3>1. srv[u] = "clear" /\ kept' = kept /\ file' \in {"part", "mixed"}
          /\ (file' = "mixed" => \E v \in Uploads : srv[v] = "created")
      BY <2>3 DEF Create, Handler
    <3>2. CASE ~abandoned
      <4>1. file = "none"
        BY <3>1, <3>2 DEF Untouched, Waited
      <4>2. file' = "part"
        BY <3>1, <3>2, <4>1 DEF Untouched, Waited
      <4> QED BY <2>1, <3>1, <4>1, <4>2, Zenon DEF Submit!Open
    <3>3. CASE abandoned /\ file # "none"
      BY <2>1, <3>1, <3>3 DEF Submit!Clash
    <3>4. CASE file = "none" /\ file' = "part"
      BY <2>1, <3>1, <3>4, Zenon DEF Submit!Open
    <3>5. CASE file = "none" /\ file' = "mixed"
      BY <3>1, <3>5 DEF Untouched, Opened
    <3> QED BY <3>1, <3>2, <3>3, <3>4, <3>5
  <2>4. CASE Copy(u)
    <3>1. srv[u] = "created" /\ kept' = kept \cup {u}
          /\ file' \in (IF file = "part" THEN {u} ELSE {u, "mixed"})
      BY <2>4 DEF Copy, Handler
    <3>2. CASE file = "part"
      <4>1. file' = u
        BY <3>1, <3>2
      <4> QED BY <2>1, <3>1, <3>2, <4>1, Zenon DEF Submit!Store
    <3>3. CASE file # "part"
      <4>1. abandoned /\ file # "none"
        BY <3>1, <3>3 DEF Untouched, Waited, Opened
      <4>2. file' \in {"mixed", u} /\ file' # "part"
        BY <3>1, <3>3, UploadsAssumption
      <4> QED BY <2>1, <3>1, <4>1, <4>2 DEF Submit!Clash
    <3> QED BY <3>2, <3>3
  <2>5. CASE CopyFails(u)
    <3>1. srv[u] = "created" /\ kept' = kept
          /\ (file' = file \/ (file # "part" /\ file' = "mixed"))
      BY <2>5 DEF CopyFails, Handler
    <3>2. CASE file' = file
      BY <2>1, <3>1, <3>2, Zenon
    <3>3. CASE file # "part" /\ file' = "mixed"
      <4>1. abandoned /\ file # "none"
        BY <3>1, <3>3 DEF Untouched, Waited, Opened
      <4> QED BY <2>1, <3>1, <3>3, <4>1 DEF Submit!Clash
    <3> QED BY <3>1, <3>2, <3>3
  <2> QED BY <1>5, <2>2, <2>3, <2>4, <2>5 DEF Serve
<1>6. CASE \E u \in Uploads : ReceiveEnd(u) \/ ConfirmFinish(u) \/ Thread(u) \/ Serve(u)
  BY <1>6, <1>3, <1>4, <1>5, Zenon
<1> QED
  BY <1>1, <1>2, <1>6, ZenonT(60) DEF Next, LogOff, ExitBoxOk, SuccessOk

\* WorkUpload implements Submission: what the student is told of is stored and in the
\* directory, and only a request that is served after its answer was given up can change
\* that.
THEOREM ImplementsSubmission == Spec => SubmitSpec
<1>1. Init => Submit!Init
  BY DEF Init, Submit!Init
<1>2. TypeOK /\ Flight /\ Honest /\ Untouched /\ [Next]_vars => [Submit!Next]_(Submit!vars)
  BY SubmitStep, Zenon DEF Submit!vars
<1> QED
  BY <1>1, <1>2, TypeCorrect, FlightInvariant, HonestInvariant, UntouchedInvariant, PTL
  DEF Spec, SubmitSpec, Submit!Spec
=============================================================================
