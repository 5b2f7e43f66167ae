---------------------------- MODULE RunLifecycle ----------------------------
(***************************************************************************)
(* The backend's requests about exams, runs and registered students.       *)
(*                                                                         *)
(* A handler is a goroutine that issues one SQL statement after the other, *)
(* without a transaction, so that the statements of two handlers and of    *)
(* the expiration checker mix in any order.  A statement may fail (the     *)
(* database is busy); most handlers do not look at that.  Foreign keys are *)
(* declared but not enforced: SQLite checks them only on request.          *)
(***************************************************************************)
EXTENDS Integers

CONSTANTS
    Exams, Runs, Students,  \* ids, drawn by genID and never drawn twice
    Names,                  \* names students register under
    Handlers,               \* requests served at one time
    Kinds,                  \* the kinds of requests that each handler is sent
    MaxAge,                 \* bound: durations, and the time since a run was started
    MaxFailures             \* bound: statements that fail, and ends of the backend

AllKinds == {"create_run", "register", "status", "edit", "delete_exam", "delete_run", "event", "upload"}

ASSUME KindsAssumption == Kinds \in [Handlers -> SUBSET AllKinds]
ASSUME BoundsAssumption == MaxAge \in Nat /\ MaxFailures \in Nat

VARIABLES
    \* the tables
    exams,      \* exam id -> exam_duration of its settings, 0: none
    runs,       \* run id -> exam, status, and time since started_at (-1: NULL)
    students,   \* rows of registered_students
    events,     \* of events, the student and the run
    files,      \* exams with a directory of files
    \* the program
    request,    \* what each handler is at
    expired,    \* the checker's list, or Asleep
    \* history and bounds
    dropped,    \* runs whose rows a request has begun to delete, with those of a deleted exam
    mixed,      \* runs and exams that were deleted and inserted into at one time, or whose
                \* deletion had a statement that failed
    answers,    \* registrations answered with an id
    failures

tables == <<exams, runs, students, events, files>>
marks == <<dropped, mixed>>
vars == <<tables, request, expired, marks, answers, failures>>

-----------------------------------------------------------------------------
Statuses == {"pending", "running", "finished"}
Run == [exam : Exams, status : Statuses, age : -1 .. MaxAge]
Registration == [id : Students, run : Runs, name : Names]

\* A request: its kind, the statement it has come to, and what it is about.
Idle == [kind |-> "none", step |-> "none", about |-> "none"]
Asleep == [runs |-> {}, awake |-> FALSE]

Abouts(kind) ==
    CASE kind \in {"create_run", "delete_exam"} -> Exams
      [] kind = "edit" -> [exam : Exams, duration : 0 .. MaxAge]
      [] kind = "register" -> [run : Runs, name : Names]
      [] kind = "status" -> [run : Runs, status : Statuses]
      [] kind = "delete_run" -> Runs
      [] kind = "event" -> [run : Runs, student : Students]

Steps(kind) ==
    CASE kind = "create_run" -> {"exists", "insert"}
      [] kind = "edit" -> {"exists", "running", "update"}
      [] kind = "register" -> {"exists", "existing", "insert"}
      [] kind = "status" -> {"exists", "update"}
      [] kind = "delete_exam" -> {"exists", "events", "students", "runs", "exam", "files", "reply"}
      [] kind = "delete_run" -> {"exists", "events", "students", "runs"}
      [] kind = "event" -> {"exists", "insert"}

Partial(S, T) == UNION {[D -> T] : D \in SUBSET S}

TypeOK ==
    /\ exams \in Partial(Exams, 0 .. MaxAge)
    /\ runs \in Partial(Runs, Run)
    /\ students \subseteq Registration
    /\ events \subseteq [student : Students, run : Runs]
    /\ files \subseteq Exams
    /\ DOMAIN request = Handlers
    /\ \A h \in Handlers :
        \/ request[h] = Idle
        \/ /\ request[h].kind \in AllKinds \ {"upload"}
           /\ request[h].step \in Steps(request[h].kind)
           /\ request[h].about \in Abouts(request[h].kind)
    /\ expired.runs \subseteq Runs /\ expired.awake \in BOOLEAN
    /\ dropped \subseteq Runs /\ mixed \subseteq Runs \cup Exams
    /\ answers \subseteq Registration
    /\ failures \in 0 .. MaxFailures

Init ==
    /\ exams \in [Exams -> 0 .. MaxAge]
    /\ runs = [r \in {} |-> [exam |-> CHOOSE e \in Exams : TRUE, status |-> "pending", age |-> -1]]
    /\ students = {} /\ events = {} /\ files = {}
    /\ request = [h \in Handlers |-> Idle]
    /\ expired = Asleep
    /\ dropped = {} /\ mixed = {} /\ answers = {} /\ failures = 0

-----------------------------------------------------------------------------
At(h, kind, step) == request[h].kind = kind /\ request[h].step = step
Go(h, step) == request' = [request EXCEPT ![h].step = step]
Done(h) == request' = [request EXCEPT ![h] = Idle]

Arrive(h, kind, about) ==
    /\ request[h] = Idle
    /\ request' = [request EXCEPT ![h] = [kind |-> kind, step |-> "exists", about |-> about]]
    /\ UNCHANGED <<tables, expired, marks, answers, failures>>

Fails == failures < MaxFailures /\ failures' = failures + 1
Works == UNCHANGED failures

\* The row a request is about.
Exists(h) ==
    LET about == request[h].about
    IN  CASE request[h].kind \in {"create_run", "delete_exam"} -> about \in DOMAIN exams
          [] request[h].kind = "edit" -> about.exam \in DOMAIN exams
          [] request[h].kind \in {"register", "status"} -> about.run \in DOMAIN runs
          [] request[h].kind = "delete_run" -> about \in DOMAIN runs
          [] request[h].kind = "event" -> about.run \in DOMAIN runs /\ runs[about.run].status = "running"

\* Mutant: a deletion leaves the events.
SecondWithoutEvents(kind) ==
    CASE kind \in {"create_run", "event"} -> "insert"
      [] kind = "edit" -> "running"
      [] kind = "register" -> "existing"
      [] kind = "status" -> "update"
      [] kind \in {"delete_exam", "delete_run"} -> "students"

Second(kind) ==
    CASE kind \in {"create_run", "event"} -> "insert"
      [] kind = "edit" -> "running"
      [] kind = "register" -> "existing"
      [] kind = "status" -> "update"
      [] kind \in {"delete_exam", "delete_run"} -> "events"

RunsOf(e) == {r \in DOMAIN runs : runs[r].exam = e}

\* The runs whose rows a deletion is going to take.
Taken(h) ==
    CASE request[h].kind = "delete_run" -> {request[h].about}
      [] request[h].kind = "delete_exam" -> RunsOf(request[h].about)
      [] OTHER -> {}

\* The runs and the exam that a request adds rows to or deletes rows of.
Touched(h) ==
    CASE request[h].kind \in {"register", "event"} -> {request[h].about.run}
      [] request[h].kind \in {"create_run", "delete_run"} -> {request[h].about}
      [] request[h].kind = "delete_exam" -> {request[h].about} \cup RunsOf(request[h].about)
      [] OTHER -> {}

Deleting(h) == request[h].kind \in {"delete_exam", "delete_run"}

\* Of these, what a request that is past its first query deletes while h inserts, or
\* the other way round.
Meets(h) ==
    {x \in Touched(h) : \E g \in Handlers :
        request[g].step # "exists" /\ x \in Touched(g) /\ Deleting(g) # Deleting(h)}

\* The first query of every handler; when it fails, the row is taken for missing.
Check(h) ==
    /\ request[h].step = "exists"
    /\ \/ /\ Exists(h) /\ Works
          /\ Go(h, Second(request[h].kind))
          /\ dropped' = dropped \cup Taken(h)
          /\ mixed' = mixed \cup Meets(h)
       \/ /\ (~Exists(h) /\ Works) \/ (Exists(h) /\ Fails)
          /\ Done(h)
          /\ UNCHANGED marks
    /\ UNCHANGED <<tables, expired, answers>>

-----------------------------------------------------------------------------
(* handleCreateExamRun, handleUpdateRunStatus, handleUpdateExam.           *)

InsertRun(h) ==
    /\ At(h, "create_run", "insert")
    /\ \/ /\ Works
          /\ \E r \in Runs \ (DOMAIN runs \cup dropped) :
                runs' = [k \in DOMAIN runs \cup {r} |->
                            IF k = r THEN [exam |-> request[h].about, status |-> "pending", age |-> -1]
                                     ELSE runs[k]]
       \/ Fails /\ UNCHANGED runs
    /\ Done(h)
    /\ UNCHANGED <<exams, students, events, files, expired, marks, answers>>

\* A run that is started has started_at set anew.
Updated(run, status) ==
    [run EXCEPT !.status = status, !.age = IF status = "running" THEN 0 ELSE run.age]

\* An UPDATE of a row that has gone changes nothing.
WithStatus(r, status) ==
    IF r \notin DOMAIN runs THEN runs ELSE [runs EXCEPT ![r] = Updated(runs[r], status)]

UpdateStatus(h) ==
    /\ At(h, "status", "update")
    /\ \/ Works /\ runs' = WithStatus(request[h].about.run, request[h].about.status)
       \/ Fails /\ UNCHANGED runs
    /\ Done(h)
    /\ UNCHANGED <<exams, students, events, files, expired, marks, answers>>

\* A query that fails leaves hasRunning false.
CheckRunning(h) ==
    /\ At(h, "edit", "running")
    /\ LET hasRunning == \E r \in RunsOf(request[h].about.exam) : runs[r].status = "running"
       IN  \/ hasRunning /\ Works /\ Done(h)
           \/ ~hasRunning /\ Works /\ Go(h, "update")
           \/ hasRunning /\ Fails /\ Go(h, "update")
    /\ UNCHANGED <<tables, expired, marks, answers>>

UpdateExam(h) ==
    /\ At(h, "edit", "update")
    /\ LET about == request[h].about
       IN  \/ /\ Works
              /\ exams' = IF about.exam \in DOMAIN exams THEN [exams EXCEPT ![about.exam] = about.duration]
                                                         ELSE exams
           \/ Fails /\ UNCHANGED exams
    /\ Done(h)
    /\ UNCHANGED <<runs, students, events, files, expired, marks, answers>>

-----------------------------------------------------------------------------
(* handleRegisterStudent and the insertion of wsEvent.                     *)

Registered(run, name) == {s \in students : s.run = run /\ s.name = name}

\* A query that fails goes on as if there were no such student.
FindExisting(h) ==
    /\ At(h, "register", "existing")
    /\ LET rows == Registered(request[h].about.run, request[h].about.name)
       IN  \/ rows # {} /\ Works /\ Done(h) /\ answers' = answers \cup rows
           \/ rows = {} /\ Works /\ Go(h, "insert") /\ UNCHANGED answers
           \/ rows # {} /\ Fails /\ Go(h, "insert") /\ UNCHANGED answers
    /\ UNCHANGED <<tables, expired, marks>>

\* Mutant: run and name need not be unique.
MayInsertAlways(h) == TRUE

\* UNIQUE(run_id, name).
MayInsert(h) == Registered(request[h].about.run, request[h].about.name) = {}

InsertStudent(h) ==
    /\ At(h, "register", "insert")
    /\ \/ /\ MayInsert(h) /\ Works
          /\ \E i \in Students \ ({s.id : s \in students} \cup {a.id : a \in answers}) :
                LET row == [id |-> i, run |-> request[h].about.run, name |-> request[h].about.name]
                IN  students' = students \cup {row} /\ answers' = answers \cup {row}
       \/ ~MayInsert(h) /\ Works /\ UNCHANGED <<students, answers>>
       \/ Fails /\ UNCHANGED <<students, answers>>
    /\ Done(h)
    /\ UNCHANGED <<exams, runs, events, files, expired, marks>>

\* An event of a student who is logged in.
InsertEvent(h) ==
    /\ At(h, "event", "insert")
    /\ \/ Works /\ events' = events \cup {request[h].about}
       \/ Fails /\ UNCHANGED events
    /\ Done(h)
    /\ UNCHANGED <<exams, runs, students, files, expired, marks, answers>>

-----------------------------------------------------------------------------
(* handleDeleteExam, handleDeleteExamRun.  The runs of an exam are looked  *)
(* up anew by every statement.                                             *)

Scope(h) == IF request[h].kind = "delete_run" THEN {request[h].about} ELSE RunsOf(request[h].about)

DeleteEvents(h) ==
    /\ Deleting(h) /\ request[h].step = "events"
    /\ \/ Works /\ events' = {v \in events : v.run \notin Scope(h)} /\ UNCHANGED mixed
       \/ Fails /\ UNCHANGED events /\ mixed' = mixed \cup Touched(h)
    /\ Go(h, "students")
    /\ dropped' = dropped \cup Taken(h)
    /\ UNCHANGED <<exams, runs, students, files, expired, answers>>

DeleteStudents(h) ==
    /\ Deleting(h) /\ request[h].step = "students"
    /\ \/ Works /\ students' = {s \in students : s.run \notin Scope(h)} /\ UNCHANGED mixed
       \/ Fails /\ UNCHANGED students /\ mixed' = mixed \cup Touched(h)
    /\ Go(h, "runs")
    /\ dropped' = dropped \cup Taken(h)
    /\ UNCHANGED <<exams, runs, events, files, expired, answers>>

\* Mutant: the exam of a deleted run goes, too.
AfterRunsExam(h) == Go(h, "exam")

AfterRuns(h) == IF request[h].kind = "delete_exam" THEN Go(h, "exam") ELSE Done(h)

DeleteRuns(h) ==
    /\ Deleting(h) /\ request[h].step = "runs"
    /\ \/ Works /\ runs' = [r \in DOMAIN runs \ Scope(h) |-> runs[r]] /\ UNCHANGED mixed
       \/ Fails /\ UNCHANGED runs /\ mixed' = mixed \cup Touched(h)
    /\ AfterRuns(h)
    /\ dropped' = dropped \cup Taken(h)
    /\ UNCHANGED <<exams, students, events, files, expired, answers>>

DeleteExam(h) ==
    /\ At(h, "delete_exam", "exam")
    /\ \/ Works /\ exams' = [e \in DOMAIN exams \ {request[h].about} |-> exams[e]]
       \/ Fails /\ UNCHANGED exams
    /\ Go(h, "files")
    /\ UNCHANGED <<runs, students, events, files, expired, marks, answers>>

RemoveFiles(h) ==
    /\ At(h, "delete_exam", "files")
    /\ \/ Works /\ files' = files \ {request[h].about}
       \/ Fails /\ UNCHANGED files
    /\ Go(h, "reply")
    /\ UNCHANGED <<exams, runs, students, events, expired, marks, answers>>

\* "status": "deleted"
ReplyDeleted(h) ==
    /\ At(h, "delete_exam", "reply")
    /\ Done(h)
    /\ UNCHANGED <<tables, expired, marks, answers, failures>>

\* handleUploadExamFiles asks nobody whether the exam exists.
UploadFiles(h, e) ==
    /\ "upload" \in Kinds[h]
    /\ files' = files \cup {e}
    /\ UNCHANGED <<exams, runs, students, events, request, expired, marks, answers, failures>>

-----------------------------------------------------------------------------
(* StartExamExpirationChecker.                                             *)

Over(r) ==
    /\ r \in DOMAIN runs /\ runs[r].status = "running"
    /\ runs[r].exam \in DOMAIN exams
    /\ exams[runs[r].exam] > 0 /\ runs[r].age >= exams[runs[r].exam]

QueryExpired ==
    /\ expired = Asleep
    /\ \E r \in Runs : Over(r)
    /\ expired' = [runs |-> {r \in Runs : Over(r)}, awake |-> TRUE]
    /\ UNCHANGED <<tables, request, marks, answers, failures>>

\* Mutant: the statement names no run.
CloseNone(r) == UNCHANGED runs

Close(r) == runs' = WithStatus(r, "finished")

CloseExpired ==
    /\ expired.awake
    /\ \E r \in expired.runs :
        /\ \/ Works /\ Close(r)
           \/ Fails /\ UNCHANGED runs
        /\ expired' = [expired EXCEPT !.runs = @ \ {r}]
    /\ UNCHANGED <<exams, students, events, files, request, marks, answers>>

Sleep ==
    /\ expired.awake /\ expired.runs = {}
    /\ expired' = Asleep
    /\ UNCHANGED <<tables, request, marks, answers, failures>>

Tick ==
    /\ runs' = [r \in DOMAIN runs |->
                    IF runs[r].age \in 0 .. MaxAge - 1 THEN [runs[r] EXCEPT !.age = @ + 1] ELSE runs[r]]
    /\ UNCHANGED <<exams, students, events, files, request, expired, marks, answers, failures>>

\* Mutant: the table of the students is created anew at the start.
RestartAnew ==
    /\ Fails
    /\ request' = [h \in Handlers |-> Idle]
    /\ expired' = Asleep
    /\ students' = {}
    /\ UNCHANGED <<exams, runs, events, files, marks, answers>>

\* The backend ends and starts again: handlers and checker are gone, the tables stay.
Restart ==
    /\ Fails
    /\ request' = [h \in Handlers |-> Idle]
    /\ expired' = Asleep
    /\ UNCHANGED <<tables, marks, answers>>

-----------------------------------------------------------------------------
\* Only students who were given an id log in and send events.
Made(kind, about) == kind = "event" => \E a \in answers : a.id = about.student /\ a.run = about.run

Handle(h) ==
    \/ Check(h)
    \/ InsertRun(h) \/ UpdateStatus(h) \/ CheckRunning(h) \/ UpdateExam(h)
    \/ FindExisting(h) \/ InsertStudent(h) \/ InsertEvent(h)
    \/ DeleteEvents(h) \/ DeleteStudents(h) \/ DeleteRuns(h) \/ DeleteExam(h) \/ RemoveFiles(h)
    \/ ReplyDeleted(h)

Checker == QueryExpired \/ CloseExpired \/ Sleep

Next ==
    \/ \E h \in Handlers :
        \/ \E kind \in Kinds[h] \ {"upload"} : \E about \in Abouts(kind) : Made(kind, about) /\ Arrive(h, kind, about)
        \/ Handle(h)
        \/ \E e \in Exams : UploadFiles(h, e)
    \/ Checker \/ Tick \/ Restart

Spec == Init /\ [][Next]_vars

\* The checker's loop runs.
FairSpec == Spec /\ WF_vars(Checker)

-----------------------------------------------------------------------------
(* Properties.                                                             *)

\* However registrations of one name overlap, fail or are repeated, all that are
\* answered with an id are given the same one, as long as nobody deletes the run.
OneIdPerName ==
    \A a, b \in answers : (a.run = b.run /\ a.name = b.name /\ a.run \notin dropped) => a.id = b.id

\* A student who was given an id is registered until the run's deletion has begun: no
\* other request, failure or restart of the backend loses the row.
AnsweredIsKept == \A a \in answers : a.run \in dropped \/ a \in students

\* Foreign keys are not enforced, but children are deleted before their parents: wherever
\* the backend ends, and whatever requests were answered or cut off before, no student
\* and no event is left without its run and no run without its exam.  It takes a
\* statement that failed, or an insertion that had passed its check when the deletion
\* began or passed it before the deletion's end, to leave one.  (The files of an exam
\* are left out: their upload checks nothing.)
NoStrays ==
    /\ \A s \in students \cup events : s.run \in DOMAIN runs \cup mixed
    /\ \A r \in DOMAIN runs : runs[r].exam \in DOMAIN exams \cup mixed

\* A run over its time is closed, unless it is started or edited anew or deleted.
OverIsClosed == \A r \in Runs : Over(r) ~> ~Over(r)

-----------------------------------------------------------------------------
(* What a message, a comment or the form says, and what does not hold (README.md). *)

\* "cannot edit exam while a run is active"
EditOnlyIdle ==
    [][\A e \in DOMAIN exams \cap DOMAIN exams' :
        exams'[e] # exams[e] => \A r \in RunsOf(e) : runs[r].status # "running"]_vars

\* "deleted with all runs and files": when the answer is given, nothing is left.
DeletedWithAll ==
    [][\A h \in Handlers : ReplyDeleted(h) =>
        LET e == request[h].about IN e \notin DOMAIN exams /\ RunsOf(e) = {} /\ e \notin files]_vars

\* "deleted with all students and events": when the run's row is deleted, which is the
\* last statement before the answer, no row about it is left.
RunDeletedWithAll ==
    [][\A h \in Handlers : (request[h].kind = "delete_run" /\ DeleteRuns(h)) =>
        LET r == request[h].about
        IN  (\A s \in students' : s.run # r) /\ (\A v \in events' : v.run # r)]_vars

\* "auto-closed exam run (duration expired)": the run that is closed is over its time.
ClosesOnlyExpired ==
    [][CloseExpired =>
        \A r \in DOMAIN runs \cap DOMAIN runs' : runs'[r].status # runs[r].status => Over(r)]_vars

\* "duplicate registration should return same ID": a registration that finds no row, and
\* whose statements do not fail, is answered with an id.
DuplicateReturnsExisting ==
    [][\A h \in Handlers :
        (At(h, "register", "insert") /\ request'[h] = Idle /\ failures' = failures) => answers' # answers]_vars

\* "REFERENCES" in the tables: nothing is ever left without its parent.
NeverStray == \A s \in students \cup events : s.run \in DOMAIN runs
=============================================================================
