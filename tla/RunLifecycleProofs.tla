------------------------- MODULE RunLifecycleProofs -------------------------
(***************************************************************************)
(* Proofs about RunLifecycle: however the statements of any number of      *)
(* handlers mix and fail, a registration that was answered with an id is   *)
(* kept and stays unique, and rows are left without a parent only by a     *)
(* failed statement or an insertion that overlaps a deletion.              *)
(***************************************************************************)
EXTENDS RunLifecycle, TLAPS

-----------------------------------------------------------------------------
(* Type correctness.                                                       *)

TablesOK ==
    /\ exams \in Partial(Exams, 0 .. MaxAge)
    /\ runs \in Partial(Runs, Run)
    /\ students \subseteq Registration
    /\ events \subseteq [student : Students, run : Runs]
    /\ files \subseteq Exams
    /\ answers \subseteq Registration

RequestOK(q) ==
    \/ q = Idle
    \/ q.kind \in AllKinds \ {"upload"} /\ q.step \in Steps(q.kind) /\ q.about \in Abouts(q.kind)

RequestsOK == DOMAIN request = Handlers /\ \A h \in Handlers : RequestOK(request[h])

ProgramOK ==
    /\ expired.runs \subseteq Runs /\ expired.awake \in BOOLEAN
    /\ dropped \subseteq Runs /\ mixed \subseteq Runs \cup Exams
    /\ failures \in 0 .. MaxFailures

LEMMA Parts == /\ TypeOK <=> TablesOK /\ RequestsOK /\ ProgramOK
               /\ TypeOK' <=> TablesOK' /\ RequestsOK' /\ ProgramOK'
BY Zenon DEF TypeOK, TablesOK, RequestsOK, RequestOK, ProgramOK

\* A partial function is given by its domain and its values.
LEMMA PartialIs ==
    ASSUME NEW S, NEW T, NEW f
    PROVE  f \in Partial(S, T) <=>
               /\ f = [x \in DOMAIN f |-> f[x]]
               /\ DOMAIN f \subseteq S
               /\ \A x \in DOMAIN f : f[x] \in T
<1>1. f \in Partial(S, T) <=> \E D \in SUBSET S : f \in [D -> T] BY DEF Partial
<1> QED BY <1>1

LEMMA PartialSet ==
    ASSUME NEW S, NEW T, NEW f \in Partial(S, T), NEW a, NEW v \in T
    PROVE  [f EXCEPT ![a] = v] \in Partial(S, T)
<1>1. PICK D \in SUBSET S : f \in [D -> T] BY DEF Partial
<1>2. [f EXCEPT ![a] = v] \in [D -> T] BY <1>1
<1> QED BY <1>1, <1>2 DEF Partial

LEMMA PartialPart ==
    ASSUME NEW S, NEW T, NEW f \in Partial(S, T), NEW X
    PROVE  [x \in DOMAIN f \ X |-> f[x]] \in Partial(S, T)
<1>1. PICK D \in SUBSET S : f \in [D -> T] BY DEF Partial
<1>2. [x \in DOMAIN f \ X |-> f[x]] \in [D \ X -> T] BY <1>1
<1>3. D \ X \in SUBSET S BY <1>1
<1> QED BY <1>2, <1>3 DEF Partial

LEMMA PartialNone ==
    ASSUME NEW S, NEW T, NEW v
    PROVE  [x \in {} |-> v] \in Partial(S, T)
<1>1. [x \in {} |-> v] \in [{} -> T] OBVIOUS
<1> QED BY <1>1 DEF Partial

LEMMA RunsAre ==
    ASSUME TypeOK
    PROVE  /\ runs = [r \in DOMAIN runs |-> runs[r]]
           /\ DOMAIN runs \subseteq Runs
           /\ \A r \in DOMAIN runs : runs[r] \in Run
BY PartialIs, Zenon DEF TypeOK

LEMMA ExamsAre ==
    ASSUME TypeOK
    PROVE  /\ exams = [e \in DOMAIN exams |-> exams[e]]
           /\ DOMAIN exams \subseteq Exams
           /\ \A e \in DOMAIN exams : exams[e] \in 0 .. MaxAge
BY PartialIs, Zenon DEF TypeOK

\* What a request is about, by its kind.
LEMMA AboutIs ==
    ASSUME TypeOK, NEW h \in Handlers
    PROVE  /\ request[h].kind \in {"create_run", "delete_exam"} => request[h].about \in Exams
           /\ request[h].kind = "edit" => request[h].about \in [exam : Exams, duration : 0 .. MaxAge]
           /\ request[h].kind = "register" => request[h].about \in [run : Runs, name : Names]
           /\ request[h].kind = "status" => request[h].about \in [run : Runs, status : Statuses]
           /\ request[h].kind = "delete_run" => request[h].about \in Runs
           /\ request[h].kind = "event" => request[h].about \in [run : Runs, student : Students]
           /\ request[h].kind \in AllKinds \cup {"none"}
<1>1. RequestOK(request[h]) BY Parts DEF RequestsOK
<1>2. CASE request[h] = Idle BY <1>2 DEF Idle
<1>3. CASE request[h] # Idle BY <1>1, <1>3 DEF RequestOK, Abouts, AllKinds
<1> QED BY <1>2, <1>3

LEMMA TouchedTyped ==
    ASSUME TypeOK, NEW h \in Handlers
    PROVE  Touched(h) \subseteq Runs \cup Exams
<1>1. \A e : RunsOf(e) \subseteq Runs BY RunsAre DEF RunsOf
<1>2. CASE request[h].kind \in {"register", "event"} BY <1>2, AboutIs DEF Touched
<1>3. CASE request[h].kind \in {"create_run", "delete_run"} BY <1>3, AboutIs DEF Touched
<1>4. CASE request[h].kind = "delete_exam" BY <1>1, <1>4, AboutIs DEF Touched
<1> QED BY <1>2, <1>3, <1>4 DEF Touched

LEMMA WithStatusTyped ==
    ASSUME TypeOK, NEW r, NEW status \in Statuses
    PROVE  WithStatus(r, status) \in Partial(Runs, Run) /\ DOMAIN WithStatus(r, status) = DOMAIN runs
<1>1. CASE r \notin DOMAIN runs BY <1>1 DEF WithStatus, TypeOK
<1>2. CASE r \in DOMAIN runs
  <2>1. runs[r] \in Run BY <1>2, RunsAre
  <2> DEFINE new == Updated(runs[r], status)
  <2>2. new \in Run
    <3>1. (IF status = "running" THEN 0 ELSE runs[r].age) \in -1 .. MaxAge BY <2>1, BoundsAssumption DEF Run
    <3> QED BY <2>1, <3>1 DEF Run, Updated
  <2>3. WithStatus(r, status) = [runs EXCEPT ![r] = new] BY <1>2 DEF WithStatus
  <2> HIDE DEF new
  <2>4. [runs EXCEPT ![r] = new] = [k \in DOMAIN runs |-> IF k = r THEN new ELSE runs[k]] BY RunsAre
  <2> DEFINE g == [k \in DOMAIN runs |-> IF k = r THEN new ELSE runs[k]]
  <2>5. /\ g = [k \in DOMAIN g |-> g[k]] /\ DOMAIN g = DOMAIN runs
        /\ \A k \in DOMAIN g : g[k] \in Run
    BY <2>2, RunsAre
  <2>6. g \in Partial(Runs, Run) BY <2>5, PartialIs, RunsAre
  <2> QED BY <2>3, <2>4, <2>5, <2>6
<1> QED BY <1>1, <1>2

LEMMA GoTyped ==
    ASSUME RequestsOK, NEW h \in Handlers, NEW step, Go(h, step),
           request[h] # Idle, step \in Steps(request[h].kind)
    PROVE  RequestsOK'
<1>1. DOMAIN request' = Handlers BY DEF RequestsOK, Go
<1>2. ASSUME NEW g \in Handlers PROVE RequestOK(request'[g])
  <2>1. CASE g # h BY <2>1 DEF RequestsOK, Go
  <2>2. CASE g = h
    <3>1. request'[h] = [request[h] EXCEPT !.step = step] BY DEF RequestsOK, Go
    <3>2. RequestOK(request[h]) BY DEF RequestsOK
    <3>3. request'[h].kind = request[h].kind /\ request'[h].step = step /\ request'[h].about = request[h].about
      BY <3>1, <3>2
    <3> QED BY <2>2, <3>2, <3>3 DEF RequestOK
  <2> QED BY <2>1, <2>2
<1> QED BY <1>1, <1>2 DEF RequestsOK

LEMMA DoneTyped == ASSUME RequestsOK, NEW h \in Handlers, Done(h) PROVE RequestsOK'
BY DEF RequestsOK, RequestOK, Done

LEMMA TypeCheck == ASSUME TypeOK, NEW h \in Handlers, Check(h) PROVE TypeOK'
<1> USE Parts
<1>1. TablesOK' BY DEF Check, tables, TablesOK
<1>2. RequestOK(request[h]) BY DEF RequestsOK
<1>3. request[h] # Idle BY DEF Check, Idle
<1>4. Second(request[h].kind) \in Steps(request[h].kind)
  <2>1. request[h].kind \in AllKinds \ {"upload"} BY <1>2, <1>3 DEF RequestOK
  <2> QED BY <2>1 DEF AllKinds, Second, Steps
<1>5. RequestsOK' BY <1>3, <1>4, GoTyped, DoneTyped DEF Check
<1>6. Taken(h) \subseteq Runs /\ Meets(h) \subseteq Runs \cup Exams
  BY AboutIs, RunsAre, TouchedTyped DEF Taken, RunsOf, Meets
<1>7. ProgramOK' BY <1>6, BoundsAssumption DEF Check, ProgramOK, Fails, Works, marks
<1> QED BY <1>1, <1>5, <1>7

\* Handlers that write one row of exams or runs.
LEMMA TypeWrites ==
    ASSUME TypeOK, NEW h \in Handlers, InsertRun(h) \/ UpdateStatus(h) \/ UpdateExam(h)
    PROVE  TypeOK'
<1> USE Parts
<1>1. RequestsOK' BY DoneTyped DEF InsertRun, UpdateStatus, UpdateExam
<1>2. ProgramOK' BY BoundsAssumption DEF InsertRun, UpdateStatus, UpdateExam, ProgramOK, Fails, Works, marks
<1>3. UNCHANGED <<students, events, files, answers>> BY DEF InsertRun, UpdateStatus, UpdateExam
<1>4. exams' \in Partial(Exams, 0 .. MaxAge)
  <2>1. CASE UNCHANGED exams BY <2>1 DEF TypeOK
  <2>2. CASE UpdateExam(h) /\ exams' # exams
    <3> DEFINE about == request[h].about
    <3>1. about \in [exam : Exams, duration : 0 .. MaxAge] BY <2>2, AboutIs DEF UpdateExam, At
    <3>2. exams' = [exams EXCEPT ![about.exam] = about.duration] BY <2>2 DEF UpdateExam
    <3>3. about.duration \in 0 .. MaxAge BY <3>1
    <3> HIDE DEF about
    <3> QED BY <3>2, <3>3, PartialSet DEF TypeOK
  <2> QED BY <2>1, <2>2 DEF InsertRun, UpdateStatus, UpdateExam
<1>5. runs' \in Partial(Runs, Run)
  <2>1. CASE UNCHANGED runs BY <2>1 DEF TypeOK
  <2>2. CASE UpdateStatus(h) /\ runs' # runs
    <3>1. request[h].about \in [run : Runs, status : Statuses] BY <2>2, AboutIs DEF UpdateStatus, At
    <3> QED BY <2>2, <3>1, WithStatusTyped DEF UpdateStatus
  <2>3. CASE InsertRun(h) /\ runs' # runs
    <3> DEFINE new == [exam |-> request[h].about, status |-> "pending", age |-> -1]
    <3>1. new \in Run BY <2>3, AboutIs, BoundsAssumption DEF InsertRun, At, Run, Statuses
    <3>2. PICK r \in Runs : runs' = [k \in DOMAIN runs \cup {r} |-> IF k = r THEN new ELSE runs[k]]
      BY <2>3 DEF InsertRun
    <3> HIDE DEF new
    <3> QED BY <3>1, <3>2, RunsAre, PartialIs
  <2> QED BY <2>1, <2>2, <2>3 DEF InsertRun, UpdateStatus, UpdateExam
<1> QED BY <1>1, <1>2, <1>3, <1>4, <1>5 DEF TablesOK

LEMMA TypeCheckRunning == ASSUME TypeOK, NEW h \in Handlers, CheckRunning(h) PROVE TypeOK'
<1> USE Parts
<1>1. TablesOK' BY DEF CheckRunning, tables, TablesOK
<1>2. request[h] # Idle /\ "update" \in Steps(request[h].kind) BY DEF CheckRunning, At, Idle, Steps
<1>3. RequestsOK' BY <1>2, GoTyped, DoneTyped DEF CheckRunning
<1>4. ProgramOK' BY BoundsAssumption DEF CheckRunning, ProgramOK, Fails, Works, marks
<1> QED BY <1>1, <1>3, <1>4

\* Registrations and events.
LEMMA TypeRegister ==
    ASSUME TypeOK, NEW h \in Handlers, FindExisting(h) \/ InsertStudent(h) \/ InsertEvent(h)
    PROVE  TypeOK'
<1> USE Parts
<1>1. UNCHANGED <<exams, runs, files>> BY DEF FindExisting, InsertStudent, InsertEvent, tables
<1>2. ProgramOK' BY BoundsAssumption DEF FindExisting, InsertStudent, InsertEvent, ProgramOK, Fails, Works, marks
<1>3. RequestsOK'
  <2>1. CASE FindExisting(h)
    <3>1. request[h] # Idle /\ "insert" \in Steps(request[h].kind) BY <2>1 DEF FindExisting, At, Idle, Steps
    <3> QED BY <2>1, <3>1, GoTyped, DoneTyped DEF FindExisting
  <2> QED BY <2>1, DoneTyped DEF InsertStudent, InsertEvent
<1>4. students' \subseteq Registration /\ answers' \subseteq Registration /\ events' \subseteq [student : Students, run : Runs]
  <2>1. CASE FindExisting(h) BY <2>1 DEF FindExisting, Registered, tables, TablesOK
  <2>2. CASE InsertStudent(h)
    <3>1. request[h].about \in [run : Runs, name : Names] BY <2>2, AboutIs DEF InsertStudent, At
    <3>2. \A i \in Students : [id |-> i, run |-> request[h].about.run, name |-> request[h].about.name] \in Registration
      BY <3>1 DEF Registration
    <3> QED BY <2>2, <3>2 DEF InsertStudent, TablesOK
  <2>3. CASE InsertEvent(h)
    <3>1. request[h].about \in [student : Students, run : Runs] BY <2>3, AboutIs DEF InsertEvent, At
    <3> QED BY <2>3, <3>1 DEF InsertEvent, TablesOK
  <2> QED BY <2>1, <2>2, <2>3
<1> QED BY <1>1, <1>2, <1>3, <1>4 DEF TablesOK

\* Deletions.
LEMMA TypeDelete ==
    ASSUME TypeOK, NEW h \in Handlers,
           DeleteEvents(h) \/ DeleteStudents(h) \/ DeleteRuns(h) \/ DeleteExam(h) \/ RemoveFiles(h) \/ ReplyDeleted(h)
    PROVE  TypeOK'
<1> USE Parts
<1>1. Taken(h) \subseteq Runs BY AboutIs, RunsAre DEF Taken, RunsOf
<1>2. ProgramOK'
  BY <1>1, TouchedTyped, BoundsAssumption DEF DeleteEvents, DeleteStudents, DeleteRuns, DeleteExam, RemoveFiles, ReplyDeleted, ProgramOK,
       Fails, Works, marks
<1>3. RequestsOK'
  <2>1. CASE DeleteEvents(h)
    <3>1. request[h] # Idle /\ "students" \in Steps(request[h].kind) BY <2>1 DEF DeleteEvents, Deleting, Idle, Steps
    <3> QED BY <2>1, <3>1, GoTyped DEF DeleteEvents
  <2>2. CASE DeleteStudents(h)
    <3>1. request[h] # Idle /\ "runs" \in Steps(request[h].kind) BY <2>2 DEF DeleteStudents, Deleting, Idle, Steps
    <3> QED BY <2>2, <3>1, GoTyped DEF DeleteStudents
  <2>3. CASE DeleteRuns(h)
    <3>1. CASE request[h].kind = "delete_exam"
      <4>1. request[h] # Idle /\ "exam" \in Steps(request[h].kind) BY <3>1 DEF Idle, Steps
      <4> QED BY <2>3, <3>1, <4>1, GoTyped DEF DeleteRuns, AfterRuns
    <3>2. CASE request[h].kind # "delete_exam" BY <2>3, <3>2, DoneTyped DEF DeleteRuns, AfterRuns
    <3> QED BY <3>1, <3>2
  <2>4. CASE DeleteExam(h)
    <3>1. request[h] # Idle /\ "files" \in Steps(request[h].kind) BY <2>4 DEF DeleteExam, At, Idle, Steps
    <3> QED BY <2>4, <3>1, GoTyped DEF DeleteExam
  <2>5. CASE RemoveFiles(h)
    <3>1. request[h] # Idle /\ "reply" \in Steps(request[h].kind) BY <2>5 DEF RemoveFiles, At, Idle, Steps
    <3> QED BY <2>5, <3>1, GoTyped DEF RemoveFiles
  <2>6. CASE ReplyDeleted(h) BY <2>6, DoneTyped DEF ReplyDeleted
  <2> QED BY <2>1, <2>2, <2>3, <2>4, <2>5, <2>6
<1>4. runs' \in Partial(Runs, Run)
  <2>1. CASE UNCHANGED runs BY <2>1 DEF TypeOK
  <2>2. CASE runs' = [r \in DOMAIN runs \ Scope(h) |-> runs[r]] BY <2>2, RunsAre, PartialIs
  <2> QED BY <2>1, <2>2 DEF DeleteEvents, DeleteStudents, DeleteRuns, DeleteExam, RemoveFiles, ReplyDeleted, tables
<1>5. exams' \in Partial(Exams, 0 .. MaxAge)
  <2>1. CASE UNCHANGED exams BY <2>1 DEF TypeOK
  <2>2. CASE exams' = [e \in DOMAIN exams \ {request[h].about} |-> exams[e]]
    BY <2>2, PartialPart, Zenon DEF TypeOK
  <2> QED BY <2>1, <2>2 DEF DeleteEvents, DeleteStudents, DeleteRuns, DeleteExam, RemoveFiles, ReplyDeleted, tables
<1>6. students' \subseteq students /\ events' \subseteq events /\ files' \subseteq files /\ answers' = answers
  BY DEF DeleteEvents, DeleteStudents, DeleteRuns, DeleteExam, RemoveFiles, ReplyDeleted, tables
<1> QED BY <1>2, <1>3, <1>4, <1>5, <1>6 DEF TablesOK

LEMMA TypeArrive ==
    ASSUME TypeOK, NEW h \in Handlers, NEW kind \in Kinds[h] \ {"upload"}, NEW about \in Abouts(kind), Arrive(h, kind, about)
    PROVE  TypeOK'
<1> USE Parts
<1>1. "exists" \in Steps(kind) BY KindsAssumption DEF AllKinds, Steps
<1>2. kind \in AllKinds \ {"upload"} BY KindsAssumption
<1>3. RequestsOK' BY <1>1, <1>2 DEF Arrive, RequestsOK, RequestOK
<1> QED BY <1>3 DEF Arrive, tables, TablesOK, ProgramOK, marks

\* The checker, time, and the end of the backend.
LEMMA TypeRest ==
    ASSUME TypeOK, (\E h \in Handlers : \E e \in Exams : UploadFiles(h, e)) \/ Checker \/ Tick \/ Restart
    PROVE  TypeOK'
<1> USE Parts
<1>1. CASE \E h \in Handlers : \E e \in Exams : UploadFiles(h, e) BY <1>1 DEF UploadFiles, TablesOK, RequestsOK, ProgramOK, marks
<1>2. CASE QueryExpired \/ Sleep
  <2>1. expired'.runs \subseteq Runs
    <3>1. CASE QueryExpired BY <3>1 DEF QueryExpired
    <3>2. CASE Sleep BY <3>2 DEF Sleep, Asleep
    <3> QED BY <1>2, <3>1, <3>2
  <2>2. expired'.awake \in BOOLEAN
    <3>1. CASE QueryExpired
      <4>1. expired'.awake = TRUE BY <3>1 DEF QueryExpired
      <4> QED BY <4>1, Zenon
    <3>2. CASE Sleep BY <3>2 DEF Sleep, Asleep
    <3> QED BY <1>2, <3>1, <3>2
  <2>3. ProgramOK' BY <1>2, <2>1, <2>2 DEF QueryExpired, Sleep, ProgramOK, marks
  <2> QED BY <1>2, <2>3 DEF QueryExpired, Sleep, TablesOK, RequestsOK, tables
<1>3. CASE CloseExpired
  <2>1. PICK r \in expired.runs : /\ (Works /\ Close(r)) \/ (Fails /\ UNCHANGED runs)
                                  /\ expired' = [expired EXCEPT !.runs = @ \ {r}]
    BY <1>3 DEF CloseExpired
  <2>2. runs' \in Partial(Runs, Run) BY <2>1, WithStatusTyped DEF Close, Statuses, TypeOK
  <2>3. expired'.runs \subseteq Runs /\ expired'.awake \in BOOLEAN BY <2>1 DEF ProgramOK
  <2>4. ProgramOK' BY <1>3, <2>1, <2>3, BoundsAssumption DEF CloseExpired, ProgramOK, Fails, Works, marks
  <2> QED BY <1>3, <2>2, <2>4 DEF CloseExpired, TablesOK, RequestsOK
<1>4. CASE Tick
  <2> DEFINE older(r) == IF runs[r].age \in 0 .. MaxAge - 1 THEN [runs[r] EXCEPT !.age = @ + 1] ELSE runs[r]
  <2>1. \A r \in DOMAIN runs : older(r) \in Run BY RunsAre, BoundsAssumption DEF Run
  <2>2. runs' = [r \in DOMAIN runs |-> older(r)] BY <1>4 DEF Tick
  <2> HIDE DEF older
  <2>3. runs' \in Partial(Runs, Run) BY <2>1, <2>2, RunsAre, PartialIs
  <2> QED BY <1>4, <2>3 DEF Tick, TablesOK, RequestsOK, ProgramOK, marks
<1>5. CASE Restart
  <2>1. ProgramOK' BY <1>5, BoundsAssumption DEF Restart, Fails, Asleep, ProgramOK, marks
  <2>2. RequestsOK' BY <1>5 DEF Restart, RequestsOK, RequestOK
  <2> QED BY <1>5, <2>1, <2>2 DEF Restart, TablesOK, tables
<1> QED BY <1>1, <1>2, <1>3, <1>4, <1>5 DEF Checker

LEMMA TypeKept == TypeOK /\ [Next]_vars => TypeOK'
<1> SUFFICES ASSUME TypeOK, [Next]_vars PROVE TypeOK' OBVIOUS
<1>1. ASSUME NEW h \in Handlers, Handle(h) PROVE TypeOK'
  BY <1>1, TypeCheck, TypeWrites, TypeCheckRunning, TypeRegister, TypeDelete DEF Handle
<1>2. CASE UNCHANGED vars
  BY <1>2, Parts DEF vars, tables, TablesOK, RequestsOK, ProgramOK, marks
<1> QED BY <1>1, <1>2, TypeArrive, TypeRest DEF Next

\* Every table and every request keeps its type; a statement is one of those of its handler.
THEOREM TypeCorrect == Spec => []TypeOK
<1>1. Init => TypeOK
  <2> SUFFICES ASSUME Init PROVE TypeOK OBVIOUS
  <2>1. exams \in Partial(Exams, 0 .. MaxAge)
    <3>1. exams \in [Exams -> 0 .. MaxAge] /\ Exams \in SUBSET Exams BY DEF Init
    <3> QED BY <3>1, Zenon DEF Partial
  <2> DEFINE row == [exam |-> CHOOSE e \in Exams : TRUE, status |-> "pending", age |-> -1]
  <2>2. runs \in Partial(Runs, Run)
    <3>1. runs = [r \in {} |-> row] BY DEF Init
    <3> HIDE DEF row
    <3> QED BY <3>1, PartialNone
  <2>3. TablesOK BY <2>1, <2>2 DEF Init, TablesOK
  <2>4. RequestsOK BY DEF Init, RequestsOK, RequestOK
  <2>5. ProgramOK BY BoundsAssumption DEF Init, ProgramOK, Asleep
  <2> QED BY <2>3, <2>4, <2>5, Parts
<1> QED BY <1>1, TypeKept, PTL DEF Spec

-----------------------------------------------------------------------------
(* Safety.  AnsweredIsKept is inductive because a deletion is counted as   *)
(* begun, for the runs it takes, before or with the statement that takes   *)
(* them; that names are unique follows from the UNIQUE constraint alone,   *)
(* not from the query before the insertion.                                *)

UniqueNames == \A s, t \in students : (s.run = t.run /\ s.name = t.name) => s.id = t.id

LEMMA ScopeIsTaken == ASSUME NEW h, Deleting(h) PROVE Scope(h) = Taken(h)
BY DEF Deleting, Scope, Taken

LEMMA KeptStep == AnsweredIsKept /\ [Next]_vars => AnsweredIsKept'
<1> SUFFICES ASSUME AnsweredIsKept, [Next]_vars PROVE AnsweredIsKept' OBVIOUS
<1> USE DEF AnsweredIsKept, marks
<1>1. ASSUME NEW h \in Handlers, Handle(h) PROVE AnsweredIsKept'
  <2>1. CASE Check(h) BY <2>1 DEF Check, tables, marks
  <2>2. CASE InsertRun(h) \/ UpdateStatus(h) \/ CheckRunning(h) \/ UpdateExam(h)
    BY <2>2 DEF InsertRun, UpdateStatus, CheckRunning, UpdateExam, tables, marks
  <2>3. CASE FindExisting(h) BY <2>3 DEF FindExisting, Registered, tables, marks
  <2>4. CASE InsertStudent(h) BY <2>4 DEF InsertStudent, marks
  <2>5. CASE InsertEvent(h) BY <2>5 DEF InsertEvent, marks
  <2>6. CASE DeleteEvents(h) \/ DeleteRuns(h) BY <2>6 DEF DeleteEvents, DeleteRuns, marks
  <2>7. CASE DeleteStudents(h)
    <3>1. \A s \in students \ students' : s.run \in Scope(h) BY <2>7 DEF DeleteStudents, marks
    <3>2. \A s \in students \ students' : s.run \in dropped' BY <2>7, <3>1, ScopeIsTaken DEF DeleteStudents, marks
    <3> QED BY <2>7, <3>2 DEF DeleteStudents, marks
  <2>8. CASE DeleteExam(h) \/ RemoveFiles(h) \/ ReplyDeleted(h) BY <2>8 DEF DeleteExam, RemoveFiles, ReplyDeleted, tables, marks
  <2> QED BY <1>1, <2>1, <2>2, <2>3, <2>4, <2>5, <2>6, <2>7, <2>8 DEF Handle, marks
<1>2. CASE \E h \in Handlers : \E kind \in Kinds[h] \ {"upload"} : \E about \in Abouts(kind) :
                Made(kind, about) /\ Arrive(h, kind, about)
  BY <1>2 DEF Arrive, tables, marks
<1>3. CASE (\E h \in Handlers : \E e \in Exams : UploadFiles(h, e)) \/ Checker \/ Tick \/ Restart
  BY <1>3 DEF UploadFiles, Checker, QueryExpired, CloseExpired, Sleep, Tick, Restart, tables, marks
<1>4. CASE UNCHANGED vars BY <1>4 DEF vars, tables, marks
<1> QED BY <1>1, <1>2, <1>3, <1>4 DEF Next, marks

\* A student who was given an id is registered until the deletion of the run has begun,
\* whatever statements mix, fail or are cut off by the end of the backend.
THEOREM RegistrationKept == Spec => []AnsweredIsKept
<1>1. Init => AnsweredIsKept BY DEF Init, AnsweredIsKept
<1> QED BY <1>1, KeptStep, PTL DEF Spec

LEMMA UniqueStep == UniqueNames /\ [Next]_vars => UniqueNames'
<1> SUFFICES ASSUME UniqueNames, [Next]_vars PROVE UniqueNames' OBVIOUS
<1> USE DEF UniqueNames
<1>0. ASSUME students' \subseteq students PROVE UniqueNames' BY <1>0
<1>1. ASSUME NEW h \in Handlers, Handle(h) PROVE UniqueNames'
  <2>1. CASE ~InsertStudent(h)
    <3>1. students' \subseteq students
      BY <1>1, <2>1 DEF Handle, Check, InsertRun, UpdateStatus, CheckRunning, UpdateExam, FindExisting, InsertEvent,
           DeleteEvents, DeleteStudents, DeleteRuns, DeleteExam, RemoveFiles, ReplyDeleted, tables
    <3> QED BY <1>0, <3>1
  <2>2. CASE InsertStudent(h)
    <3>1. CASE UNCHANGED students BY <1>0, <3>1
    <3>2. CASE MayInsert(h) /\ \E i \in Students :
                  students' = students \cup {[id |-> i, run |-> request[h].about.run, name |-> request[h].about.name]}
      BY <3>2 DEF MayInsert, Registered
    <3> QED BY <2>2, <3>1, <3>2 DEF InsertStudent
  <2> QED BY <2>1, <2>2
<1>2. CASE ~(\E h \in Handlers : Handle(h))
  <2>1. UNCHANGED students
    BY <1>2 DEF Next, vars, Arrive, UploadFiles, Checker, QueryExpired, CloseExpired, Sleep, Tick, Restart, tables
  <2> QED BY <1>0, <2>1
<1> QED BY <1>1, <1>2

\* All registrations of one name in a run that are answered with an id get the same id.
THEOREM OneId == Spec => []OneIdPerName
<1>1. Init => UniqueNames BY DEF Init, UniqueNames
<1>2. UniqueNames /\ AnsweredIsKept => OneIdPerName BY DEF UniqueNames, AnsweredIsKept, OneIdPerName
<1> QED BY <1>1, <1>2, UniqueStep, RegistrationKept, PTL DEF Spec

-----------------------------------------------------------------------------
(* Rows without a parent.  A row is left behind when its parent is deleted *)
(* although rows were still to come or to go.  The invariant says that     *)
(* this is noticed: an insertion that has passed its query has its parent, *)
(* and meets a deletion only in a run or exam that is mixed; and what a    *)
(* statement of a deletion was to remove is gone once it is past, except   *)
(* in those that are mixed.                                                *)

Inserting(q) == q.kind \in {"register", "event"} /\ q.step # "exists"
Creating(q) == q.kind = "create_run" /\ q.step # "exists"

\* The deletion of a run, and of an exam, that is past its query.
Deletes(q, r) ==
    /\ q.step # "exists"
    /\ \/ q.kind = "delete_run" /\ q.about = r
       \/ q.kind = "delete_exam" /\ r \in RunsOf(q.about)
DeletesExam(q, e) == q.kind = "delete_exam" /\ q.step # "exists" /\ q.about = e

\* No run is ever made under an id that a student, an event or an insertion names.
Known ==
    /\ \A s \in students \cup events : s.run \in DOMAIN runs \cup dropped
    /\ \A h \in Handlers : Inserting(request[h]) => request[h].about.run \in DOMAIN runs \cup dropped

\* An insertion's parent is there, or it is mixed.
There ==
    \A h \in Handlers :
        /\ Inserting(request[h]) => request[h].about.run \in DOMAIN runs \cup mixed
        /\ Creating(request[h]) => request[h].about \in DOMAIN exams \cup mixed

\* Where an insertion and a deletion meet is mixed.
Met ==
    \A h, g \in Handlers :
        /\ Inserting(request[h]) /\ Deletes(request[g], request[h].about.run) => request[h].about.run \in mixed
        /\ Creating(request[h]) /\ DeletesExam(request[g], request[h].about) => request[h].about \in mixed

\* What the statements of a deletion that are past have removed.
Cleared ==
    \A g \in Handlers :
        /\ request[g].step \in {"students", "runs"} =>
                \A v \in events : Deletes(request[g], v.run) => v.run \in mixed
        /\ request[g].step = "runs" =>
                \A s \in students : Deletes(request[g], s.run) => s.run \in mixed
        /\ request[g].step = "exam" =>
                (RunsOf(request[g].about) # {} => request[g].about \in mixed)

StrayInv == Known /\ There /\ Met /\ Cleared /\ NoStrays

LEMMA Goes ==
    ASSUME RequestsOK, NEW h \in Handlers, NEW step, Go(h, step)
    PROVE  /\ request'[h].kind = request[h].kind /\ request'[h].about = request[h].about
           /\ request'[h].step = step
           /\ \A g \in Handlers \ {h} : request'[g] = request[g]
<1>1. \A g \in Handlers \ {h} : request'[g] = request[g] BY DEF RequestsOK, Go
<1>2. request'[h] = [request[h] EXCEPT !.step = step] BY DEF RequestsOK, Go
<1>3. RequestOK(request[h]) BY DEF RequestsOK
<1>4. request'[h].kind = request[h].kind /\ request'[h].step = step /\ request'[h].about = request[h].about
  BY <1>2, <1>3
<1> QED BY <1>1, <1>4

\* What a step may do to a request without inserting or deleting anything.
Calm(k) ==
    \/ request'[k] = request[k] \/ request'[k] = Idle \/ request'[k].step = "exists"
    \/ /\ request'[k].kind = request[k].kind /\ request'[k].about = request[k].about
       /\ request[k].step # "exists" /\ request'[k].step \notin {"students", "runs", "exam"}

LEMMA DoneCalm == ASSUME RequestsOK, NEW h \in Handlers, Done(h) PROVE \A k \in Handlers : Calm(k)
BY DEF RequestsOK, Done, Calm

LEMMA GoCalm ==
    ASSUME RequestsOK, NEW h \in Handlers, NEW step, Go(h, step),
           request[h].step # "exists", step \notin {"students", "runs", "exam"}
    PROVE  \A k \in Handlers : Calm(k)
BY Goes DEF Calm

\* What a request inserts or deletes after such a step it did before.
LEMMA CalmBefore ==
    ASSUME NEW k \in Handlers, Calm(k)
    PROVE  /\ Inserting(request'[k]) => Inserting(request[k]) /\ request'[k].about = request[k].about
           /\ Creating(request'[k]) => Creating(request[k]) /\ request'[k].about = request[k].about
           /\ \A e : DeletesExam(request'[k], e) => DeletesExam(request[k], e)
           /\ request'[k].kind \in {"delete_run", "delete_exam"} /\ request'[k].step # "exists" =>
                 /\ request'[k].kind = request[k].kind /\ request'[k].about = request[k].about
                 /\ request[k].step # "exists"
           /\ request'[k].step \in {"students", "runs", "exam"} => request'[k] = request[k]
BY DEF Calm, Inserting, Creating, DeletesExam, Idle

RunsOnlyGo ==
    DOMAIN runs' \subseteq DOMAIN runs /\ \A r \in DOMAIN runs' : runs'[r].exam = runs[r].exam

LEMMA FewerRuns ==
    ASSUME RunsOnlyGo
    PROVE  \A e : {r \in DOMAIN runs' : runs'[r].exam = e} \subseteq RunsOf(e)
BY DEF RunsOnlyGo, RunsOf

\* Steps that insert nothing and take no row with children.
LEMMA CalmStep ==
    ASSUME StrayInv, \A k \in Handlers : Calm(k),
           RunsOnlyGo, DOMAIN runs' = DOMAIN runs, DOMAIN exams' = DOMAIN exams,
           students' \subseteq students, events' \subseteq events,
           dropped \subseteq dropped', mixed \subseteq mixed'
    PROVE  StrayInv'
<1>1. Known' BY CalmBefore DEF StrayInv, Known
<1>2. There' BY CalmBefore DEF StrayInv, There
<1>3. ASSUME NEW g \in Handlers, NEW r, Deletes(request[g], r)' PROVE Deletes(request[g], r)
  BY <1>3, CalmBefore, FewerRuns DEF Deletes, RunsOf
<1>4. Met'
  <2>1. ASSUME NEW h \in Handlers, NEW g \in Handlers, Inserting(request'[h]), Deletes(request[g], request[h].about.run)'
        PROVE  request'[h].about.run \in mixed'
    <3>1. Inserting(request[h]) /\ request'[h].about = request[h].about BY <2>1, CalmBefore
    <3>2. Deletes(request[g], request'[h].about.run) BY <1>3, <2>1 DEF Deletes, RunsOf
    <3> QED BY <3>1, <3>2 DEF StrayInv, Met
  <2>2. ASSUME NEW h \in Handlers, NEW g \in Handlers, Creating(request'[h]), DeletesExam(request'[g], request'[h].about)
        PROVE  request'[h].about \in mixed'
    <3>1. Creating(request[h]) /\ request'[h].about = request[h].about BY <2>2, CalmBefore
    <3>2. DeletesExam(request[g], request[h].about) BY <2>2, <3>1, CalmBefore
    <3> QED BY <3>1, <3>2 DEF StrayInv, Met
  <2> QED BY <2>1, <2>2 DEF Met, Inserting, Creating, DeletesExam
<1>5. Cleared'
  <2> SUFFICES ASSUME NEW g \in Handlers, request'[g].step \in {"students", "runs", "exam"}
               PROVE  /\ request'[g].step \in {"students", "runs"} =>
                            \A v \in events' : Deletes(request[g], v.run)' => v.run \in mixed'
                      /\ request'[g].step = "runs" =>
                            \A s \in students' : Deletes(request[g], s.run)' => s.run \in mixed'
                      /\ request'[g].step = "exam" =>
                            (RunsOf(request[g].about)' # {} => request'[g].about \in mixed')
    BY DEF Cleared
  <2>1. request'[g] = request[g] BY CalmBefore
  <2>2. RunsOf(request[g].about)' \subseteq RunsOf(request[g].about) BY <2>1, FewerRuns DEF RunsOf
  <2> QED BY <1>3, <2>1, <2>2 DEF StrayInv, Cleared
<1>6. NoStrays' BY DEF StrayInv, NoStrays, RunsOnlyGo
<1> QED BY <1>1, <1>2, <1>4, <1>5, <1>6 DEF StrayInv

LEMMA SameRuns == ASSUME UNCHANGED runs PROVE RunsOnlyGo /\ DOMAIN runs' = DOMAIN runs
BY DEF RunsOnlyGo

\* The statements that change no key and insert nothing.
LEMMA StrayCalm ==
    ASSUME TypeOK, StrayInv, NEW h \in Handlers,
           \/ UpdateStatus(h) \/ CheckRunning(h) \/ UpdateExam(h) \/ FindExisting(h)
           \/ RemoveFiles(h) \/ ReplyDeleted(h)
    PROVE  StrayInv'
<1> USE Parts
<1>1. \A k \in Handlers : Calm(k)
  <2>1. CASE UpdateStatus(h) \/ UpdateExam(h) \/ ReplyDeleted(h)
    BY <2>1, DoneCalm DEF UpdateStatus, UpdateExam, ReplyDeleted
  <2>2. CASE CheckRunning(h) BY <2>2, DoneCalm, GoCalm DEF CheckRunning, At
  <2>3. CASE FindExisting(h) BY <2>3, DoneCalm, GoCalm DEF FindExisting, At
  <2>4. CASE RemoveFiles(h) BY <2>4, GoCalm DEF RemoveFiles, At
  <2> QED BY <2>1, <2>2, <2>3, <2>4
<1>2. RunsOnlyGo /\ DOMAIN runs' = DOMAIN runs
  <2>1. CASE UNCHANGED runs BY <2>1, SameRuns
  <2>2. CASE UpdateStatus(h) /\ runs' # runs
    <3> DEFINE run == request[h].about.run
    <3>1. run \in DOMAIN runs /\ runs' = [runs EXCEPT ![run] = Updated(runs[run], request[h].about.status)]
      BY <2>2 DEF UpdateStatus, WithStatus
    <3>2. runs[run] \in Run BY <3>1, RunsAre
    <3>3. Updated(runs[run], request[h].about.status).exam = runs[run].exam BY <3>2 DEF Updated, Run
    <3> HIDE DEF run
    <3> QED BY <3>1, <3>3, RunsAre DEF RunsOnlyGo
  <2> QED BY <2>1, <2>2 DEF UpdateStatus, CheckRunning, UpdateExam, FindExisting, RemoveFiles, ReplyDeleted, tables
<1>3. DOMAIN exams' = DOMAIN exams
  <2>1. CASE UNCHANGED exams BY <2>1
  <2>2. CASE UpdateExam(h) BY <2>2 DEF UpdateExam
  <2> QED BY <2>1, <2>2 DEF UpdateStatus, CheckRunning, FindExisting, RemoveFiles, ReplyDeleted, tables
<1>4. UNCHANGED <<students, events, dropped, mixed>>
  BY DEF UpdateStatus, CheckRunning, UpdateExam, FindExisting, RemoveFiles, ReplyDeleted, tables, marks
<1> QED BY <1>1, <1>2, <1>3, <1>4, CalmStep

\* A query passed: where the request meets another from now on is mixed.
LEMMA StrayCheck == ASSUME TypeOK, StrayInv, NEW h \in Handlers, Check(h) PROVE StrayInv'
<1> USE Parts
<1>0. UNCHANGED tables /\ dropped \subseteq dropped' /\ mixed \subseteq mixed' BY DEF Check, marks
<1>t. UNCHANGED <<exams, runs, students, events>> BY <1>0 DEF tables
<1>1. CASE Done(h)
  BY <1>0, <1>t, <1>1, DoneCalm, SameRuns, CalmStep
<1>2. CASE ~Done(h)
  <2>1. request'[h].kind = request[h].kind /\ request'[h].about = request[h].about
        /\ request'[h].step = Second(request[h].kind) /\ Exists(h) /\ mixed' = mixed \cup Meets(h)
        /\ \A g \in Handlers \ {h} : request'[g] = request[g]
    <3>1. Exists(h) /\ Go(h, Second(request[h].kind)) /\ mixed' = mixed \cup Meets(h) BY <1>2 DEF Check
    <3> QED BY <3>1, Goes
  <2>2. request[h].step = "exists" BY DEF Check
  <2>3. Known'
    <3>1. Inserting(request'[h]) => request'[h].about.run \in DOMAIN runs
      BY <2>1 DEF Inserting, Exists
    <3> QED BY <1>0, <1>t, <2>1, <3>1 DEF StrayInv, Known
  <2>4. There'
    <3>1. Inserting(request'[h]) => request'[h].about.run \in DOMAIN runs
      BY <2>1 DEF Inserting, Exists
    <3>2. Creating(request'[h]) => request'[h].about \in DOMAIN exams
      BY <2>1 DEF Creating, Exists
    <3> QED BY <1>0, <1>t, <2>1, <3>1, <3>2 DEF StrayInv, There
  <2>6. Met'
    <3>1. ASSUME NEW g \in Handlers \ {h}, Inserting(request'[h]), Deletes(request'[g], request'[h].about.run)
          PROVE  request'[h].about.run \in mixed'
      <4> DEFINE r == request[h].about.run
      <4>1. Deletes(request[g], r) /\ request[h].kind \in {"register", "event"} BY <2>1, <3>1 DEF Inserting
      <4>2. r \in Touched(g) /\ Deleting(g) /\ request[g].step # "exists"
        BY <4>1 DEF Deletes, Touched, Deleting
      <4>3. r \in Touched(h) /\ ~Deleting(h) BY <4>1 DEF Touched, Deleting
      <4>4. r \in Meets(h) BY <4>2, <4>3 DEF Meets
      <4> QED BY <2>1, <4>4
    <3>2. ASSUME NEW g \in Handlers \ {h}, Inserting(request'[g]), Deletes(request'[h], request'[g].about.run)
          PROVE  request'[g].about.run \in mixed'
      <4> DEFINE r == request[g].about.run
      <4>1. request[g].kind \in {"register", "event"} /\ request[g].step # "exists"
            /\ (\/ request[h].kind = "delete_run" /\ request[h].about = r
                \/ request[h].kind = "delete_exam" /\ r \in RunsOf(request[h].about))
        BY <2>1, <3>2 DEF Inserting, Deletes
      <4>2. r \in Touched(h) /\ Deleting(h) BY <4>1 DEF Touched, Deleting
      <4>3. r \in Touched(g) /\ ~Deleting(g) BY <4>1 DEF Touched, Deleting
      <4>4. r \in Meets(h) BY <4>1, <4>2, <4>3 DEF Meets
      <4> QED BY <2>1, <4>4
    <3>3. ASSUME NEW g \in Handlers \ {h}, Creating(request'[h]), DeletesExam(request'[g], request'[h].about)
          PROVE  request'[h].about \in mixed'
      <4> DEFINE e == request[h].about
      <4>1. request[g].kind = "delete_exam" /\ request[g].step # "exists" /\ request[g].about = e
            /\ request[h].kind = "create_run"
        BY <2>1, <3>3 DEF Creating, DeletesExam
      <4>2. e \in Touched(g) /\ Deleting(g) /\ e \in Touched(h) /\ ~Deleting(h) BY <4>1 DEF Touched, Deleting
      <4>3. e \in Meets(h) BY <4>1, <4>2 DEF Meets
      <4> QED BY <2>1, <4>3
    <3>4. ASSUME NEW g \in Handlers \ {h}, Creating(request'[g]), DeletesExam(request'[h], request'[g].about)
          PROVE  request'[g].about \in mixed'
      <4> DEFINE e == request[g].about
      <4>1. request[h].kind = "delete_exam" /\ request[h].about = e
            /\ request[g].kind = "create_run" /\ request[g].step # "exists"
        BY <2>1, <3>4 DEF Creating, DeletesExam
      <4>2. e \in Touched(g) /\ Deleting(h) /\ e \in Touched(h) /\ ~Deleting(g) BY <4>1 DEF Touched, Deleting
      <4>3. e \in Meets(h) BY <4>1, <4>2 DEF Meets
      <4> QED BY <2>1, <4>3
    <3>5. ~(Inserting(request'[h]) /\ Deletes(request'[h], request'[h].about.run))
          /\ ~(Creating(request'[h]) /\ DeletesExam(request'[h], request'[h].about))
      BY DEF Inserting, Creating, Deletes, DeletesExam
    <3>6. ASSUME NEW g \in Handlers, NEW k \in Handlers
          PROVE  /\ Inserting(request'[g]) /\ Deletes(request'[k], request'[g].about.run) => request'[g].about.run \in mixed'
                 /\ Creating(request'[g]) /\ DeletesExam(request'[k], request'[g].about) => request'[g].about \in mixed'
      <4>1. CASE g = h \/ k = h BY <3>1, <3>2, <3>3, <3>4, <3>5, <4>1
      <4>2. CASE g # h /\ k # h
        <5>1. request'[g] = request[g] /\ request'[k] = request[k] BY <2>1, <4>2
        <5> QED BY <1>0, <5>1 DEF StrayInv, Met
      <4> QED BY <4>1, <4>2
    <3> QED BY <1>t, <3>6 DEF Met, Deletes, RunsOf, Inserting, Creating, DeletesExam
  <2>7. Cleared'
    <3>1. request'[h].step \notin {"students", "runs", "exam"}
      <4>1. RequestOK(request[h]) /\ request[h] # Idle BY <2>2 DEF RequestsOK, Idle
      <4>2. request[h].kind \in AllKinds \ {"upload"} BY <4>1 DEF RequestOK
      <4> QED BY <2>1, <4>2 DEF Second, AllKinds
    <3> QED BY <1>0, <1>t, <2>1, <3>1 DEF StrayInv, Cleared, Deletes, RunsOf
  <2>8. NoStrays' BY <1>0, <1>t DEF StrayInv, NoStrays
  <2> QED BY <2>3, <2>4, <2>6, <2>7, <2>8 DEF StrayInv
<1> QED BY <1>1, <1>2

\* A run is made under an id that nothing names.
LEMMA StrayInsertRun == ASSUME TypeOK, StrayInv, NEW h \in Handlers, InsertRun(h) PROVE StrayInv'
<1> USE Parts
<1>1. \A k \in Handlers : Calm(k) BY DoneCalm DEF InsertRun
<1>2. UNCHANGED <<exams, students, events, dropped, mixed>> BY DEF InsertRun, marks
<1>3. CASE UNCHANGED runs BY <1>1, <1>2, <1>3, SameRuns, CalmStep
<1>4. CASE runs' # runs
  <2> DEFINE new == [exam |-> request[h].about, status |-> "pending", age |-> -1]
  <2>1. PICK r \in Runs \ (DOMAIN runs \cup dropped) :
            runs' = [k \in DOMAIN runs \cup {r} |-> IF k = r THEN new ELSE runs[k]]
    BY <1>4 DEF InsertRun
  <2>2. /\ DOMAIN runs' = DOMAIN runs \cup {r} /\ runs'[r].exam = request[h].about
        /\ \A k \in DOMAIN runs : runs'[k].exam = runs[k].exam
    BY <2>1
  <2> HIDE DEF new
  <2>3. Creating(request[h]) BY DEF InsertRun, At, Creating
  <2>4. Known' BY <1>1, <1>2, <2>2, CalmBefore DEF StrayInv, Known
  <2>5. There' BY <1>1, <1>2, <2>2, CalmBefore DEF StrayInv, There
  <2>6. ASSUME NEW g \in Handlers, NEW k, k # r, Deletes(request[g], k)' PROVE Deletes(request[g], k)
    BY <1>1, <2>2, <2>6, CalmBefore DEF Deletes, RunsOf
  <2>7. Met'
    <3>1. ASSUME NEW f \in Handlers, NEW g \in Handlers, Inserting(request'[f]), Deletes(request[g], request[f].about.run)'
          PROVE  request'[f].about.run \in mixed'
      <4>1. Inserting(request[f]) /\ request'[f].about = request[f].about BY <1>1, <3>1, CalmBefore
      <4>2. request[f].about.run # r BY <2>1, <4>1 DEF StrayInv, Known
      <4>3. Deletes(request[g], request[f].about.run)
        BY <1>1, <2>2, <3>1, <4>1, <4>2, CalmBefore DEF Deletes, RunsOf
      <4> QED BY <1>2, <4>1, <4>3 DEF StrayInv, Met
    <3>2. ASSUME NEW f \in Handlers, NEW g \in Handlers, Creating(request'[f]), DeletesExam(request'[g], request'[f].about)
          PROVE  request'[f].about \in mixed'
      <4>1. Creating(request[f]) /\ request'[f].about = request[f].about BY <1>1, <3>2, CalmBefore
      <4>2. DeletesExam(request[g], request[f].about) BY <1>1, <3>2, <4>1, CalmBefore
      <4> QED BY <1>2, <4>1, <4>2 DEF StrayInv, Met
    <3> QED BY <3>1, <3>2 DEF Met, Inserting, Creating, DeletesExam
  <2>8. Cleared'
    <3> SUFFICES ASSUME NEW g \in Handlers, request'[g].step \in {"students", "runs", "exam"}
                 PROVE  /\ request'[g].step \in {"students", "runs"} =>
                              \A v \in events' : Deletes(request[g], v.run)' => v.run \in mixed'
                        /\ request'[g].step = "runs" =>
                              \A s \in students' : Deletes(request[g], s.run)' => s.run \in mixed'
                        /\ request'[g].step = "exam" =>
                              (RunsOf(request[g].about)' # {} => request'[g].about \in mixed')
      BY DEF Cleared
    <3>1. request'[g] = request[g] BY <1>1, CalmBefore
    <3>2. \A s \in students \cup events : s.run # r BY <2>1 DEF StrayInv, Known
    <3>3. request[g].step = "exam" /\ RunsOf(request[g].about)' # {} => request[g].about \in mixed
      <4>1. CASE RunsOf(request[g].about) # {} BY <4>1 DEF StrayInv, Cleared
      <4>2. CASE RunsOf(request[g].about) = {} /\ RunsOf(request[g].about)' # {} /\ request[g].step = "exam"
        <5>1. request[g].about = request[h].about BY <2>2, <3>1, <4>2 DEF RunsOf
        <5>2. request[g].kind = "delete_exam"
          <6>1. RequestOK(request[g]) /\ request[g] # Idle BY <4>2 DEF RequestsOK, Idle
          <6> QED BY <4>2, <6>1 DEF RequestOK, AllKinds, Steps
        <5>3. DeletesExam(request[g], request[h].about) BY <4>2, <5>1, <5>2 DEF DeletesExam
        <5> QED BY <2>3, <5>1, <5>3 DEF StrayInv, Met
      <4> QED BY <4>1, <4>2
    <3> QED BY <1>2, <2>6, <3>1, <3>2, <3>3 DEF StrayInv, Cleared
  <2>9. NoStrays'
    <3>1. request[h].about \in DOMAIN exams \cup mixed BY <2>3 DEF StrayInv, There
    <3> QED BY <1>2, <2>2, <3>1 DEF StrayInv, NoStrays
  <2> QED BY <2>4, <2>5, <2>7, <2>8, <2>9 DEF StrayInv
<1> QED BY <1>3, <1>4

\* A student or an event is inserted into a run that is there, or mixed.
LEMMA StrayInsert ==
    ASSUME TypeOK, StrayInv, NEW h \in Handlers, InsertStudent(h) \/ InsertEvent(h)
    PROVE  StrayInv'
<1> USE Parts
<1> DEFINE run == request[h].about.run
<1>1. \A k \in Handlers : Calm(k) BY DoneCalm DEF InsertStudent, InsertEvent
<1>2. UNCHANGED <<exams, runs, dropped, mixed>> BY DEF InsertStudent, InsertEvent, marks
<1>3. Inserting(request[h]) BY DEF InsertStudent, InsertEvent, At, Inserting
<1>4. \A s \in (students' \ students) \cup (events' \ events) : s.run = run
  <2>1. CASE InsertStudent(h) BY <2>1 DEF InsertStudent
  <2>2. CASE InsertEvent(h) BY <2>2 DEF InsertEvent
  <2> QED BY <2>1, <2>2
<1>5. run \in DOMAIN runs \cup dropped /\ run \in DOMAIN runs \cup mixed BY <1>3 DEF StrayInv, Known, There
<1>6. Known' BY <1>1, <1>2, <1>4, <1>5, CalmBefore DEF StrayInv, Known
<1>7. There' BY <1>1, <1>2, CalmBefore DEF StrayInv, There
<1>8. ASSUME NEW g \in Handlers, NEW r, Deletes(request[g], r)' PROVE Deletes(request[g], r)
  BY <1>1, <1>2, <1>8, CalmBefore DEF Deletes, RunsOf
<1>9. Met'
  <2>1. ASSUME NEW f \in Handlers, NEW g \in Handlers, Inserting(request'[f]), Deletes(request[g], request[f].about.run)'
        PROVE  request'[f].about.run \in mixed'
    <3>1. Inserting(request[f]) /\ request'[f].about = request[f].about BY <1>1, <2>1, CalmBefore
    <3>2. Deletes(request[g], request'[f].about.run) BY <1>8, <2>1 DEF Deletes, RunsOf
    <3> QED BY <1>2, <3>1, <3>2 DEF StrayInv, Met
  <2>2. ASSUME NEW f \in Handlers, NEW g \in Handlers, Creating(request'[f]), DeletesExam(request'[g], request'[f].about)
        PROVE  request'[f].about \in mixed'
    <3>1. Creating(request[f]) /\ request'[f].about = request[f].about BY <1>1, <2>2, CalmBefore
    <3>2. DeletesExam(request[g], request[f].about) BY <1>1, <2>2, <3>1, CalmBefore
    <3> QED BY <1>2, <3>1, <3>2 DEF StrayInv, Met
  <2> QED BY <2>1, <2>2 DEF Met, Inserting, Creating, DeletesExam
<1>10. \A g \in Handlers : Deletes(request[g], run) => run \in mixed BY <1>3 DEF StrayInv, Met
<1>11. Cleared'
  <2> SUFFICES ASSUME NEW g \in Handlers, request'[g].step \in {"students", "runs", "exam"}
               PROVE  /\ request'[g].step \in {"students", "runs"} =>
                            \A v \in events' : Deletes(request[g], v.run)' => v.run \in mixed'
                      /\ request'[g].step = "runs" =>
                            \A s \in students' : Deletes(request[g], s.run)' => s.run \in mixed'
                      /\ request'[g].step = "exam" =>
                            (RunsOf(request[g].about)' # {} => request'[g].about \in mixed')
    BY DEF Cleared
  <2>1. request'[g] = request[g] BY <1>1, CalmBefore
  <2>2. RunsOf(request[g].about)' = RunsOf(request[g].about) BY <1>2, <2>1 DEF RunsOf
  <2> HIDE DEF run
  <2> QED BY <1>2, <1>4, <1>8, <1>10, <2>1, <2>2 DEF StrayInv, Cleared
<1>12. NoStrays' BY <1>2, <1>4, <1>5 DEF StrayInv, NoStrays
<1> QED BY <1>6, <1>7, <1>9, <1>11, <1>12 DEF StrayInv

\* A deletion that removes the events, or the students, of its runs and goes on.
LEMMA StrayDeleteRows ==
    ASSUME TypeOK, StrayInv, NEW h \in Handlers, DeleteEvents(h) \/ DeleteStudents(h)
    PROVE  StrayInv'
<1> USE Parts
<1>1. PICK step \in {"students", "runs"} : Go(h, step) BY DEF DeleteEvents, DeleteStudents
<1>2. /\ request'[h].kind = request[h].kind /\ request'[h].about = request[h].about
      /\ request'[h].step = step /\ \A g \in Handlers \ {h} : request'[g] = request[g]
  BY <1>1, Goes
<1>3. /\ UNCHANGED <<exams, runs>> /\ students' \subseteq students /\ events' \subseteq events
      /\ dropped \subseteq dropped' /\ mixed \subseteq mixed'
      /\ Deleting(h) /\ request[h].step # "exists"
  BY DEF DeleteEvents, DeleteStudents, marks
<1>4. Known' BY <1>2, <1>3 DEF StrayInv, Known, Inserting, Deleting
<1>5. There' BY <1>2, <1>3 DEF StrayInv, There, Inserting, Creating, Deleting
<1>6. ASSUME NEW g \in Handlers, NEW r, Deletes(request[g], r)' PROVE Deletes(request[g], r)
  BY <1>2, <1>3, <1>6 DEF Deletes, RunsOf
<1>7. Met'
  <2>1. ASSUME NEW f \in Handlers, NEW g \in Handlers, Inserting(request'[f]), Deletes(request[g], request[f].about.run)'
        PROVE  request'[f].about.run \in mixed'
    <3>1. Inserting(request[f]) /\ request'[f].about = request[f].about
      BY <1>2, <1>3, <2>1 DEF Inserting, Deleting
    <3>2. Deletes(request[g], request'[f].about.run) BY <1>6, <2>1 DEF Deletes, RunsOf
    <3> QED BY <1>3, <3>1, <3>2 DEF StrayInv, Met
  <2>2. ASSUME NEW f \in Handlers, NEW g \in Handlers, Creating(request'[f]), DeletesExam(request'[g], request'[f].about)
        PROVE  request'[f].about \in mixed'
    <3>1. Creating(request[f]) /\ request'[f].about = request[f].about
      BY <1>2, <1>3, <2>2 DEF Creating, Deleting
    <3>2. DeletesExam(request[g], request[f].about) BY <1>2, <1>3, <2>2, <3>1 DEF DeletesExam
    <3> QED BY <1>3, <3>1, <3>2 DEF StrayInv, Met
  <2> QED BY <2>1, <2>2 DEF Met, Inserting, Creating, DeletesExam
\* The statement has removed the rows, or what it was about is mixed.
<1>8. ASSUME NEW r, Deletes(request[h], r) PROVE r \in Scope(h) /\ r \in Touched(h)
  BY <1>3, <1>8 DEF Deletes, Deleting, Scope, Touched
<1>9. \A v \in events' : Deletes(request[h], v.run) => v.run \in mixed'
  <2>1. CASE DeleteEvents(h) BY <1>8, <2>1 DEF DeleteEvents
  <2>2. CASE DeleteStudents(h)
    <3>1. request[h].step = "students" BY <2>2 DEF DeleteStudents
    <3> QED BY <1>3, <3>1 DEF StrayInv, Cleared
  <2> QED BY <2>1, <2>2
<1>10. step = "runs" => \A s \in students' : Deletes(request[h], s.run) => s.run \in mixed'
  <2>1. CASE DeleteEvents(h)
    <3>1. request'[h].step = "students" BY <2>1, Goes DEF DeleteEvents
    <3> QED BY <1>2, <3>1
  <2>2. CASE DeleteStudents(h) BY <1>8, <2>2 DEF DeleteStudents
  <2> QED BY <2>1, <2>2
<1>11. Cleared'
  <2>1. ASSUME NEW g \in Handlers
        PROVE  /\ request'[g].step \in {"students", "runs"} =>
                     \A v \in events' : Deletes(request[g], v.run)' => v.run \in mixed'
               /\ request'[g].step = "runs" =>
                     \A s \in students' : Deletes(request[g], s.run)' => s.run \in mixed'
               /\ request'[g].step = "exam" =>
                     (RunsOf(request[g].about)' # {} => request'[g].about \in mixed')
    <3>1. CASE g = h BY <1>2, <1>6, <1>9, <1>10, <3>1
    <3>2. CASE g # h
      <4>1. request'[g] = request[g] BY <1>2, <3>2
      <4>2. RunsOf(request[g].about)' = RunsOf(request[g].about) BY <1>3, <4>1 DEF RunsOf
      <4> QED BY <1>3, <1>6, <4>1, <4>2 DEF StrayInv, Cleared
    <3> QED BY <3>1, <3>2
  <2> QED BY <2>1 DEF Cleared
<1>12. NoStrays' BY <1>3 DEF StrayInv, NoStrays
<1> QED BY <1>4, <1>5, <1>7, <1>11, <1>12 DEF StrayInv

\* A run is deleted when its rows are, and what is left has its run in mixed.
LEMMA StrayDeleteRuns == ASSUME TypeOK, StrayInv, NEW h \in Handlers, DeleteRuns(h) PROVE StrayInv'
<1> USE Parts
<1>1. /\ UNCHANGED <<exams, students, events>> /\ dropped \subseteq dropped' /\ mixed \subseteq mixed'
      /\ Deleting(h) /\ request[h].step = "runs"
  BY DEF DeleteRuns, marks
<1>2. /\ \A g \in Handlers \ {h} : request'[g] = request[g]
      /\ \/ request'[h] = Idle
         \/ /\ request'[h].kind = "delete_exam" /\ request[h].kind = "delete_exam"
            /\ request'[h].about = request[h].about /\ request'[h].step = "exam"
  <2>1. CASE request[h].kind = "delete_exam" BY <2>1, Goes DEF DeleteRuns, AfterRuns
  <2>2. CASE request[h].kind # "delete_exam" BY <2>2 DEF DeleteRuns, AfterRuns, Done, RequestsOK
  <2> QED BY <2>1, <2>2
<1>3. RunsOnlyGo
  <2>1. CASE UNCHANGED runs BY <2>1, SameRuns
  <2>2. CASE runs' = [r \in DOMAIN runs \ Scope(h) |-> runs[r]] BY <2>2 DEF RunsOnlyGo
  <2> QED BY <2>1, <2>2 DEF DeleteRuns
<1>4. \A r \in DOMAIN runs \ DOMAIN runs' : Deletes(request[h], r) /\ r \in dropped'
  <2>1. \A r \in DOMAIN runs \ DOMAIN runs' : r \in Scope(h) BY DEF DeleteRuns
  <2>2. \A r \in Scope(h) : r \in dropped' BY <1>1, ScopeIsTaken DEF DeleteRuns
  <2>3. \A r \in Scope(h) : Deletes(request[h], r) BY <1>1 DEF Scope, Deletes, Deleting
  <2> QED BY <2>1, <2>2, <2>3
<1>5. ASSUME NEW g \in Handlers
      PROVE  /\ Inserting(request'[g]) => Inserting(request[g]) /\ request'[g].about = request[g].about
             /\ Creating(request'[g]) => Creating(request[g]) /\ request'[g].about = request[g].about
             /\ \A e : DeletesExam(request'[g], e) => DeletesExam(request[g], e)
  <2>1. CASE g # h BY <1>2, <2>1
  <2>2. CASE g = h BY <1>1, <1>2, <2>2 DEF Inserting, Creating, DeletesExam, Idle
  <2> QED BY <2>1, <2>2
<1>6. ASSUME NEW g \in Handlers, NEW r, Deletes(request[g], r)' PROVE Deletes(request[g], r)
  <2>1. request'[g].kind \in {"delete_run", "delete_exam"} /\ request'[g].step # "exists" BY <1>6 DEF Deletes
  <2>2. request'[g].kind = request[g].kind /\ request'[g].about = request[g].about /\ request[g].step # "exists"
    <3>1. CASE g # h BY <1>2, <2>1, <3>1
    <3>2. CASE g = h BY <1>1, <1>2, <2>1, <3>2 DEF Idle
    <3> QED BY <3>1, <3>2
  <2> QED BY <1>3, <1>6, <2>2, FewerRuns DEF Deletes, RunsOf
<1>7. Known'
  <2>1. \A s \in students' \cup events' : s.run \in DOMAIN runs' \cup dropped' BY <1>1, <1>4 DEF StrayInv, Known
  <2>2. \A g \in Handlers : Inserting(request'[g]) => request'[g].about.run \in DOMAIN runs' \cup dropped'
    BY <1>1, <1>4, <1>5 DEF StrayInv, Known
  <2> QED BY <2>1, <2>2 DEF Known, Inserting
<1>8. There'
  <2>1. ASSUME NEW g \in Handlers, Inserting(request'[g]) PROVE request'[g].about.run \in DOMAIN runs' \cup mixed'
    <3>1. Inserting(request[g]) /\ request'[g].about = request[g].about BY <1>5, <2>1
    <3>2. CASE Deletes(request[h], request[g].about.run) BY <1>1, <3>1, <3>2 DEF StrayInv, Met
    <3>3. CASE ~Deletes(request[h], request[g].about.run) BY <1>1, <1>4, <3>1, <3>3 DEF StrayInv, There
    <3> QED BY <3>2, <3>3
  <2>2. \A g \in Handlers : Creating(request'[g]) => request'[g].about \in DOMAIN exams' \cup mixed'
    BY <1>1, <1>5 DEF StrayInv, There
  <2> QED BY <2>1, <2>2 DEF There, Inserting, Creating
<1>9. Met'
  <2>1. ASSUME NEW f \in Handlers, NEW g \in Handlers, Inserting(request'[f]), Deletes(request[g], request[f].about.run)'
        PROVE  request'[f].about.run \in mixed'
    <3>1. Inserting(request[f]) /\ request'[f].about = request[f].about BY <1>5, <2>1
    <3>2. Deletes(request[g], request'[f].about.run) BY <1>6, <2>1 DEF Deletes, RunsOf
    <3> QED BY <1>1, <3>1, <3>2 DEF StrayInv, Met
  <2>2. ASSUME NEW f \in Handlers, NEW g \in Handlers, Creating(request'[f]), DeletesExam(request'[g], request'[f].about)
        PROVE  request'[f].about \in mixed'
    BY <1>1, <1>5, <2>2 DEF StrayInv, Met
  <2> QED BY <2>1, <2>2 DEF Met, Inserting, Creating, DeletesExam
<1>10. Cleared'
  <2>1. ASSUME NEW g \in Handlers
        PROVE  /\ request'[g].step \in {"students", "runs"} =>
                     \A v \in events' : Deletes(request[g], v.run)' => v.run \in mixed'
               /\ request'[g].step = "runs" =>
                     \A s \in students' : Deletes(request[g], s.run)' => s.run \in mixed'
               /\ request'[g].step = "exam" =>
                     (RunsOf(request[g].about)' # {} => request'[g].about \in mixed')
    <3>1. CASE g # h
      <4>1. request'[g] = request[g] BY <1>2, <3>1
      <4>2. RunsOf(request[g].about)' \subseteq RunsOf(request[g].about) BY <1>3, <4>1, FewerRuns DEF RunsOf
      <4> QED BY <1>1, <1>6, <4>1, <4>2 DEF StrayInv, Cleared
    <3>2. CASE g = h
      <4>1. request'[h].step \notin {"students", "runs"} BY <1>2 DEF Idle
      <4>2. ASSUME request'[h].step = "exam", RunsOf(request[h].about)' # {} PROVE request'[h].about \in mixed'
        <5>1. request[h].kind = "delete_exam" /\ request'[h].about = request[h].about BY <1>2, <4>2 DEF Idle
        <5>2. Scope(h) = RunsOf(request[h].about) BY <5>1 DEF Scope
        <5>3. CASE runs' = [r \in DOMAIN runs \ Scope(h) |-> runs[r]] BY <4>2, <5>1, <5>2, <5>3 DEF RunsOf
        <5>4. CASE mixed' = mixed \cup Touched(h) BY <5>1, <5>4 DEF Touched
        <5> QED BY <5>3, <5>4 DEF DeleteRuns
      <4> QED BY <3>2, <4>1, <4>2
    <3> QED BY <3>1, <3>2
  <2> QED BY <2>1 DEF Cleared
<1>11. NoStrays'
  <2>1. ASSUME NEW s \in students \cup events PROVE s.run \in DOMAIN runs' \cup mixed'
    <3>1. Deletes(request[h], s.run) => s.run \in mixed BY <1>1 DEF StrayInv, Cleared
    <3> QED BY <1>1, <1>4, <3>1 DEF StrayInv, NoStrays
  <2>2. \A r \in DOMAIN runs' : runs'[r].exam \in DOMAIN exams' \cup mixed' BY <1>1, <1>3 DEF StrayInv, NoStrays, RunsOnlyGo
  <2> QED BY <1>1, <2>1, <2>2 DEF NoStrays
<1> QED BY <1>7, <1>8, <1>9, <1>10, <1>11 DEF StrayInv

\* An exam is deleted when it has no run, or it is mixed.
LEMMA StrayDeleteExam == ASSUME TypeOK, StrayInv, NEW h \in Handlers, DeleteExam(h) PROVE StrayInv'
<1> USE Parts
<1>1. UNCHANGED <<runs, students, events, dropped, mixed>> /\ DeletesExam(request[h], request[h].about)
      /\ request[h].step = "exam" /\ request[h].step # "exists"
  BY DEF DeleteExam, At, DeletesExam, marks
<1>2. \A k \in Handlers : Calm(k) BY <1>1, GoCalm DEF DeleteExam
<1>3. \A e \in DOMAIN exams \ DOMAIN exams' : e = request[h].about BY DEF DeleteExam
<1>4. \A r \in DOMAIN runs : runs[r].exam = request[h].about => request[h].about \in mixed
  BY <1>1 DEF StrayInv, Cleared, RunsOf
<1>5. Known' BY <1>1, <1>2, CalmBefore DEF StrayInv, Known
<1>6. There'
  <2>1. ASSUME NEW g \in Handlers, Creating(request'[g]) PROVE request'[g].about \in DOMAIN exams' \cup mixed'
    <3>1. Creating(request[g]) /\ request'[g].about = request[g].about BY <1>2, <2>1, CalmBefore
    <3>2. CASE request[g].about = request[h].about BY <1>1, <3>1, <3>2 DEF StrayInv, Met
    <3>3. CASE request[g].about # request[h].about BY <1>1, <1>3, <3>1, <3>3 DEF StrayInv, There
    <3> QED BY <3>2, <3>3
  <2>2. \A g \in Handlers : Inserting(request'[g]) => request'[g].about.run \in DOMAIN runs' \cup mixed'
    BY <1>1, <1>2, CalmBefore DEF StrayInv, There
  <2> QED BY <2>1, <2>2 DEF There, Inserting, Creating
<1>7. ASSUME NEW g \in Handlers, NEW r, Deletes(request[g], r)' PROVE Deletes(request[g], r)
  BY <1>1, <1>2, <1>7, CalmBefore DEF Deletes, RunsOf
<1>8. Met'
  <2>1. ASSUME NEW f \in Handlers, NEW g \in Handlers, Inserting(request'[f]), Deletes(request[g], request[f].about.run)'
        PROVE  request'[f].about.run \in mixed'
    <3>1. Inserting(request[f]) /\ request'[f].about = request[f].about BY <1>2, <2>1, CalmBefore
    <3>2. Deletes(request[g], request'[f].about.run) BY <1>7, <2>1 DEF Deletes, RunsOf
    <3> QED BY <1>1, <3>1, <3>2 DEF StrayInv, Met
  <2>2. ASSUME NEW f \in Handlers, NEW g \in Handlers, Creating(request'[f]), DeletesExam(request'[g], request'[f].about)
        PROVE  request'[f].about \in mixed'
    <3>1. Creating(request[f]) /\ request'[f].about = request[f].about BY <1>2, <2>2, CalmBefore
    <3>2. DeletesExam(request[g], request[f].about) BY <1>2, <2>2, <3>1, CalmBefore
    <3> QED BY <1>1, <3>1, <3>2 DEF StrayInv, Met
  <2> QED BY <2>1, <2>2 DEF Met, Inserting, Creating, DeletesExam
<1>9. Cleared'
  <2> SUFFICES ASSUME NEW g \in Handlers, request'[g].step \in {"students", "runs", "exam"}
               PROVE  /\ request'[g].step \in {"students", "runs"} =>
                            \A v \in events' : Deletes(request[g], v.run)' => v.run \in mixed'
                      /\ request'[g].step = "runs" =>
                            \A s \in students' : Deletes(request[g], s.run)' => s.run \in mixed'
                      /\ request'[g].step = "exam" =>
                            (RunsOf(request[g].about)' # {} => request'[g].about \in mixed')
    BY DEF Cleared
  <2>1. request'[g] = request[g] BY <1>2, CalmBefore
  <2>2. RunsOf(request[g].about)' = RunsOf(request[g].about) BY <1>1, <2>1 DEF RunsOf
  <2> QED BY <1>1, <1>7, <2>1, <2>2 DEF StrayInv, Cleared
<1>10. NoStrays' BY <1>1, <1>3, <1>4 DEF StrayInv, NoStrays
<1> QED BY <1>5, <1>6, <1>8, <1>9, <1>10 DEF StrayInv

\* Requests that come, the checker, time, and the end of the backend.
LEMMA StrayRest ==
    ASSUME TypeOK, StrayInv,
           \/ \E h \in Handlers : \E kind, about : Arrive(h, kind, about)
           \/ (\E h \in Handlers : \E e \in Exams : UploadFiles(h, e)) \/ Checker \/ Tick \/ Restart
           \/ UNCHANGED vars
    PROVE  StrayInv'
<1> USE Parts
<1>1. \A k \in Handlers : Calm(k)
  <2>1. CASE UNCHANGED request BY <2>1 DEF Calm
  <2>2. CASE Restart BY <2>2 DEF Restart, Calm
  <2>3. CASE \E h \in Handlers : \E kind, about : Arrive(h, kind, about) BY <2>3 DEF Arrive, Calm, RequestsOK
  <2> QED BY <2>1, <2>2, <2>3 DEF UploadFiles, Checker, QueryExpired, CloseExpired, Sleep, Tick, vars
<1>2. RunsOnlyGo /\ DOMAIN runs' = DOMAIN runs
  <2>1. CASE UNCHANGED runs BY <2>1, SameRuns
  <2>2. CASE CloseExpired /\ runs' # runs
    <3>1. PICK r \in expired.runs : Close(r) BY <2>2 DEF CloseExpired
    <3>2. r \in DOMAIN runs /\ runs' = [runs EXCEPT ![r] = Updated(runs[r], "finished")]
      BY <2>2, <3>1 DEF Close, WithStatus
    <3>3. runs[r] \in Run BY <3>2, RunsAre
    <3>4. Updated(runs[r], "finished").exam = runs[r].exam BY <3>3 DEF Updated, Run
    <3> QED BY <3>2, <3>4, RunsAre DEF RunsOnlyGo
  <2>3. CASE Tick
    <3>1. \A r \in DOMAIN runs : runs[r] \in Run BY RunsAre
    <3>2. \A r \in DOMAIN runs :
            (IF runs[r].age \in 0 .. MaxAge - 1 THEN [runs[r] EXCEPT !.age = @ + 1] ELSE runs[r]).exam = runs[r].exam
      BY <3>1 DEF Run
    <3> QED BY <2>3, <3>2 DEF Tick, RunsOnlyGo
  <2> QED BY <2>1, <2>2, <2>3 DEF Arrive, UploadFiles, Checker, QueryExpired, Sleep, Restart, vars, tables
<1>3. UNCHANGED <<exams, students, events, dropped, mixed>>
  BY DEF Arrive, UploadFiles, Checker, QueryExpired, CloseExpired, Sleep, Tick, Restart, vars, tables, marks
<1> QED BY <1>1, <1>2, <1>3, CalmStep

LEMMA StrayStep == TypeOK /\ StrayInv /\ [Next]_vars => StrayInv'
<1> SUFFICES ASSUME TypeOK, StrayInv, [Next]_vars PROVE StrayInv' OBVIOUS
<1>1. ASSUME NEW h \in Handlers, Handle(h) PROVE StrayInv'
  BY <1>1, StrayCheck, StrayCalm, StrayInsertRun, StrayInsert, StrayDeleteRows, StrayDeleteRuns, StrayDeleteExam DEF Handle
<1>2. CASE ~(\E h \in Handlers : Handle(h)) BY <1>2, StrayRest DEF Next
<1> QED BY <1>1, <1>2

\* However the statements of any number of handlers mix and wherever the backend ends, a
\* student or an event without its run, or a run without its exam, is left only by a
\* deletion with a failed statement or one that overlapped an insertion.
THEOREM StraysNeedARace == Spec => []NoStrays
<1>1. Init => StrayInv
  BY DEF Init, StrayInv, Known, There, Met, Cleared, NoStrays, Inserting, Creating, Deletes, Idle
<1>2. StrayInv => NoStrays BY DEF StrayInv
<1> QED BY <1>1, <1>2, StrayStep, TypeCorrect, PTL DEF Spec
=============================================================================
