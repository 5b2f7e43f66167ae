--------------------------- MODULE TeacherMonitor ---------------------------
(***************************************************************************)
(* The teacher's live view of one student: a page of LiveMonitor asks for  *)
(* the run and opens a socket at one time, and merges the answer with the  *)
(* notices it is sent, in whatever order they come.  Of what the page      *)
(* shows, the model has the flags and the end of the run.                  *)
(*                                                                         *)
(* The goroutines of the backend that send notices are modelled by what    *)
(* they have still to do for the student: saves, notices, and the reads of *)
(* Flags between them.                                                     *)
(***************************************************************************)
EXTENDS Naturals, Sequences, Functions

CONSTANTS
    Pages,     \* views of the run that teachers may open
    MaxFlags,  \* bound: flags raised
    MaxInbox   \* bound: messages on their way to a page when the student's next step begins

ASSUME BoundsAssumption == MaxFlags \in Nat /\ MaxInbox \in Nat

VARIABLES
    \* the backend
    status,    \* of the run
    cs,        \* the student's CheatingState
    saved,     \* the flags in registered_students.stats
    raised,    \* flags raised so far, which number them
    student,   \* "out", "in", or "finished": the student's connection
    todo,      \* goroutine -> what it has still to do
    \* the pages
    page,
    since      \* page -> flags raised since it is settled, and no flags were cleared; 0: the end

studentVars == <<cs, saved, raised, student>>
vars == <<status, studentVars, todo, page, since>>

-----------------------------------------------------------------------------
Flags == 1 .. MaxFlags

Notice ==
    [what : {"flag"}, ids : SUBSET Flags] \cup [what : {"ended"}]

Instruction ==
    [do : {"save", "event", "clear", "reply"}]
        \cup [do : {"update", "compare", "flags"}, before : Nat]
        \cup [do : {"tell"}, notice : Notice]

\* The goroutines of the student's connection, of the heartbeat checker, of what ends a
\* run, and of the pages' requests to clear the flags.
Goroutines == {"session", "checker", "end"} \cup Pages

Page ==
    [request : {"none", "asked", "answered", "done"},
     answer : [status : {"running", "finished"}, flags : Seq(Flags)],
     socket : {"off", "opening", "in", "lost"},
     inbox : Seq(Notice),
     flags : Seq(SUBSET Flags),  \* what each of the flags shown stands for
     ended : BOOLEAN,
     clearing : {"no", "asked", "answered"}]

NoAnswer == [status |-> "running", flags |-> <<>>]

Closed ==
    [request |-> "none", answer |-> NoAnswer, socket |-> "off", inbox |-> <<>>,
     flags |-> <<>>, ended |-> FALSE, clearing |-> "no"]

TypeOK ==
    /\ status \in {"running", "finished"}
    /\ cs \in [flags : Seq(Flags), online : BOOLEAN, stale : BOOLEAN, finished : BOOLEAN]
    /\ saved \in Seq(Flags)
    /\ raised \in 0 .. MaxFlags
    /\ student \in {"out", "in", "finished"}
    /\ todo \in [Goroutines -> Seq(Instruction)]
    /\ page \in [Pages -> Page]
    /\ since \in [Pages -> SUBSET (0 .. MaxFlags)]

Init ==
    /\ status = "running"
    /\ cs = [flags |-> <<>>, online |-> FALSE, stale |-> FALSE, finished |-> FALSE]
    /\ saved = <<>> /\ raised = 0 /\ student = "out"
    /\ todo = [g \in Goroutines |-> <<>>]
    /\ page = [p \in Pages |-> Closed]
    /\ since = [p \in Pages |-> {}]

\* The page has shown the answer and its socket is logged in.
Settled(p) == page[p].request = "done" /\ page[p].socket = "in"

-----------------------------------------------------------------------------
(* What goroutines do.                                                     *)

Save == <<[do |-> "save"]>>
Event == <<[do |-> "event"]>>
Tell(notice) == <<[do |-> "tell", notice |-> notice]>>
FlagNotice(ids) == [what |-> "flag", ids |-> ids]
EndNotice == [what |-> "ended"]

Next1(g, do) == todo[g] # <<>> /\ Head(todo[g]).do = do
Instead(g, script) == todo' = [todo EXCEPT ![g] = script \o Tail(@)]
Begin(g, script) == todo[g] = <<>> /\ todo' = [todo EXCEPT ![g] = script]

\* The bound on messages that are on their way.
Room == \A p \in Pages : Len(page[p].inbox) < MaxInbox

\* n flags are raised, where Flags was counted before.
Raise(n, before) ==
    LET ids == (raised + 1) .. (raised + n)
    IN  /\ raised + n <= MaxFlags
        /\ raised' = raised + n
        /\ since' = [p \in Pages |->
                        IF Settled(p) /\ before <= Len(cs.flags) THEN since[p] \cup ids ELSE since[p]]

Raised(n) == [i \in 1 .. n |-> raised + i]

\* SaveToDB
StepSave(g) ==
    /\ Next1(g, "save")
    /\ saved' = cs.flags
    /\ Instead(g, <<>>)
    /\ UNCHANGED <<status, cs, raised, student, page, since>>

\* A notice goes to every page that is logged in; that of the end of the run marks the
\* student, too.
StepTell(g) ==
    /\ Next1(g, "tell")
    /\ LET notice == Head(todo[g]).notice
       IN  /\ page' = [p \in Pages |->
                          IF page[p].socket = "in" THEN [page[p] EXCEPT !.inbox = Append(@, notice)] ELSE page[p]]
           /\ IF notice.what = "ended" /\ student # "out"
              THEN student' = "finished" /\ cs' = [cs EXCEPT !.finished = TRUE]
              ELSE UNCHANGED <<student, cs>>
    /\ Instead(g, <<>>)
    /\ UNCHANGED <<status, saved, raised, since>>

-----------------------------------------------------------------------------
(* The student's connection.                                               *)

Login ==
    /\ student = "out" /\ status = "running" /\ Room
    /\ Begin("session", Save)
    /\ student' = "in"
    /\ cs' = [cs EXCEPT !.online = TRUE, !.stale = FALSE]
    /\ UNCHANGED <<status, saved, raised, page, since>>

\* A frame is read; VerifyChain may raise one or two flags, of which one notice tells.
Receive ==
    /\ student # "out"
    /\ Room
    /\ \/ /\ Begin("session", Event)
          /\ UNCHANGED <<cs, raised, since>>
       \/ \E n \in 1 .. 2 :
            /\ Raise(n, 0)
            /\ cs' = [cs EXCEPT !.flags = @ \o Raised(n)]
            /\ Begin("session", Save \o Tell(FlagNotice(Range(Raised(n)))) \o Event)
    /\ UNCHANGED <<status, saved, student, page>>

\* wsEvent up to the read of len(Flags).
StepEvent(g) ==
    /\ Next1(g, "event")
    /\ Instead(g, IF status = "running" /\ student = "in"
                  THEN <<[do |-> "update", before |-> Len(cs.flags)]>> ELSE <<>>)
    /\ UNCHANGED <<status, studentVars, page, since>>

\* Update, of a heartbeat or of an event that raises a flag.
StepUpdate(g) ==
    /\ Next1(g, "update")
    /\ LET before == Head(todo[g]).before
       IN  /\ \/ cs' = [cs EXCEPT !.stale = FALSE] /\ UNCHANGED <<raised, since>>
              \/ Raise(1, before) /\ cs' = [cs EXCEPT !.flags = @ \o Raised(1)]
           /\ Instead(g, <<[do |-> "compare", before |-> before]>>)
    /\ UNCHANGED <<status, saved, student, page>>

\* Whether there are more flags than before.
StepCompare(g) ==
    /\ Next1(g, "compare")
    /\ LET before == Head(todo[g]).before
       IN  Instead(g, IF Len(cs.flags) > before THEN Save \o <<[do |-> "flags", before |-> before]>> ELSE <<>>)
    /\ UNCHANGED <<status, studentVars, page, since>>

\* The notices of Flags[flagsBefore:]; when the flags were cleared since, the expression
\* panics, and the connection ends without a notice.
StepFlags(g) ==
    /\ Next1(g, "flags")
    /\ LET before == Head(todo[g]).before
           new == SubSeq(cs.flags, before + 1, Len(cs.flags))
       IN  \/ /\ before <= Len(cs.flags)
              /\ Instead(g, [i \in 1 .. Len(new) |-> Tell(FlagNotice({new[i]}))[1]])
              /\ UNCHANGED student
           \/ /\ before > Len(cs.flags)
              /\ todo' = [todo EXCEPT ![g] = <<>>]
              /\ student' = "out"
    /\ UNCHANGED <<status, cs, saved, raised, page, since>>

\* ReadMessage fails, and the client is removed.
Leave ==
    /\ student # "out" /\ todo["session"] = <<>>
    /\ student' = "out"
    /\ UNCHANGED <<status, cs, saved, raised, todo, page, since>>

-----------------------------------------------------------------------------
(* The heartbeat checker, the clearing of flags, and the run.              *)

GoStale ==
    /\ cs.online /\ ~cs.stale
    /\ cs' = [cs EXCEPT !.stale = TRUE]
    /\ UNCHANGED <<status, saved, raised, student, todo, page, since>>

Due == cs.online /\ cs.stale /\ ~cs.finished

CheckHeartbeat ==
    /\ Due /\ Room
    /\ Raise(1, 0)
    /\ cs' = [cs EXCEPT !.flags = @ \o Raised(1), !.online = FALSE]
    /\ Begin("checker", Save \o Tell(FlagNotice(Range(Raised(1)))))
    /\ UNCHANGED <<status, saved, student, page>>

\* handleClearFlags
StepClear(g) ==
    /\ Next1(g, "clear")
    /\ cs' = [cs EXCEPT !.flags = <<>>]
    /\ since' = [p \in Pages |-> since[p] \cap {0}]
    /\ Instead(g, Save)
    /\ UNCHANGED <<status, saved, raised, student, page>>

StepReply(g) ==
    /\ Next1(g, "reply")
    /\ page' = [page EXCEPT ![g].clearing = IF @ = "asked" THEN "answered" ELSE @]
    /\ Instead(g, <<>>)
    /\ UNCHANGED <<status, studentVars, since>>

\* The teacher ends the run, or the expiration checker does.
EndRun ==
    /\ status = "running" /\ Room
    /\ status' = "finished"
    /\ since' = [p \in Pages |-> IF Settled(p) THEN since[p] \cup {0} ELSE since[p]]
    /\ Begin("end", Tell(EndNotice))
    /\ UNCHANGED <<studentVars, page>>

-----------------------------------------------------------------------------
(* The pages.                                                              *)

Become(p, new) == page' = [page EXCEPT ![p] = new]
PageOnly == UNCHANGED <<status, studentVars, todo>>

Mount(p) ==
    /\ page[p] = Closed
    /\ Become(p, [Closed EXCEPT !.request = "asked", !.socket = "opening"])
    /\ PageOnly /\ UNCHANGED since

\* The page is left, or loaded anew.
Unmount(p) ==
    /\ page[p] # Closed
    /\ Become(p, Closed)
    /\ since' = [since EXCEPT ![p] = {}]
    /\ PageOnly

\* handleGetExamRun.  The run and the students are read one after the other, which concern
\* different parts of the page.  A request that fails leaves the page as it is.
Answer(p) ==
    /\ page[p].request = "asked"
    /\ Become(p, [page[p] EXCEPT !.request = "answered", !.answer = [status |-> status, flags |-> saved]])
    /\ PageOnly /\ UNCHANGED since

\* setStudentFlags(initial)
Loaded(p) ==
    /\ page[p].request = "answered"
    /\ LET answer == page[p].answer
       IN  Become(p, [page[p] EXCEPT
                        !.request = "done", !.answer = NoAnswer,
                        !.ended = @ \/ answer.status = "finished",
                        !.flags = [i \in DOMAIN answer.flags |-> {answer.flags[i]}]])
    /\ PageOnly /\ UNCHANGED since

\* wsTeacherLogin
SocketIn(p) ==
    /\ page[p].socket = "opening"
    /\ Become(p, [page[p] EXCEPT !.socket = "in"])
    /\ PageOnly /\ UNCHANGED since

\* ws.onclose: nothing opens the socket again.
SocketLost(p) ==
    /\ page[p].socket \in {"opening", "in"}
    /\ Become(p, [page[p] EXCEPT !.socket = "lost", !.inbox = <<>>])
    /\ since' = [since EXCEPT ![p] = {}]
    /\ PageOnly

\* Mutant: the state of when the socket was made is what the flag is added to.
WithFlagStale(q, ids) == [q EXCEPT !.flags = <<ids>>]

\* Mutant: a notice numbers the flags from zero.
WithFlagZero(q, ids) == [q EXCEPT !.flags = Append(@, {n - 1 : n \in ids})]

WithFlag(q, ids) == [q EXCEPT !.flags = Append(@, ids)]

\* Mutant: the handler returns first.
WithEndIgnored(q) == q

WithEnd(q) == [q EXCEPT !.ended = TRUE]

\* onMessage
Merged(q, notice) ==
    CASE notice.what = "flag" -> WithFlag(q, notice.ids)
      [] notice.what = "ended" -> WithEnd(q)

Deliver(p) ==
    /\ page[p].inbox # <<>>
    /\ Become(p, Merged([page[p] EXCEPT !.inbox = Tail(@)], Head(page[p].inbox)))
    /\ PageOnly /\ UNCHANGED since

\* onClearFlags, of which the button is there when flags are shown.
ClearFlags(p) ==
    /\ page[p].flags # <<>> /\ page[p].clearing = "no"
    /\ Begin(p, <<[do |-> "clear"], [do |-> "reply"]>>)
    /\ Become(p, [page[p] EXCEPT !.clearing = "asked"])
    /\ UNCHANGED <<status, studentVars, since>>

\* What came between the request and this is dropped from the view, but not by the backend.
Cleared(p) ==
    /\ page[p].clearing = "answered"
    /\ Become(p, [page[p] EXCEPT !.clearing = "no", !.flags = <<>>])
    /\ since' = [since EXCEPT ![p] = @ \cap {0}]
    /\ PageOnly

-----------------------------------------------------------------------------
Step(g) ==
    \/ StepSave(g) \/ StepTell(g)
    \/ StepEvent(g) \/ StepUpdate(g) \/ StepCompare(g) \/ StepFlags(g)
    \/ StepClear(g) \/ StepReply(g)

Browser(p) == Answer(p) \/ Loaded(p) \/ SocketIn(p) \/ Deliver(p) \/ Cleared(p)

Next ==
    \/ \E g \in Goroutines : Step(g)
    \/ Login \/ Leave \/ Receive
    \/ GoStale \/ CheckHeartbeat
    \/ EndRun
    \/ \E p \in Pages : Mount(p) \/ Unmount(p) \/ SocketLost(p) \/ ClearFlags(p) \/ Browser(p)

Spec == Init /\ [][Next]_vars

-----------------------------------------------------------------------------
(* Properties.                                                             *)

\* Nothing is under way for page p.
Quiet(p) ==
    /\ \A g \in Goroutines : todo[g] = <<>>
    /\ page[p].inbox = <<>> /\ page[p].clearing = "no" /\ ~Due

\* Once a page has loaded and is logged in, no flag raised from then on is lost to it, nor
\* is the end of the run: when nothing is under way, each is shown.  Excepted are flags
\* raised before the last clear was processed or its answer shown, and by an event that a
\* clear overtook after wsEvent counted the flags.
ToldIsShown ==
    \A p \in Pages : (Settled(p) /\ Quiet(p)) =>
        \A n \in since[p] :
            IF n = 0 THEN page[p].ended ELSE \E i \in DOMAIN page[p].flags : n \in page[p].flags[i]

-----------------------------------------------------------------------------
(* What a message, a comment or the form says, and what does not hold (README.md). *)

\* "No flags": the student has none.
NoFlagsMeansNone ==
    \A p \in Pages : (Settled(p) /\ Quiet(p) /\ page[p].flags = <<>>) => cs.flags = <<>>

\* "The exam duration has expired or was manually closed.": told of a run that is finished.
FinishedIsShown ==
    \A p \in Pages : (Settled(p) /\ Quiet(p) /\ status = "finished") => page[p].ended
=============================================================================
