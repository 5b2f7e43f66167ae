--------------------------- MODULE StudentSession ---------------------------
(***************************************************************************)
(* What the backend keeps about one student during one run of an exam, and *)
(* who changes it:                                                         *)
(*   - one goroutine per WebSocket connection (handleWebSocket), with the  *)
(*     login and the event handlers, which query the database, read the    *)
(*     clients map and change the CheatingState in separate steps;         *)
(*   - the heartbeat checker, which flags a silent student as offline;     *)
(*   - the teacher's requests that change the run's status or clear the    *)
(*     student's flags, and the checker that closes expired runs;          *)
(*   - a restart of the backend, which keeps only the database.            *)
(* The CheatingState is in memory and shared; SaveToDB takes a snapshot    *)
(* under its mutex and writes it later.                                    *)
(*                                                                         *)
(* Flags are counted, not described: an era is the life of one Flags slice,*)
(* from the creation of the CheatingState or from a clear on.              *)
(***************************************************************************)
EXTENDS Integers, FiniteSets

CONSTANTS
    Conn,        \* the connections the student's application may open
    MaxReads,    \* bound: frames read on one connection
    MaxFlags,    \* bound: flags at which no frame that flags is sent
    MaxStalls,   \* bound: heartbeat gaps while a connection is up
    MaxChanges,  \* bound: changes of the run's status
    MaxClears,   \* bound: requests to clear the flags
    MaxRestarts, \* bound: restarts of the backend
    Failing      \* bound: which statements, of those whose error nobody looks
                 \* at, may fail: "status" (the query), "count", "update"

ASSUME ConnAssumption == IsFiniteSet(Conn)

ASSUME BoundsAssumption ==
    /\ MaxReads \in Nat
    /\ MaxFlags \in Nat
    /\ MaxStalls \in Nat
    /\ MaxChanges \in Nat
    /\ MaxClears \in Nat
    /\ MaxRestarts \in Nat

VARIABLES
    \* the database
    status,         \* exam_runs.status
    finishedEvent,  \* the events table has a student_finished of the student
    stats,          \* registered_students.stats: the last snapshot written
    \* memory shared by the goroutines
    cs,             \* the student's CheatingState
    \* the connection goroutines
    at,             \* at[c]: where it is
    local,          \* local[c]: the frame in progress and the handler's locals
    reads,          \* reads[c]: frames read
    sid,            \* sid[c]: the client in clients has StudentID and RunID
    cheating,       \* cheating[c]: its Cheating is set
    fin,            \* fin[c]: its Finished
    \* the other goroutines, each "idle" between two turns
    checker, checkerSnap,
    clearer, clearerSnap,
    teacher, expiry,
    \* what has happened, for the bounds and the properties
    used,           \* stalls, status changes, clears and restarts so far
    logins,         \* logins accepted
    offlines,       \* offline flags raised
    told,           \* positions in Flags the teachers were notified of
    notices,        \* what who raised a flag is still to notify of, after its save
    spared,         \* the CheatingState was marked finished
    owed,           \* a disconnect was logged, "heartbeat checker will flag"
    saveSpoiled,    \* two saves overlapped, or a save failed
    clearRaced      \* a clear overlapped a flagging frame

dbVars == <<status, finishedEvent, stats>>
goVars == <<at, local, reads>>
clientVars == <<sid, cheating, fin>>
otherVars == <<checker, checkerSnap, clearer, clearerSnap, teacher, expiry>>
historyVars == <<logins, offlines, told, notices, spared, owed, saveSpoiled, clearRaced>>
vars == <<dbVars, cs, goVars, clientVars, otherVars, used, historyVars>>

-----------------------------------------------------------------------------
Kinds == {"login", "heartbeat", "flagged", "student_finished"}

Snapshot == [era : Nat, flags : Nat]
EmptyStats == [era |-> 0, flags |-> 0]

CheatingState == [known : BOOLEAN, era : Nat, flags : Nat, online : BOOLEAN,
                  finished : BOOLEAN, fresh : BOOLEAN]

\* How much of the bounds is used up.
Counts == [stalls : Nat, changes : Nat, clears : Nat, restarts : Nat]

\* ToJSON, of which the flags matter here.
ToJSON == [era |-> cs.era, flags |-> cs.flags]

\* A handler's locals: the method or event type, flagsBefore, what follows the
\* save in progress, and its statsJSON.
Locals == [req : Kinds, before : Nat, then : {"dispatch", "read", "tell"},
           snap : Snapshot]
NoLocals == [req |-> "login", before |-> 0, then |-> "read", snap |-> EmptyStats]

\* A flag its raiser is still to notify of: who raised it, and which flag it is.
Notices == [by : Conn \cup {"checker"}, era : Nat, flag : Nat]

Places == {"none", "read", "dispatch", "admitted", "unfinished", "alone", "named",
           "insert", "update", "compare", "snap", "write",
           "leaving", "closed"}

TypeOK ==
    /\ status \in {"pending", "running", "finished"}
    /\ finishedEvent \in BOOLEAN
    /\ stats \in Snapshot
    /\ cs \in CheatingState
    /\ at \in [Conn -> Places]
    /\ local \in [Conn -> Locals]
    /\ reads \in [Conn -> Nat]
    /\ sid \in [Conn -> BOOLEAN]
    /\ cheating \in [Conn -> BOOLEAN]
    /\ fin \in [Conn -> BOOLEAN]
    /\ checker \in {"idle", "snap", "write"}
    /\ checkerSnap \in Snapshot
    /\ clearer \in {"idle", "snap", "write", "reset"}
    /\ clearerSnap \in Snapshot
    /\ teacher \in {"idle", "ended"}
    /\ expiry \in {"idle", "due", "ended"}
    /\ used \in Counts
    /\ logins \in Nat
    /\ offlines \in Nat
    /\ told \in SUBSET Nat
    /\ notices \in SUBSET Notices
    /\ spared \in BOOLEAN
    /\ owed \in BOOLEAN
    /\ saveSpoiled \in BOOLEAN
    /\ clearRaced \in BOOLEAN

Init ==
    /\ status = "pending"
    /\ finishedEvent = FALSE
    /\ stats = EmptyStats
    /\ cs = [known |-> FALSE, era |-> 0, flags |-> 0, online |-> FALSE,
             finished |-> FALSE, fresh |-> FALSE]
    /\ at = [c \in Conn |-> "none"]
    /\ local = [c \in Conn |-> NoLocals]
    /\ reads = [c \in Conn |-> 0]
    /\ sid = [c \in Conn |-> FALSE]
    /\ cheating = [c \in Conn |-> FALSE]
    /\ fin = [c \in Conn |-> FALSE]
    /\ checker = "idle" /\ checkerSnap = EmptyStats
    /\ clearer = "idle" /\ clearerSnap = EmptyStats
    /\ teacher = "idle" /\ expiry = "idle"
    /\ used = [stalls |-> 0, changes |-> 0, clears |-> 0, restarts |-> 0]
    /\ logins = 0
    /\ offlines = 0
    /\ told = {}
    /\ notices = {}
    /\ spared = FALSE
    /\ owed = FALSE
    /\ saveSpoiled = FALSE
    /\ clearRaced = FALSE

-----------------------------------------------------------------------------
\* Goroutine c goes on at another place with locals l, which end with the
\* handler.
Goto(c, to, l) ==
    /\ at' = [at EXCEPT ![c] = to]
    /\ local' = [local EXCEPT ![c] = IF to \in {"read", "leaving"} THEN NoLocals ELSE l]

\* A step of goroutine c that changes nothing else.
Move(c, from, to) ==
    /\ at[c] = from
    /\ Goto(c, to, local[c])
    /\ UNCHANGED <<dbVars, cs, reads, clientVars, otherVars, used, historyVars>>

\* The positions in Flags of the next n flags.
Positions(n) == (cs.flags + 1)..(cs.flags + n)

\* The next n flags are raised by who notifies of them after its save.
Raise(by, n) ==
    /\ notices' = notices \cup [by : {by}, era : {cs.era}, flag : Positions(n)]
    /\ UNCHANGED told

\* It notifies of them; those of an era that a clear has ended are no flags any more.
Tell(by) ==
    /\ told' = told \cup {m.flag : m \in {k \in notices : k.by = by /\ k.era = cs.era}}
    /\ notices' = {k \in notices : k.by # by}

-----------------------------------------------------------------------------
(* Saving.  Two saves overlap when one takes its snapshot while the other   *)
(* one's is still to be written.                                            *)

InFlight ==
    \/ \E c \in Conn : at[c] = "write"
    \/ checker = "write"
    \/ clearer \in {"write", "reset"}

\* SaveToDB up to the return of ToJSON.
Snap(c) ==
    /\ at[c] = "snap"
    /\ Goto(c, "write", [local[c] EXCEPT !.snap = ToJSON])
    /\ saveSpoiled' = (saveSpoiled \/ InFlight)
    /\ UNCHANGED <<dbVars, cs, reads, clientVars, otherVars, used, logins,
                   offlines, told, notices, spared, owed, clearRaced>>

\* The UPDATE of the stats column, whose failure is only logged.
Store(s) ==
    \/ stats' = s /\ UNCHANGED saveSpoiled
    \/ stats' = stats /\ saveSpoiled' = TRUE

\* Mutated: the first new flag is skipped.
NotifyLaterFlags(c) ==
    /\ told' = told \union ((local[c].before + 2)..cs.flags)
    /\ Goto(c, "read", NoLocals)

\* An event handler notifies the teachers of Flags[flagsBefore:]; when the
\* flags were cleared since, the slice expression panics and the connection
\* ends.
NotifyFlags(c) ==
    \/ /\ local[c].before <= cs.flags
       /\ told' = told \union ((local[c].before + 1)..cs.flags)
       /\ Goto(c, "read", NoLocals)
    \/ /\ local[c].before > cs.flags
       /\ Goto(c, "leaving", NoLocals)
       /\ UNCHANGED told

\* The rest of SaveToDB and what its caller does next.
Write(c) ==
    /\ at[c] = "write"
    /\ Store(local[c].snap)
    /\ IF local[c].then = "tell"
          THEN NotifyFlags(c) /\ UNCHANGED notices
          ELSE Goto(c, local[c].then, [NoLocals EXCEPT !.req = local[c].req]) /\ Tell(c)
    /\ UNCHANGED <<status, finishedEvent, cs, reads, clientVars, otherVars,
                   used, logins, offlines, spared, owed, clearRaced>>

-----------------------------------------------------------------------------
(* The connection goroutines.                                              *)

\* The upgrade and addClient.
AddClient(c) == Move(c, "none", "read")

\* A frame is read; when the client is logged in, VerifyChain may raise one
\* or two flags, which are saved and notified of before the frame is dispatched.
Receive(c, kind) ==
    /\ at[c] = "read"
    /\ reads[c] < MaxReads
    /\ kind = "flagged" => cs.flags < MaxFlags
    /\ reads' = [reads EXCEPT ![c] = @ + 1]
    /\ \/ /\ Goto(c, "dispatch", [NoLocals EXCEPT !.req = kind])
          /\ UNCHANGED <<cs, told, notices>>
       \/ /\ cheating[c] /\ cs.flags < MaxFlags
          /\ Goto(c, "snap", [NoLocals EXCEPT !.req = kind, !.then = "dispatch"])
          /\ \E n \in 1..2 : cs' = [cs EXCEPT !.flags = @ + n] /\ Raise(c, n)
    /\ UNCHANGED <<dbVars, clientVars, otherVars, used, logins, offlines, spared,
                   owed, saveSpoiled, clearRaced>>

\* A statement whose error is not looked at leaves its result unset.
Unset(statement, unset) == {unset : f \in Failing \cap {statement}}

\* The run's status as a handler reads it.
RunStatus == {status} \cup Unset("status", "")

\* wsLogin up to the run's status: malformed parameters, an unknown student
\* or a query error end it, too.
LoginRefused(c) ==
    /\ local[c].req = "login"
    /\ Move(c, "dispatch", "read")

LoginStatus(c) ==
    /\ local[c].req = "login"
    /\ \E s \in RunStatus : s \notin {"finished", "pending"}
    /\ Move(c, "dispatch", "admitted")

\* The count of student_finished events.
LoginUnfinished(c) ==
    \E finished \in {finishedEvent} \cup Unset("count", FALSE) :
        Move(c, "admitted", IF finished THEN "read" ELSE "unfinished")

\* The search of clients, under clientsMu.RLock.
LoginAlone(c) ==
    Move(c, "unfinished",
         IF \E d \in Conn \ {c} : sid[d] THEN "read" ELSE "alone")

\* The client takes the student's id and run, with no lock held.
LoginName(c) ==
    /\ at[c] = "alone"
    /\ Goto(c, "named", local[c])
    /\ sid' = [sid EXCEPT ![c] = TRUE]
    /\ UNCHANGED <<dbVars, cs, reads, cheating, fin, otherVars, used, historyVars>>

\* Mutated: every login starts a new Flags slice.
NewFlagsPerLogin == [cs EXCEPT !.known = TRUE, !.flags = 0]

\* GetCheatingState: the state in memory, or a new one without flags; the
\* stats of the database are not read back.
GetCheatingState ==
    IF cs.known THEN cs
    ELSE [known |-> TRUE, era |-> cs.era + 1, flags |-> 0, online |-> TRUE,
          finished |-> FALSE, fresh |-> TRUE]

\* Mutated: a login also marks the student unfinished.
LoginRevives(c) ==
    /\ at[c] = "named"
    /\ Goto(c, "snap", NoLocals)
    /\ cs' = [GetCheatingState EXCEPT !.online = TRUE, !.fresh = TRUE,
                                     !.finished = FALSE]
    /\ told' = IF cs.known THEN told ELSE {}
    /\ cheating' = [cheating EXCEPT ![c] = TRUE]
    /\ logins' = logins + 1
    /\ owed' = FALSE
    /\ UNCHANGED <<dbVars, reads, sid, fin, otherVars, used, offlines, notices,
                   spared, saveSpoiled, clearRaced>>

\* The rest of the login, up to SaveToDB.
LoginBind(c) ==
    /\ at[c] = "named"
    /\ Goto(c, "snap", NoLocals)
    /\ cs' = [GetCheatingState EXCEPT !.online = TRUE, !.fresh = TRUE]
    /\ told' = IF cs.known THEN told ELSE {}
    /\ cheating' = [cheating EXCEPT ![c] = TRUE]
    /\ logins' = logins + 1
    /\ owed' = FALSE
    /\ UNCHANGED <<dbVars, reads, sid, fin, otherVars, used, offlines, notices,
                   spared, saveSpoiled, clearRaced>>

\* wsEvent's early returns, the one of a failed INSERT included.
EventRefused(c) ==
    /\ local[c].req # "login"
    /\ \/ /\ \/ ~sid[c]
             \/ fin[c] /\ local[c].req # "student_finished"
             \/ \E s \in RunStatus : s # "running"
          /\ Move(c, "dispatch", "read")
       \/ Move(c, "insert", "read")

EventAdmitted(c) ==
    /\ local[c].req # "login"
    /\ sid[c]
    /\ fin[c] => local[c].req = "student_finished"
    /\ status = "running"
    /\ Move(c, "dispatch", "insert")

\* The INSERT, the marks of a student_finished, and the read of flagsBefore.
EventInsert(c) ==
    LET last == local[c].req = "student_finished"
    IN  /\ at[c] = "insert"
        /\ Goto(c, "update", [local[c] EXCEPT !.before = cs.flags])
        /\ finishedEvent' = (finishedEvent \/ last)
        /\ fin' = [fin EXCEPT ![c] = @ \/ last]
        /\ cs' = [cs EXCEPT !.finished = @ \/ last]
        /\ spared' = (spared \/ last)
        /\ owed' = (owed /\ ~last)
        /\ UNCHANGED <<status, stats, reads, sid, cheating, otherVars, used,
                       logins, offlines, told, notices, saveSpoiled, clearRaced>>

\* Update: an event that is no heartbeat may raise flags.
EventUpdate(c) ==
    /\ at[c] = "update"
    /\ Goto(c, "compare", local[c])
    /\ \/ local[c].req = "heartbeat" /\ cs' = [cs EXCEPT !.fresh = TRUE]
       \/ local[c].req = "student_finished" /\ UNCHANGED cs
       \/ /\ local[c].req = "flagged"
          /\ \E n \in 1..2 : cs' = [cs EXCEPT !.flags = @ + n]
    /\ UNCHANGED <<dbVars, reads, clientVars, otherVars, used, historyVars>>

\* Mutated: off by one.
EventCompareLate(c) ==
    /\ at[c] = "compare"
    /\ Goto(c, IF cs.flags > local[c].before + 1 THEN "snap" ELSE "read",
            [local[c] EXCEPT !.then = "tell"])
    /\ UNCHANGED <<dbVars, cs, reads, clientVars, otherVars, used, historyVars>>

\* The comparison of len(Flags) with flagsBefore, with no lock held.
EventCompare(c) ==
    /\ at[c] = "compare"
    /\ Goto(c, IF cs.flags > local[c].before THEN "snap" ELSE "read",
            [local[c] EXCEPT !.then = "tell"])
    /\ UNCHANGED <<dbVars, cs, reads, clientVars, otherVars, used, historyVars>>

\* ReadMessage fails; of a student the backend logs "heartbeat checker will
\* flag".  It owes that flag when the student was there until now and nothing
\* but the connection has ended.
ReadError(c) ==
    /\ at[c] = "read"
    /\ Goto(c, "leaving", NoLocals)
    /\ owed' = \/ owed
               \/ /\ cheating[c] /\ ~fin[c] /\ status = "running" /\ cs.fresh
                  /\ \A d \in Conn \ {c} : ~sid[d]
    /\ UNCHANGED <<dbVars, cs, reads, clientVars, otherVars, used, logins,
                   offlines, told, notices, spared, saveSpoiled, clearRaced>>

\* The deferred removeClient, after which nothing reads the client.
RemoveClient(c) ==
    /\ at[c] = "leaving"
    /\ Goto(c, "closed", NoLocals)
    /\ reads' = [reads EXCEPT ![c] = 0]
    /\ sid' = [sid EXCEPT ![c] = FALSE]
    /\ cheating' = [cheating EXCEPT ![c] = FALSE]
    /\ fin' = [fin EXCEPT ![c] = FALSE]
    /\ UNCHANGED <<dbVars, cs, otherVars, used, historyVars>>

-----------------------------------------------------------------------------
(* The heartbeat checker.                                                  *)

\* Ten seconds go by without a heartbeat.
GoStale ==
    /\ cs.known /\ cs.fresh
    /\ cs' = [cs EXCEPT !.fresh = FALSE]
    /\ IF \E c \in Conn : sid[c]
          THEN /\ used.stalls < MaxStalls
               /\ used' = [used EXCEPT !.stalls = @ + 1]
          ELSE UNCHANGED used
    /\ UNCHANGED <<dbVars, goVars, clientVars, otherVars, historyVars>>

\* Mutated: Connected stays set; only students in clients are looked at.
CheckerFlagAgain ==
    /\ checker = "idle"
    /\ cs.known /\ ~cs.finished /\ cs.online /\ ~cs.fresh
    /\ cs' = [cs EXCEPT !.flags = @ + 1]
    /\ Raise("checker", 1)
    /\ offlines' = offlines + 1
    /\ owed' = FALSE
    /\ checker' = "snap"
    /\ UNCHANGED <<dbVars, goVars, clientVars, checkerSnap, clearer, clearerSnap,
                   teacher, expiry, used, logins, spared, saveSpoiled,
                   clearRaced>>

CheckerFlagClients ==
    /\ checker = "idle"
    /\ cs.known /\ ~cs.finished /\ cs.online /\ ~cs.fresh
    /\ \E c \in Conn : sid[c]
    /\ cs' = [cs EXCEPT !.flags = @ + 1, !.online = FALSE]
    /\ Raise("checker", 1)
    /\ offlines' = offlines + 1
    /\ owed' = FALSE
    /\ checker' = "snap"
    /\ UNCHANGED <<dbVars, goVars, clientVars, checkerSnap, clearer, clearerSnap,
                   teacher, expiry, used, logins, spared, saveSpoiled,
                   clearRaced>>

\* A connected student without a recent heartbeat is flagged and marked
\* offline; heartbeats do not mark it online again, a login does.
CheckerFlag ==
    /\ checker = "idle"
    /\ cs.known /\ ~cs.finished /\ cs.online /\ ~cs.fresh
    /\ cs' = [cs EXCEPT !.flags = @ + 1, !.online = FALSE]
    /\ Raise("checker", 1)
    /\ offlines' = offlines + 1
    /\ owed' = FALSE
    /\ checker' = "snap"
    /\ UNCHANGED <<dbVars, goVars, clientVars, checkerSnap, clearer,
                   clearerSnap, teacher, expiry, used, logins, spared,
                   saveSpoiled, clearRaced>>

CheckerSave ==
    /\ \/ /\ checker = "snap"
          /\ checker' = "write"
          /\ checkerSnap' = ToJSON
          /\ saveSpoiled' = (saveSpoiled \/ InFlight)
          /\ UNCHANGED <<stats, told, notices>>
       \/ /\ checker = "write"
          /\ checker' = "idle"
          /\ Store(checkerSnap)
          /\ checkerSnap' = EmptyStats
          /\ Tell("checker")
    /\ UNCHANGED <<status, finishedEvent, cs, goVars, clientVars, clearer,
                   clearerSnap, teacher, expiry, used, logins, offlines, spared,
                   owed, clearRaced>>

-----------------------------------------------------------------------------
(* The teacher's requests and the checker of expired runs.                 *)

\* A frame that flags is between its read of flagsBefore and its notice.
Flagging(c) ==
    \/ at[c] \in {"update", "compare"}
    \/ at[c] \in {"snap", "write"} /\ local[c].then = "tell"

\* VerifyChain has flagged a frame that is not dispatched yet.
ChainFlagging(c) == at[c] \in {"snap", "write"} /\ local[c].then = "dispatch"

\* Mutated: a clear takes off the last flag.
ClearLastFlag ==
    /\ clearer = "idle"
    /\ used.clears < MaxClears
    /\ used' = [used EXCEPT !.clears = @ + 1]
    /\ cs.known
    /\ cs' = [cs EXCEPT !.flags = @ - 1, !.era = @ + 1]
    /\ told' = {}
    /\ clearer' = "snap"
    /\ clearRaced' = (clearRaced \/ \E c \in Conn : Flagging(c))
    /\ UNCHANGED <<dbVars, goVars, clientVars, checker, checkerSnap, clearerSnap,
                   teacher, expiry, logins, offlines, notices, spared, owed, saveSpoiled>>

\* handleClearFlags up to SaveToDB; without a CheatingState the stats are
\* reset by a statement of its own.
ClearFlags ==
    /\ clearer = "idle"
    /\ used.clears < MaxClears
    /\ used' = [used EXCEPT !.clears = @ + 1]
    /\ \/ /\ cs.known
          /\ cs' = [cs EXCEPT !.flags = 0, !.era = @ + 1]
          /\ told' = {}
          /\ clearer' = "snap"
          /\ clearRaced' = (clearRaced \/ \E c \in Conn : Flagging(c))
          /\ UNCHANGED saveSpoiled
       \/ /\ ~cs.known
          /\ clearer' = "reset"
          /\ saveSpoiled' = (saveSpoiled \/ InFlight)
          /\ UNCHANGED <<cs, told, clearRaced>>
    /\ UNCHANGED <<dbVars, goVars, clientVars, checker, checkerSnap,
                   clearerSnap, teacher, expiry, logins, offlines, notices, spared,
                   owed>>

ClearSave ==
    /\ \/ /\ clearer = "snap"
          /\ clearer' = "write"
          /\ clearerSnap' = ToJSON
          /\ saveSpoiled' = (saveSpoiled \/ InFlight)
          /\ UNCHANGED stats
       \/ /\ clearer \in {"write", "reset"}
          /\ clearer' = "idle"
          /\ Store(clearerSnap)
          /\ clearerSnap' = EmptyStats
    /\ UNCHANGED <<status, finishedEvent, cs, goVars, clientVars, checker,
                   checkerSnap, teacher, expiry, used, logins, offlines, told,
                   notices, spared, owed, clearRaced>>

\* handleUpdateRunStatus: any status may follow any other; whether the UPDATE
\* succeeds is not looked at, the end is notified of in any case.
UpdateRunStatus(s) ==
    /\ teacher = "idle"
    /\ used.changes < MaxChanges
    /\ used' = [used EXCEPT !.changes = @ + 1]
    /\ status' \in {s} \cup Unset("update", status)
    /\ teacher' = IF s = "finished" THEN "ended" ELSE "idle"
    /\ owed' = (owed /\ s = "running")
    /\ UNCHANGED <<finishedEvent, stats, cs, goVars, clientVars, checker,
                   checkerSnap, clearer, clearerSnap, expiry, logins, offlines,
                   told, notices, spared, saveSpoiled, clearRaced>>

\* The expiration checker's query finds the run over its duration.
ExpiryQuery ==
    /\ expiry = "idle"
    /\ status = "running"
    /\ used.changes < MaxChanges
    /\ used' = [used EXCEPT !.changes = @ + 1]
    /\ expiry' = "due"
    /\ UNCHANGED <<dbVars, cs, goVars, clientVars, checker, checkerSnap,
                   clearer, clearerSnap, teacher, historyVars>>

\* Its UPDATE, whatever the status is by then, and whether it succeeds or not.
ExpiryClose ==
    /\ expiry = "due"
    /\ expiry' = "ended"
    /\ status' \in {"finished"} \cup Unset("update", status)
    /\ owed' = FALSE
    /\ UNCHANGED <<finishedEvent, stats, cs, goVars, clientVars, checker,
                   checkerSnap, clearer, clearerSnap, teacher, used, logins,
                   offlines, told, notices, spared, saveSpoiled, clearRaced>>

\* notifyRunEnded, under clientsMu.RLock.
notifyRunEnded ==
    LET marks == \E c \in Conn : sid[c] /\ cheating[c]
    IN  /\ fin' = [c \in Conn |-> fin[c] \/ sid[c]]
        /\ cs' = [cs EXCEPT !.finished = @ \/ marks]
        /\ spared' = (spared \/ marks)

NotifyEnd ==
    /\ notifyRunEnded
    /\ \/ teacher = "ended" /\ teacher' = "idle" /\ UNCHANGED expiry
       \/ expiry = "ended" /\ expiry' = "idle" /\ UNCHANGED teacher
    /\ UNCHANGED <<dbVars, goVars, sid, cheating, checker, checkerSnap,
                   clearer, clearerSnap, used, logins, offlines, told, notices,
                   owed, saveSpoiled, clearRaced>>

\* The backend stops and starts again: main keeps nothing but the database.
Restart ==
    /\ used.restarts < MaxRestarts
    /\ used' = [used EXCEPT !.restarts = @ + 1]
    /\ at' = [c \in Conn |-> IF at[c] = "none" THEN "none" ELSE "closed"]
    /\ local' = [c \in Conn |-> NoLocals]
    /\ reads' = [c \in Conn |-> 0]
    /\ sid' = [c \in Conn |-> FALSE]
    /\ cheating' = [c \in Conn |-> FALSE]
    /\ fin' = [c \in Conn |-> FALSE]
    /\ cs' = [cs EXCEPT !.known = FALSE, !.flags = 0, !.online = FALSE,
                        !.finished = FALSE, !.fresh = FALSE]
    /\ checker' = "idle" /\ checkerSnap' = EmptyStats
    /\ clearer' = "idle" /\ clearerSnap' = EmptyStats
    /\ teacher' = "idle" /\ expiry' = "idle"
    /\ told' = {}
    /\ notices' = {}
    /\ spared' = FALSE
    /\ owed' = FALSE
    /\ UNCHANGED <<dbVars, logins, offlines, saveSpoiled, clearRaced>>

-----------------------------------------------------------------------------
\* The steps a goroutine takes by itself between two frames.
Serve(c) ==
    \/ LoginRefused(c) \/ LoginStatus(c) \/ LoginUnfinished(c) \/ LoginAlone(c)
    \/ LoginName(c) \/ LoginBind(c)
    \/ EventRefused(c) \/ EventAdmitted(c) \/ EventInsert(c) \/ EventUpdate(c)
    \/ EventCompare(c) \/ Snap(c) \/ Write(c) \/ RemoveClient(c)

Peer(c) == AddClient(c) \/ ReadError(c) \/ \E kind \in Kinds : Receive(c, kind)

Teacher == ClearFlags \/ \E s \in {"pending", "running", "finished"} : UpdateRunStatus(s)

Expiry == ExpiryQuery \/ ExpiryClose

Checker == CheckerFlag \/ CheckerSave

Next ==
    \/ \E c \in Conn : Serve(c) \/ Peer(c)
    \/ GoStale \/ Checker \/ Teacher \/ ClearSave \/ Expiry \/ NotifyEnd
    \/ Restart

Spec == Init /\ [][Next]_vars

\* Goroutines and tickers keep running and time passes.  Nothing is promised
\* of the student's application, of the teacher, or of a restart.
Fairness ==
    /\ \A c \in Conn : WF_vars(Serve(c))
    /\ WF_vars(GoStale)
    /\ WF_vars(Checker)
    /\ WF_vars(ClearSave)
    /\ WF_vars(ExpiryClose)
    /\ WF_vars(NotifyEnd)

FairSpec == Spec /\ Fairness

-----------------------------------------------------------------------------
(* Properties.                                                             *)

Saving ==
    \/ \E c \in Conn : at[c] \in {"compare", "snap", "write"}
    \/ checker # "idle"
    \/ clearer # "idle"

\* What the teacher's pages load is what the backend holds: unless two saves
\* overlapped, a save failed or a clear ran inside a flagging frame, the stats
\* of the database have the flags of the CheatingState whenever no handler is
\* still to save them.
StatsCurrent ==
    cs.known /\ ~saveSpoiled /\ ~clearRaced /\ ~Saving => stats = ToJSON

\* No flag is kept from the teachers: unless a clear ran inside a flagging
\* frame, every flag in memory has been notified of once no frame and no turn
\* of the checker is between raising and notifying, whoever raised flags in
\* between.  That a flag is notified of only once does not hold.
AllNotified == checker = "idle" /\ \A c \in Conn : ~Flagging(c) /\ ~ChainFlagging(c)

FlagsTold == cs.known /\ ~clearRaced /\ AllNotified => told = 1..cs.flags

\* A student who goes offline is flagged once, not at every turn of the
\* heartbeat checker: each offline flag, and the one still to come, has a
\* login of its own, across concurrent logins, clears and restarts.
OfflineOncePerLogin ==
    offlines + (IF cs.known /\ cs.online THEN 1 ELSE 0) <= logins

\* Stored flags are not lost: as long as saves do not overlap, the database
\* goes back to fewer flags only in a new era, that is by a clear or by the
\* first login after a restart, or by the reset of a clear without a state.
StoredFlagsKept ==
    [][\/ saveSpoiled'
       \/ clearer = "reset"
       \/ stats'.era > stats.era
       \/ stats'.era = stats.era /\ stats'.flags >= stats.flags]_vars

\* A student who finished, or whose run was ended while logged in, is never
\* flagged for the silence that follows, whatever the run's status becomes
\* and however often the application connects.
FinishedStaysQuiet == [][spared => offlines' = offlines]_vars

\* A student whose last connection ended does not look online for ever.
GoneGoesOffline ==
    (cs.online /\ ~cs.finished /\ \A c \in Conn : ~sid[c]) ~>
        (~cs.online \/ cs.finished \/ \E c \in Conn : sid[c])

-----------------------------------------------------------------------------
(* What a message, a comment or the form says, and what does not hold (README.md). *)

\* "student disconnected ..., heartbeat checker will flag"
\* (wshandler.go:121): a student whose connection ended while the run goes on
\* is flagged, unless a login, the end of the exam or a restart comes first.
DisconnectFlagged == owed ~> ~owed

\* "exam has ended" (wshandler.go:226): no login outlives the end of the run;
\* once the run is finished and its clients are notified, every logged-in
\* client is marked finished.
NoLoginAfterEnd ==
    status = "finished" /\ teacher # "ended" /\ expiry # "ended" =>
        \A c \in Conn : cheating[c] => fin[c]

\* "you have already finished this exam" (wshandler.go:237): no student whose
\* student_finished event is stored logs in.
FinishIsFinal == [][finishedEvent => logins' = logins]_vars
=============================================================================
