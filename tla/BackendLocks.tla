--------------------------- MODULE BackendLocks ---------------------------
(***************************************************************************)
(* The locks of the backend and what its goroutines wait for.              *)
(*                                                                         *)
(* Notices to teachers and students are written to their sockets while     *)
(* clientsMu is held for reading, and a write waits for a client that does *)
(* not read.  A goroutine is modelled by what it has still to do: locks to *)
(* take and release in the order of the code, writes, and changes of the   *)
(* map clients.  The locks are those of Go's package sync: a waiting       *)
(* writer keeps later readers out, and its Unlock lets them all in.        *)
(***************************************************************************)
EXTENDS Naturals, Sequences, FiniteSets

CONSTANTS
    Sessions,   \* connections, each opened again after it is closed
    Teachers,   \* those that log in as a teacher; the others are exam applications
    People,     \* registered students
    Person,     \* whose application a session is
    Asks,       \* bound: what students do once they are logged in, of AllAsks
    Room,       \* messages that fit in the buffers of a socket
    Daemons,    \* goroutines beside the sessions
    Duties,     \* what these do: "heartbeat", "run_end", "clear"; each any of it, one after the other
    None

ASSUME SessionsAssumption ==
    Teachers \subseteq Sessions /\ Person \in [Sessions \ Teachers -> People]
AllAsks == {"login", "event", "flags"}
ASSUME RoomAssumption == Room \in Nat \ {0}
ASSUME NoneAssumption == None \notin Sessions \cup Daemons

VARIABLES
    todo,       \* goroutine -> the instructions it has not finished
    readers,    \* lock -> goroutines that hold it for reading
    writer,     \* lock -> the goroutine that holds it for writing, or None
    pending,    \* lock -> the writer that waits for its readers, or None
    waiting,    \* lock -> readers that wait for its writer
    clients,    \* sessions in the map clients
    loggedIn,   \* sessions whose Role and ids are set
    link,       \* session -> "off", "up", or "broken" and not yet noticed
    room        \* session -> messages that still fit; a client that does not read leaves none

lockVars == <<readers, writer, pending, waiting>>
sessionVars == <<clients, loggedIn, link, room>>
vars == <<todo, lockVars, sessionVars>>

-----------------------------------------------------------------------------
Goroutines == Sessions \cup Daemons

ClientsMu == <<"clientsMu">>
CheatingMu == <<"cheatingMu">>
SendMu(c) == <<"send", c>>
StateMu(p) == <<"state", p>>
Locks == {ClientsMu, CheatingMu} \cup {SendMu(c) : c \in Sessions} \cup {StateMu(p) : p \in People}

Instruction(do, on) == <<[do |-> do, on |-> on]>>
RLock(l) == Instruction("rlock", l)
RUnlock(l) == Instruction("runlock", l)
Lock(l) == Instruction("lock", l)
Unlock(l) == Instruction("unlock", l)

\* Code under a lock that takes no other and writes to no socket.
Section(l) == Lock(l) \o Unlock(l)

\* Mutant: after the write the mutex is kept.
SendToKept(c) == Lock(SendMu(c)) \o Instruction("write", c)

SendTo(c) == Lock(SendMu(c)) \o Instruction("write", c) \o Unlock(SendMu(c))

\* notifyTeachers, notifyTeachersStatus, broadcastStudentStatus.
NotifyTeachers == RLock(ClientsMu) \o Instruction("range", "teachers") \o RUnlock(ClientsMu)

NotifyTeachersFlag(p) ==
    RLock(CheatingMu) \o Section(StateMu(p)) \o RUnlock(CheatingMu) \o NotifyTeachers

NotifyRunEnded == RLock(ClientsMu) \o Instruction("range", "run") \o RUnlock(ClientsMu)

\* What a visit of the loop over clients does with c.
Visit(c, whom) ==
    IF c \in loggedIn
    THEN SendTo(c) \o (IF whom = "run" /\ c \notin Teachers THEN Section(StateMu(Person[c])) ELSE <<>>)
    ELSE <<>>

Init ==
    /\ todo = [g \in Goroutines |-> <<>>]
    /\ readers = [l \in Locks |-> {}] /\ waiting = [l \in Locks |-> {}]
    /\ writer = [l \in Locks |-> None] /\ pending = [l \in Locks |-> None]
    /\ clients = {} /\ loggedIn = {}
    /\ link = [c \in Sessions |-> "off"]
    /\ room = [c \in Sessions |-> Room]

Instructions ==
    [do : {"rlock", "runlock", "lock", "unlock"}, on : Locks]
        \cup [do : {"write", "add", "remove", "close", "find", "login"}, on : Sessions]
        \cup [do : {"range"}, on : {"teachers", "run"}]
        \cup [do : {"teachers", "run"}, on : SUBSET Sessions]

TypeOK ==
    /\ todo \in [Goroutines -> Seq(Instructions)]
    /\ readers \in [Locks -> SUBSET Goroutines] /\ waiting \in [Locks -> SUBSET Goroutines]
    /\ writer \in [Locks -> Goroutines \cup {None}] /\ pending \in [Locks -> Goroutines \cup {None}]
    /\ clients \subseteq Sessions /\ loggedIn \subseteq Sessions
    /\ link \in [Sessions -> {"off", "up", "broken"}]
    /\ room \in [Sessions -> 0 .. Room]

-----------------------------------------------------------------------------
(* Instructions.                                                           *)

Next1(g, do) == todo[g] # <<>> /\ Head(todo[g]).do = do
On(g) == Head(todo[g]).on
Rest(g) == todo' = [todo EXCEPT ![g] = Tail(@)]
Instead(g, script) == todo' = [todo EXCEPT ![g] = script \o Tail(@)]

Free(l) == writer[l] = None /\ pending[l] = None

StepRLock(g) ==
    /\ Next1(g, "rlock")
    /\ LET l == On(g)
       IN  \/ /\ Free(l)
              /\ readers' = [readers EXCEPT ![l] = @ \cup {g}]
              /\ Rest(g) /\ UNCHANGED waiting
           \/ /\ ~Free(l) /\ g \notin waiting[l]
              /\ waiting' = [waiting EXCEPT ![l] = @ \cup {g}]
              /\ UNCHANGED <<readers, todo>>
    /\ UNCHANGED <<writer, pending, sessionVars>>

StepRUnlock(g) ==
    /\ Next1(g, "runlock")
    /\ readers' = [readers EXCEPT ![On(g)] = @ \ {g}]
    /\ Rest(g)
    /\ UNCHANGED <<writer, pending, waiting, sessionVars>>

StepLock(g) ==
    /\ Next1(g, "lock")
    /\ LET l == On(g)
       IN  \/ /\ readers[l] = {} /\ (Free(l) \/ (writer[l] = None /\ pending[l] = g))
              /\ writer' = [writer EXCEPT ![l] = g] /\ pending' = [pending EXCEPT ![l] = None]
              /\ Rest(g)
           \/ /\ readers[l] # {} /\ Free(l)
              /\ pending' = [pending EXCEPT ![l] = g]
              /\ UNCHANGED <<writer, todo>>
    /\ UNCHANGED <<readers, waiting, sessionVars>>

\* The readers that waited have the lock now.
StepUnlock(g) ==
    /\ Next1(g, "unlock")
    /\ LET l == On(g)
       IN  /\ writer' = [writer EXCEPT ![l] = None]
           /\ readers' = [readers EXCEPT ![l] = waiting[l]]
           /\ waiting' = [waiting EXCEPT ![l] = {}]
           /\ todo' = [h \in Goroutines |-> IF h = g \/ h \in waiting[l] THEN Tail(todo[h]) ELSE todo[h]]
    /\ UNCHANGED <<pending, sessionVars>>

\* Mutant: the buffers of a socket have no end.
StepWriteUnbounded(g) ==
    /\ Next1(g, "write")
    /\ room' = [room EXCEPT ![On(g)] = @ - 1]
    /\ Rest(g)
    /\ UNCHANGED <<lockVars, clients, loggedIn, link>>

\* WriteJSON waits for room in the buffers; on a broken connection it fails.
StepWrite(g) ==
    /\ Next1(g, "write")
    /\ LET c == On(g)
       IN  \/ link[c] = "up" /\ room[c] > 0 /\ room' = [room EXCEPT ![c] = @ - 1]
           \/ link[c] # "up" /\ UNCHANGED room
    /\ Rest(g)
    /\ UNCHANGED <<lockVars, clients, loggedIn, link>>

\* The clients a loop does something with; the others it passes without effect.
Visited(whom) == IF whom = "teachers" THEN clients \cap Teachers ELSE clients

\* for c := range clients
StepRange(g) ==
    /\ \/ Next1(g, "range") /\ Instead(g, Instruction(On(g), Visited(On(g))))
       \/ /\ Next1(g, "teachers") \/ Next1(g, "run")
          /\ \/ On(g) = {} /\ Rest(g)
             \/ \E c \in On(g) :
                    Instead(g, Visit(c, Head(todo[g]).do) \o Instruction(Head(todo[g]).do, On(g) \ {c}))
    /\ UNCHANGED <<lockVars, sessionVars>>

-----------------------------------------------------------------------------
(* Sessions: handleWebSocket and the methods it calls.                     *)

\* wsLogin up to the search for other sessions of the student.
FindOthers(c) == RLock(ClientsMu) \o Instruction("find", c)

\* Mutant: a refused login returns with clientsMu held.
RefusedLocked(c) == SendTo(c)

\* "student already connected from another session"
Refused(c) == RUnlock(ClientsMu) \o SendTo(c)

\* The rest of wsLogin and of the iteration that called it, which starts the chain after
\* the first login.
Accepted(c) ==
    RUnlock(ClientsMu) \o Instruction("login", c) \o Section(CheatingMu) \o Section(StateMu(Person[c]))
        \o NotifyTeachers \o SendTo(c)
        \o (IF c \in loggedIn THEN <<>> ELSE Section(StateMu(Person[c])))

StepFind(c) ==
    /\ Next1(c, "find")
    /\ IF \E d \in clients \ {c} : d \in loggedIn \ Teachers /\ Person[d] = Person[c]
       THEN Instead(c, Refused(c))
       ELSE Instead(c, Accepted(c))
    /\ UNCHANGED <<lockVars, sessionVars>>

StepLogin(c) ==
    /\ Next1(c, "login")
    /\ loggedIn' = loggedIn \cup {c}
    /\ Rest(c)
    /\ UNCHANGED <<lockVars, clients, link, room>>

StepAdd(c) ==
    /\ Next1(c, "add")
    /\ clients' = clients \cup {c}
    /\ Rest(c)
    /\ UNCHANGED <<lockVars, loggedIn, link, room>>

StepRemove(c) ==
    /\ Next1(c, "remove")
    /\ clients' = clients \ {c}
    /\ Rest(c)
    /\ UNCHANGED <<lockVars, loggedIn, link, room>>

StepClose(c) ==
    /\ Next1(c, "close")
    /\ link' = [link EXCEPT ![c] = "off"]
    /\ loggedIn' = loggedIn \ {c}
    /\ Rest(c)
    /\ UNCHANGED <<lockVars, clients, room>>

Connect(c) ==
    /\ link[c] = "off" /\ todo[c] = <<>>
    /\ link' = [link EXCEPT ![c] = "up"]
    /\ room' = [room EXCEPT ![c] = Room]
    /\ todo' = [todo EXCEPT ![c] = Lock(ClientsMu) \o Instruction("add", c) \o Unlock(ClientsMu)]
    /\ UNCHANGED <<lockVars, clients, loggedIn>>

\* A frame of a student who is logged in, from VerifyChain on: refused; an event with
\* nothing to flag; one with a flag, and with two, of the chain or the event; another
\* login.  Sections of one mutex that directly follow each other are one.
Frames(c) ==
    LET check == Section(StateMu(Person[c]))
        flag == check \o NotifyTeachersFlag(Person[c])
        event == check \o NotifyTeachers \o SendTo(c)
    IN  {check \o SendTo(c)}
            \cup {script \in {event} : "event" \in Asks}
            \cup {script \in {flag \o SendTo(c), flag \o event, flag \o flag \o event} : "flags" \in Asks}
            \cup {script \in {check \o FindOthers(c)} : "login" \in Asks}

\* What a client may ask; any request may be refused.
Requests(c) ==
    IF c \in Teachers THEN {SendTo(c), Instruction("login", c) \o SendTo(c)}
    ELSE IF c \in loggedIn THEN Frames(c)
    ELSE {SendTo(c), FindOthers(c)}

Receive(c) ==
    /\ link[c] = "up" /\ todo[c] = <<>>
    /\ \E script \in Requests(c) : todo' = [todo EXCEPT ![c] = script]
    /\ UNCHANGED <<lockVars, sessionVars>>

\* Mutant: the connection is closed before it leaves the map.
LeavingClosed(c) == Instruction("close", c) \o Lock(ClientsMu) \o Instruction("remove", c) \o Unlock(ClientsMu)

\* The deferred calls run in reverse order.
Leaving(c) == Lock(ClientsMu) \o Instruction("remove", c) \o Unlock(ClientsMu) \o Instruction("close", c)

\* ReadMessage fails: "heartbeat checker will flag".
Leave(c) ==
    /\ link[c] = "broken" /\ todo[c] = <<>>
    /\ todo' = [todo EXCEPT ![c] =
                    (IF c \in loggedIn \ Teachers THEN NotifyTeachers ELSE <<>>) \o Leaving(c)]
    /\ UNCHANGED <<lockVars, sessionVars>>

Break(c) ==
    /\ link[c] = "up"
    /\ link' = [link EXCEPT ![c] = "broken"]
    /\ UNCHANGED <<todo, lockVars, clients, loggedIn, room>>

\* The client reads a message.
Drain(c) ==
    /\ link[c] = "up" /\ room[c] < Room
    /\ room' = [room EXCEPT ![c] = @ + 1]
    /\ UNCHANGED <<todo, lockVars, clients, loggedIn, link>>

-----------------------------------------------------------------------------
(* StartHeartbeatChecker; StartExamExpirationChecker, and the request that *)
(* sets a run to finished; handleClearFlags.                               *)

\* Mutant: the state stays locked until its flag is saved and told.
CheckLocked(p) ==
    {Section(StateMu(p)),
     Lock(StateMu(p)) \o Section(StateMu(p)) \o NotifyTeachersFlag(p) \o NotifyTeachers \o Unlock(StateMu(p))}

\* One state of the loop: fine, or flagged, saved and told.
CheckState(p) ==
    {Section(StateMu(p)),
     Section(StateMu(p)) \o Section(StateMu(p)) \o NotifyTeachersFlag(p) \o NotifyTeachers}

Heartbeat(d) ==
    /\ "heartbeat" \in Duties /\ todo[d] = <<>>
    /\ \E p \in People : \E check \in CheckState(p) :
        todo' = [todo EXCEPT ![d] = RLock(CheatingMu) \o RUnlock(CheatingMu) \o check]
    /\ UNCHANGED <<lockVars, sessionVars>>

RunEnd(d) ==
    /\ "run_end" \in Duties /\ todo[d] = <<>>
    /\ todo' = [todo EXCEPT ![d] = NotifyRunEnded]
    /\ UNCHANGED <<lockVars, sessionVars>>

\* handleClearFlags, for a student with a state or without.
ClearFlags(d) ==
    /\ "clear" \in Duties /\ todo[d] = <<>>
    /\ LET find == RLock(CheatingMu) \o RUnlock(CheatingMu)
       IN  \E script \in {find} \cup {find \o Section(StateMu(p)) \o Section(StateMu(p)) : p \in People} :
            todo' = [todo EXCEPT ![d] = script]
    /\ UNCHANGED <<lockVars, sessionVars>>

-----------------------------------------------------------------------------
Step(g) ==
    \/ StepRLock(g) \/ StepRUnlock(g) \/ StepLock(g) \/ StepUnlock(g)
    \/ StepWrite(g) \/ StepRange(g)
    \/ StepFind(g) \/ StepLogin(g) \/ StepAdd(g) \/ StepRemove(g) \/ StepClose(g)

Next ==
    \/ \E g \in Goroutines : Step(g)
    \/ \E c \in Sessions : Connect(c) \/ Receive(c) \/ Leave(c) \/ Break(c) \/ Drain(c)
    \/ \E d \in Daemons : Heartbeat(d) \/ RunEnd(d) \/ ClearFlags(d)

Spec == Init /\ [][Next]_vars

\* Goroutines run, and Go's mutexes starve nobody.  Nothing makes a client read, and no
\* deadline ends a write that waits for one.
FairSpec == Spec /\ \A g \in Goroutines : SF_vars(Step(g))

-----------------------------------------------------------------------------
(* Properties.                                                             *)

\* The goroutines g has to wait for.
WaitsFor(g) ==
    IF todo[g] = <<>> THEN {}
    ELSE LET l == On(g)
         IN  CASE Head(todo[g]).do = "rlock" /\ ~Free(l) -> {writer[l], pending[l]} \ {None}
               [] Head(todo[g]).do = "lock" /\ pending[l] = g -> readers[l]
               [] Head(todo[g]).do = "lock" /\ pending[l] # g -> (readers[l] \cup {writer[l], pending[l]}) \ {None}
               [] OTHER -> {}

\* Goroutines never wait for each other in a circle: who waits for a lock waits, in the
\* end, for a goroutine that can go on or for a client that does not read.
NoCircularWait ==
    LET waits == [g \in Goroutines |-> WaitsFor(g)]
    IN  \A G \in (SUBSET Goroutines) \ {{}} : \E g \in G : waits[g] \cap G = {}

\* Whichever way a request, a departure or a round of a checker ends, refused or not, it
\* has released every lock it took, when the next one begins.
IdleHoldsNothing ==
    \A g \in Goroutines : todo[g] = <<>> => \A l \in Locks : g \notin readers[l] \cup waiting[l] /\ g # writer[l]

\* No notice is written to a connection that its own goroutine has closed, although
\* notices go through pointers taken from the map.
NoWriteAfterClose == \A g \in Goroutines : Next1(g, "write") => link[On(g)] # "off"

\* No client leaves its buffers full for ever on a connection that is up.
AllRead == \A c \in Sessions : []<>(room[c] > 0 \/ link[c] # "up")

\* A client that stops reading holds up the whole backend, because notices are written
\* with clientsMu held and the next connection or departure waits for it as a writer; but
\* only until it reads again or its connection breaks: whoever queued behind it, on
\* whichever locks, then gets through, every request, departure and round of the checkers.
Finished == AllRead => \A g \in Goroutines : (todo[g] # <<>>) ~> (todo[g] = <<>>)

-----------------------------------------------------------------------------
(* What does not hold (README.md).                                         *)

\* A client that does not read holds up nobody else for ever.
StallIsLocal ==
    \A g \in Goroutines :
        (todo[g] # <<>>) ~> (todo[g] = <<>> \/ (Next1(g, "write") /\ room[On(g)] = 0))
=============================================================================
