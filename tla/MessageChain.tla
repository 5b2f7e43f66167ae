---------------------------- MODULE MessageChain ----------------------------
(***************************************************************************)
(* The message chain between the student application (exam_app) and the    *)
(* backend.  Every frame the application sends carries a sequence number   *)
(* and the hash of the frame before it; the backend checks both on every   *)
(* frame of a logged-in connection, and flags the student when they do not *)
(* match.                                                                  *)
(*                                                                         *)
(* One student, whose application reconnects whenever its WebSocket ends.  *)
(* On the backend each connection has a goroutine of its own, and an old   *)
(* connection may still be served while the application is already on the  *)
(* next one: all of them share the student's one CheatingState, here the   *)
(* variables expectedSeq and lastMsgHash and the flags in alarms.          *)
(***************************************************************************)
EXTENDS Integers, Sequences

CONSTANTS
    MaxConn,    \* bound: connections the application opens
    MaxFrames,  \* bound: frames it sends on one connection
    MaxFaults   \* bound: MaxFaults[c] frames of c the path loses or forges

Conn == 1..MaxConn

ASSUME BoundsAssumption ==
    /\ MaxConn \in Nat
    /\ MaxFrames \in Nat
    /\ MaxFaults \in [Conn -> Nat]

VARIABLES
    \* the application
    appState,   \* "idle", "connecting", "open": where websocket_thread is
    conn,       \* the connection it is on, 0 before the first
    connected,  \* g_ws_connected
    loginDue,   \* on_ws_open has set connected and not yet sent the login
    seq,        \* g_ws_seq
    prevHash,   \* g_ws_prev_hash
    \* the path
    link,       \* link[c]: "none", "up", "cut"
    sent,       \* sent[c]: the frames put on connection c, in order
    pos,        \* pos[c]: how many of them have left the path
    \* the backend
    at,         \* at[c]: where the goroutine of connection c is
    sid,        \* sid[c]: the client is in clients with this StudentID
    had,        \* had[c]: hadCheating, for the frame in progress
    cur,        \* cur[c]: the login in progress, NoFrame when there is none
    expectedSeq,
    lastMsgHash,
    alarms,     \* alarms[c]: chain flags raised by frames of connection c
    \* what has happened, for the properties only
    faults,     \* faults[c]: what the path has done to the frames of c
    taken,      \* taken[c]: frames of c handled from its login on
    overlapped  \* two connections have been logging in or logged in at once

appVars == <<appState, conn, connected, loginDue, seq, prevHash>>
pathVars == <<link, sent, pos>>
goVars == <<at, sid, had, cur>>
chainVars == <<expectedSeq, lastMsgHash, alarms>>
vars == <<appVars, pathVars, goVars, chainVars, faults, taken, overlapped>>

-----------------------------------------------------------------------------
(* Frames.  A payload holds a message id of its own, so no two frames have *)
(* the same bytes and a hash stands for the frame it was computed from.    *)
(* mark is 0 for a frame as the application sent it, and k for the k-th    *)
(* one somebody on the path has made up for that connection.               *)

Hash == [conn : 0..MaxConn, seq : Int, mark : Nat]
NoHash == [conn |-> 0, seq |-> 0, mark |-> 0]

Frame == [conn : Conn, seq : Int, prev : Hash,
          kind : {"login", "event"}, mark : Nat]
NoFrame == [conn |-> 0, seq |-> 0, prev |-> NoHash,
            kind |-> "event", mark |-> 0]

computeHash(f) == [conn |-> f.conn, seq |-> f.seq, mark |-> f.mark]

Places == {"none", "anon", "login", "checked", "bound", "member",
           "leaving", "closed"}

TypeOK ==
    /\ appState \in {"idle", "connecting", "open"}
    /\ conn \in 0..MaxConn
    /\ connected \in BOOLEAN
    /\ loginDue \in BOOLEAN
    /\ seq \in Nat
    /\ prevHash \in Hash
    /\ link \in [Conn -> {"none", "up", "cut"}]
    /\ sent \in [Conn -> Seq(Frame)]
    /\ pos \in [Conn -> Nat]
    /\ at \in [Conn -> Places]
    /\ sid \in [Conn -> BOOLEAN]
    /\ had \in [Conn -> BOOLEAN]
    /\ cur \in [Conn -> Frame \union {NoFrame}]
    /\ expectedSeq \in Int
    /\ lastMsgHash \in Hash
    /\ alarms \in [Conn -> Nat]
    /\ faults \in [Conn -> Nat]
    /\ taken \in [Conn -> Seq(Frame)]
    /\ overlapped \in BOOLEAN

Init ==
    /\ appState = "idle"
    /\ conn = 0
    /\ connected = FALSE
    /\ loginDue = FALSE
    /\ seq = 0
    /\ prevHash = NoHash
    /\ link = [c \in Conn |-> "none"]
    /\ sent = [c \in Conn |-> <<>>]
    /\ pos = [c \in Conn |-> 0]
    /\ at = [c \in Conn |-> "none"]
    /\ sid = [c \in Conn |-> FALSE]
    /\ had = [c \in Conn |-> FALSE]
    /\ cur = [c \in Conn |-> NoFrame]
    /\ expectedSeq = 0
    /\ lastMsgHash = NoHash
    /\ alarms = [c \in Conn |-> 0]
    /\ faults = [c \in Conn |-> 0]
    /\ taken = [c \in Conn |-> <<>>]
    /\ overlapped = FALSE

-----------------------------------------------------------------------------
(* The application: websocket_thread and the threads that send events.     *)

\* The top of websocket_thread's loop: the chain restarts, a new client
\* dials, and the backend upgrades the connection and adds a client for it.
Dial ==
    /\ appState = "idle"
    /\ conn < MaxConn
    /\ appState' = "connecting"
    /\ conn' = conn + 1
    /\ connected' = FALSE
    /\ seq' = 0
    /\ prevHash' = NoHash
    /\ link' = [link EXCEPT ![conn + 1] = "up"]
    /\ at' = [at EXCEPT ![conn + 1] = "anon"]
    /\ UNCHANGED <<loginDue, sent, pos, sid, had, cur, chainVars,
                   faults, taken, overlapped>>

\* on_ws_open, up to the release of g_ws_mutex: from here on every thread
\* of the application can send, the login is sent by a later call.
OnOpen ==
    /\ appState = "connecting"
    /\ link[conn] = "up"
    /\ appState' = "open"
    /\ connected' = TRUE
    /\ loginDue' = TRUE
    /\ UNCHANGED <<conn, seq, prevHash, pathVars, goVars, chainVars,
                   faults, taken, overlapped>>

\* ws_send, under g_ws_mutex.  The counter and the hash advance before the
\* frame is handed over; on a connection that has ended the frame goes
\* nowhere, and the library may or may not throw, which clears connected.
ws_send(kind) ==
    LET f == [conn |-> conn, seq |-> seq, prev |-> prevHash,
              kind |-> kind, mark |-> 0]
    IN  /\ connected
        /\ seq < MaxFrames
        /\ seq' = seq + 1
        /\ prevHash' = computeHash(f)
        /\ \/ /\ link[conn] = "up"
              /\ sent' = [sent EXCEPT ![conn] = Append(@, f)]
              /\ UNCHANGED connected
           \/ /\ link[conn] = "cut"
              /\ connected' \in BOOLEAN
              /\ UNCHANGED sent
        /\ UNCHANGED <<appState, conn, link, pos, goVars, chainVars,
                       faults, taken, overlapped>>

\* The rest of on_ws_open: the login, skipped when connected is clear.
SendLogin ==
    /\ loginDue
    /\ loginDue' = FALSE
    /\ \/ ws_send("login")
       \/ /\ ~connected
          /\ UNCHANGED <<appState, conn, connected, seq, prevHash, pathVars,
                         goVars, chainVars, faults, taken, overlapped>>

\* Any monitor thread (heartbeat, clipboard, USB, firewall, network).
SendEvent ==
    /\ ws_send("event")
    /\ UNCHANGED loginDue

\* on_ws_close or on_ws_fail, after which run() returns.  The handlers run
\* on one thread, so on_ws_open has finished.
OnClose ==
    /\ appState # "idle"
    /\ link[conn] = "cut"
    /\ ~loginDue
    /\ appState' = "idle"
    /\ connected' = FALSE
    /\ UNCHANGED <<conn, loginDue, seq, prevHash, pathVars, goVars,
                   chainVars, faults, taken, overlapped>>

\* The connection ends; what is still on the path may or may not be read.
DropLink(c) ==
    /\ link[c] = "up"
    /\ link' = [link EXCEPT ![c] = "cut"]
    /\ UNCHANGED <<appVars, sent, pos, goVars, chainVars, faults, taken,
                   overlapped>>

-----------------------------------------------------------------------------
(* The backend: one goroutine of handleWebSocket per connection.           *)

\* Mutated forms of VerifyChain: the hash is never compared; the frame
\* is kept, not its hash.
VerifyChainSeqOnly(c, f) ==
    /\ alarms' = [alarms EXCEPT ![c] = @ + (IF f.seq # expectedSeq THEN 1 ELSE 0)]
    /\ expectedSeq' = f.seq + 1
    /\ lastMsgHash' = computeHash(f)

VerifyChainKeepsFrame(c, f) ==
    /\ alarms' = [alarms EXCEPT ![c] = @ + (IF f.seq # expectedSeq THEN 1 ELSE 0)]
    /\ expectedSeq' = f.seq + 1
    /\ lastMsgHash' = f

\* VerifyChain: at most one flag for the number and one for the hash, and
\* the state always follows the frame just read.
VerifyChain(c, f) ==
    LET badSeq == f.seq # expectedSeq
        badHash == expectedSeq > 0 /\ f.prev # lastMsgHash
    IN  /\ alarms' = [alarms EXCEPT
               ![c] = @ + (IF badSeq THEN 1 ELSE 0) + (IF badHash THEN 1 ELSE 0)]
        /\ expectedSeq' = f.seq + 1
        /\ lastMsgHash' = computeHash(f)

\* One turn of the read loop with frame f: the chain is checked when the
\* client is logged in, then the method is dispatched.  An event changes
\* nothing of the chain; a login goes on in LoginRefused or LoginCheck.
Handle(c, f) ==
    /\ at[c] \in {"anon", "member"}
    /\ had' = [had EXCEPT ![c] = at[c] = "member"]
    /\ cur' = [cur EXCEPT ![c] = IF f.kind = "login" THEN f ELSE NoFrame]
    /\ IF at[c] = "member"
          THEN /\ VerifyChain(c, f)
               /\ taken' = [taken EXCEPT ![c] = Append(@, f)]
          ELSE UNCHANGED <<chainVars, taken>>
    /\ at' = [at EXCEPT ![c] = IF f.kind = "login" THEN "login" ELSE @]
    /\ UNCHANGED <<appVars, link, sent, sid, overlapped>>

OnPath(c) == at[c] \in {"anon", "member"} /\ pos[c] < Len(sent[c])

\* The frame arrives as it was sent.
Receive(c) ==
    /\ OnPath(c)
    /\ Handle(c, sent[c][pos[c] + 1])
    /\ pos' = [pos EXCEPT ![c] = @ + 1]
    /\ UNCHANGED faults

Fault(c) ==
    /\ faults[c] < MaxFaults[c]
    /\ faults' = [faults EXCEPT ![c] = @ + 1]

\* The path loses a frame, or makes it unreadable: the read loop goes on.
Lose(c) ==
    /\ OnPath(c)
    /\ Fault(c)
    /\ pos' = [pos EXCEPT ![c] = @ + 1]
    /\ UNCHANGED <<appVars, link, sent, goVars, chainVars, taken, overlapped>>

\* What a proxy can put on connection c.  It reads everything (the application
\* verifies no certificate) and the hash has no key: it makes up a payload with
\* any seq and any prev_hash, the right one included (before the login nobody
\* looks at it), or repeats what was sent.
Forged(c) ==
    [conn : {c}, seq : -1..MaxFrames,
     prev : {NoHash} \cup (IF at[c] = "member" THEN {lastMsgHash} ELSE {}),
     kind : {"login", "event"}, mark : {faults[c] + 1}]
    \cup {sent[c][i] : i \in 1..Len(sent[c])}

\* A frame the application did not send there and then is delivered ...
Insert(c) ==
    /\ Fault(c)
    /\ \E f \in Forged(c) : Handle(c, f)
    /\ UNCHANGED pos

\* ... or delivered in place of the one that is on the path.
Replace(c) ==
    /\ OnPath(c)
    /\ Fault(c)
    /\ \E f \in Forged(c) : Handle(c, f)
    /\ pos' = [pos EXCEPT ![c] = @ + 1]

\* wsLogin answers an error: the student or the run does not admit a login,
\* or another client of the student is connected.
LoginRefused(c) ==
    /\ at[c] = "login"
    /\ at' = [at EXCEPT ![c] = IF had[c] THEN "member" ELSE "anon"]
    /\ cur' = [cur EXCEPT ![c] = NoFrame]
    /\ UNCHANGED <<appVars, pathVars, sid, had, chainVars, faults, taken,
                   overlapped>>

InSession(c) == at[c] = "checked" \/ sid[c]

\* wsLogin up to clientsMu.RUnlock: no other client has the StudentID.
LoginCheck(c) ==
    /\ at[c] = "login"
    /\ \A d \in Conn \ {c} : ~sid[d]
    /\ at' = [at EXCEPT ![c] = "checked"]
    /\ overlapped' = (overlapped \/ \E d \in Conn \ {c} : InSession(d))
    /\ UNCHANGED <<appVars, pathVars, sid, had, cur, chainVars, faults, taken>>

\* Mutated: the login starts a new CheatingState, without the flags so far.
LoginBindAnew(c) ==
    /\ at[c] = "checked"
    /\ sid' = [sid EXCEPT ![c] = TRUE]
    /\ expectedSeq' = 0
    /\ lastMsgHash' = NoHash
    /\ alarms' = [alarms EXCEPT ![c] = 0]
    /\ at' = [at EXCEPT ![c] = IF had[c] THEN "member" ELSE "bound"]
    /\ cur' = [cur EXCEPT ![c] = IF had[c] THEN NoFrame ELSE @]
    /\ UNCHANGED <<appVars, pathVars, had, faults, taken, overlapped>>

\* The rest of wsLogin: the client takes the StudentID and the shared
\* CheatingState, whose chain is reset.
LoginBind(c) ==
    /\ at[c] = "checked"
    /\ sid' = [sid EXCEPT ![c] = TRUE]
    /\ expectedSeq' = 0
    /\ lastMsgHash' = NoHash
    /\ at' = [at EXCEPT ![c] = IF had[c] THEN "member" ELSE "bound"]
    /\ cur' = [cur EXCEPT ![c] = IF had[c] THEN NoFrame ELSE @]
    /\ UNCHANGED <<appVars, pathVars, had, alarms, faults, taken,
                   overlapped>>

\* Mutated: off by one.
FixUpLate(c) ==
    /\ at[c] = "bound"
    /\ expectedSeq' = cur[c].seq
    /\ lastMsgHash' = computeHash(cur[c])
    /\ taken' = [taken EXCEPT ![c] = <<cur[c]>>]
    /\ at' = [at EXCEPT ![c] = "member"]
    /\ cur' = [cur EXCEPT ![c] = NoFrame]
    /\ UNCHANGED <<appVars, pathVars, sid, had, alarms, faults, overlapped>>

\* Back in the read loop: the chain starts at the login just handled.
FixUp(c) ==
    /\ at[c] = "bound"
    /\ expectedSeq' = cur[c].seq + 1
    /\ lastMsgHash' = computeHash(cur[c])
    /\ taken' = [taken EXCEPT ![c] = <<cur[c]>>]
    /\ at' = [at EXCEPT ![c] = "member"]
    /\ cur' = [cur EXCEPT ![c] = NoFrame]
    /\ UNCHANGED <<appVars, pathVars, sid, had, alarms, faults, overlapped>>

\* ReadMessage fails: the loop ends, the client is still in clients.
ReadError(c) ==
    /\ at[c] \in {"anon", "member"}
    /\ link[c] = "cut"
    /\ at' = [at EXCEPT ![c] = "leaving"]
    /\ UNCHANGED <<appVars, pathVars, sid, had, cur, chainVars, faults, taken,
                   overlapped>>

\* Mutated: the client stays in clients.
RemoveClientForgotten(c) ==
    /\ at[c] = "leaving"
    /\ at' = [at EXCEPT ![c] = "closed"]
    /\ UNCHANGED <<appVars, pathVars, sid, had, cur, chainVars, faults, taken,
                   overlapped>>

\* The deferred removeClient.
RemoveClient(c) ==
    /\ at[c] = "leaving"
    /\ at' = [at EXCEPT ![c] = "closed"]
    /\ sid' = [sid EXCEPT ![c] = FALSE]
    /\ UNCHANGED <<appVars, pathVars, had, cur, chainVars, faults, taken,
                   overlapped>>

App == Dial \/ OnOpen \/ SendLogin \/ SendEvent \/ OnClose

Server(c) ==
    \/ Receive(c) \/ LoginRefused(c) \/ LoginCheck(c) \/ LoginBind(c)
    \/ FixUp(c) \/ ReadError(c) \/ RemoveClient(c)

Path(c) == DropLink(c) \/ Lose(c) \/ Insert(c) \/ Replace(c)

Next == App \/ \E c \in Conn : Server(c) \/ Path(c)

Spec == Init /\ [][Next]_vars

\* The goroutines and the application's own thread keep running; reads of an
\* ended connection fail sooner or later.  Nothing is promised of the path,
\* of the monitor threads or of a new dial.
Fairness ==
    /\ WF_vars(SendLogin)
    /\ \A c \in Conn : WF_vars(Server(c))

FairSpec == Spec /\ Fairness

-----------------------------------------------------------------------------
(* Properties.                                                             *)

\* Flags are owed to the path: as long as the student's connections do not
\* overlap on the backend, each frame the path loses, inserts or replaces on a
\* connection raises at most four chain flags there (two for the frame, two for
\* the one after it: VerifyChain resynchronises on every frame), and a connection
\* it leaves alone raises none, however often the application reconnects and
\* whatever was still being read from the connection before.
AlarmsBounded ==
    ~overlapped => \A c \in Conn : alarms[c] <= 4 * faults[c]

\* A frame that arrives as it was sent vouches for the frame before it: while a
\* connection has no chain flag (and no overlap), it was handled right after the
\* frame the application sent right before it.  Whoever loses, inserts or rewrites
\* a frame unflagged must go on and rewrite every later frame of the connection.
TamperEvident ==
    ~overlapped => \A c \in Conn : alarms[c] = 0 =>
        \A i \in 2..Len(taken[c]), k \in 2..Len(sent[c]) :
            taken[c][i] = sent[c][k] => taken[c][i - 1] = sent[c][k - 1]

\* Over time the chain is a transcript: what the backend has heard on a connection
\* grows by the frame sent next, or by one that somebody on the path has put there,
\* and ends for good with the first flag, for which there was a reason: somebody has
\* interfered with that connection, or two sessions of the student overlapped, after
\* which nothing heard counts.
Spoiled == IF overlapped THEN Conn ELSE {c \in Conn : faults[c] > 0}
Flagged == IF overlapped THEN Conn ELSE {c \in Conn : alarms[c] > 0}
Heard == [c \in Conn |-> IF c \in Flagged THEN <<>> ELSE taken[c]]

Chain == INSTANCE Transcript WITH heard <- Heard, spoiled <- Spoiled, flagged <- Flagged
TranscriptSpec == Chain!Spec

\* Two clients of one student are never logged in at once: "student already
\* connected from another session" (wshandler.go:247).  The check is made
\* under clientsMu and the StudentID is set after it is released.
AtMostOneSession ==
    \A c, d \in Conn : sid[c] /\ sid[d] => c = d

\* A session whose connection has ended is given up: the StudentID does not
\* stay in clients, where it would refuse the login of the reconnected
\* application for ever.
DeadSessionReleased ==
    \A c \in Conn : (sid[c] /\ link[c] = "cut") ~> ~sid[c]
=============================================================================
