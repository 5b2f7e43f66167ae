------------------------- MODULE MessageChainProofs -------------------------
(* Proofs about MessageChain, for every number of connections, frames and  *)
(* faults: types, the flags that are owed, what an unflagged connection     *)
(* shows, and the implementation of Transcript.                             *)
EXTENDS MessageChain, TLAPS

-----------------------------------------------------------------------------
(* The inductive invariant, in named parts.                                *)

\* The type invariant, with what it needs to be inductive: only an opened
\* connection can send, and a goroutine in wsLogin has a frame in progress.
TypeInv ==
    /\ TypeOK
    /\ connected \/ loginDue \/ appState # "idle" => conn > 0
    /\ \A c \in Conn :
           /\ pos[c] <= Len(sent[c])
           /\ at[c] \in {"login", "checked", "bound"} => cur[c] \in Frame

\* Where a goroutine is, against its client's StudentID and hadCheating.
PlaceInv ==
    \A c \in Conn :
        /\ at[c] = "none" <=> c > conn
        /\ at[c] \in {"bound", "member"} => sid[c]
        /\ at[c] \in {"none", "anon", "closed"} => ~sid[c]
        /\ at[c] \in {"login", "checked"} => (sid[c] <=> had[c])
        /\ at[c] = "bound" => ~had[c]

SessionInv ==
    ~overlapped => \A c, d \in Conn : InSession(c) /\ InSession(d) => c = d

\* The application's counter and hash are those of the last frame it sent.
AppInv ==
    /\ loginDue => appState = "open"
    /\ appState # "open" => ~connected
    /\ appState = "connecting" => seq = 0 /\ prevHash = NoHash /\ sent[conn] = <<>>
    /\ conn > 0 /\ link[conn] = "up" =>
           /\ seq = Len(sent[conn])
           /\ prevHash = IF seq = 0 THEN NoHash ELSE computeHash(sent[conn][seq])
    /\ conn > 0 => link[conn] # "none"
    /\ appState = "idle" /\ conn > 0 => link[conn] = "cut"

\* What has been put on a connection is one unbroken chain.
SentInv ==
    \A c \in Conn :
        /\ c > conn => sent[c] = <<>>
        /\ \A i \in 1..Len(sent[c]) :
               /\ sent[c][i].conn = c
               /\ sent[c][i].seq = i - 1
               /\ sent[c][i].prev =
                      IF i = 1 THEN NoHash ELSE computeHash(sent[c][i - 1])
               /\ sent[c][i].mark = 0

\* The application sends at most one login on a connection.
LoginInv ==
    /\ \A c \in Conn : \A i, j \in 1..Len(sent[c]) :
           sent[c][i].kind = "login" /\ sent[c][j].kind = "login" => i = j
    /\ loginDue => \A i \in 1..Len(sent[conn]) : sent[conn][i].kind # "login"

\* What the chain can tell of a frame read on c: it is one the application
\* sent there, at its own place, unless it bears a mark.
KnownFrame(c, f) ==
    /\ f.conn = c
    /\ f.mark = 0 => f.seq + 1 \in 1..Len(sent[c]) /\ f = sent[c][f.seq + 1]

LoginPassed(c) == \E i \in 1..pos[c] : sent[c][i].kind = "login"

\* The frame a login is about, and the login a member came in by.
CurOf(c) ==
    /\ at[c] \in {"login", "checked", "bound"} =>
           /\ cur[c].kind = "login"
           /\ KnownFrame(c, cur[c])
           /\ faults[c] > 0 \/ (pos[c] > 0 /\ cur[c] = sent[c][pos[c]])
    /\ at[c] = "member" => faults[c] > 0 \/ LoginPassed(c)

NextPrev(c) == IF pos[c] = 0 THEN NoHash ELSE computeHash(sent[c][pos[c]])

\* The flags the next frame of c would raise if it arrived as it was sent.
Debt(c) ==
    (IF pos[c] # expectedSeq THEN 1 ELSE 0)
    + (IF expectedSeq > 0 /\ NextPrev(c) # lastMsgHash THEN 1 ELSE 0)

\* One more is owed for a login still to come: it resets the chain of a member.
Ahead(c) == IF LoginPassed(c) THEN 0 ELSE 1

Relogin(c) == at[c] \in {"login", "checked"} /\ had[c]
Before(c) == \/ at[c] \in {"none", "anon", "bound"}
             \/ at[c] \in {"login", "checked"} /\ ~had[c]

\* The flags raised and those still owed are paid for by the faults.
DebtOf(c) ==
    /\ Before(c) => alarms[c] = 0
    /\ ~overlapped =>
           /\ alarms[c] <= 4 * faults[c]
           /\ at[c] = "member" \/ Relogin(c) =>
                  alarms[c] + Debt(c) + Ahead(c) <= 4 * faults[c]
           /\ Relogin(c) => alarms[c] + 1 + Ahead(c) <= 4 * faults[c]

\* What has been taken is known, and the chain continues it while unflagged.
TakenOf(c) ==
    /\ Before(c) => taken[c] = <<>>
    /\ at[c] = "member" \/ Relogin(c) => taken[c] # <<>>
    /\ \A i \in 1..Len(taken[c]) : KnownFrame(c, taken[c][i])
    /\ ~overlapped /\ (at[c] = "member" \/ Relogin(c)) /\ alarms[c] = 0
           /\ expectedSeq > 0 =>
               lastMsgHash = computeHash(taken[c][Len(taken[c])])

\* TamperEvident for one connection.
GenuineOf(c) ==
    ~overlapped /\ alarms[c] = 0 =>
        \A i \in 2..Len(taken[c]) :
            taken[c][i].mark = 0 /\ taken[c][i].seq > 0 =>
                taken[c][i - 1] = sent[c][taken[c][i].seq]

ConnInv(c) == CurOf(c) /\ DebtOf(c) /\ TakenOf(c) /\ GenuineOf(c)

IInv ==
    /\ TypeInv
    /\ PlaceInv
    /\ SessionInv
    /\ AppInv
    /\ SentInv
    /\ LoginInv
    /\ \A c \in Conn : ConnInv(c)

-----------------------------------------------------------------------------
(* Types.                                                                  *)

LEMMA HashType == ASSUME NEW f \in Frame PROVE computeHash(f) \in Hash
  BY DEF computeHash, Frame, Hash, Conn

LEMMA FirstHashType == NoHash \in Hash
  BY BoundsAssumption DEF NoHash, Hash

LEMMA FrameOnPath ==
  ASSUME TypeInv, NEW c \in Conn, NEW i \in 1..Len(sent[c])
  PROVE  sent[c][i] \in Frame
  BY DEF TypeInv, TypeOK

\* Whatever a proxy makes up is a frame.
LEMMA ForgedType ==
  ASSUME TypeInv, NEW c \in Conn, NEW f \in Forged(c)
  PROVE  f \in Frame
<1>1. CASE f \in {sent[c][i] : i \in 1..Len(sent[c])}
  BY <1>1, FrameOnPath
<1>2. CASE f \in [conn : {c}, seq : -1..MaxFrames,
                 prev : {NoHash} \cup (IF at[c] = "member" THEN {lastMsgHash} ELSE {}),
                 kind : {"login", "event"}, mark : {faults[c] + 1}]
  <2>1. f.prev \in Hash /\ f.mark \in Nat /\ f.seq \in Int
    BY <1>2, FirstHashType, BoundsAssumption DEF TypeInv, TypeOK
  <2>2. f = [conn |-> f.conn, seq |-> f.seq, prev |-> f.prev, kind |-> f.kind,
             mark |-> f.mark] /\ f.conn = c /\ f.kind \in {"login", "event"}
    BY <1>2
  <2> QED
    BY <2>1, <2>2 DEF Frame
<1> QED
  BY <1>1, <1>2 DEF Forged

\* What one turn of the read loop does to the types, whatever frame it reads.
LEMMA HandleType ==
  ASSUME TypeInv, NEW c \in Conn, NEW f \in Frame, Handle(c, f),
         pos' \in [Conn -> Nat], \A d \in Conn : pos'[d] <= Len(sent[d]),
         faults' \in [Conn -> Nat]
  PROVE  TypeInv'
<1>1. appState' = appState /\ conn' = conn /\ connected' = connected
      /\ loginDue' = loginDue /\ seq' = seq /\ prevHash' = prevHash
      /\ link' = link /\ sent' = sent /\ sid' = sid /\ overlapped' = overlapped
  BY DEF Handle, appVars
<1>2. at' \in [Conn -> Places] /\ had' \in [Conn -> BOOLEAN]
  BY DEF TypeInv, TypeOK, Handle, Places
<1>3. cur' \in [Conn -> Frame \union {NoFrame}]
  BY DEF TypeInv, TypeOK, Handle
<1>4. expectedSeq' \in Int /\ lastMsgHash' \in Hash /\ alarms' \in [Conn -> Nat]
  <2>1. CASE at[c] = "member"
    <3>1. VerifyChain(c, f)
      BY <2>1 DEF Handle
    <3>2. f.seq \in Int
      BY DEF Frame
    <3>3. alarms' \in [Conn -> Nat]
      BY <3>1 DEF VerifyChain, TypeInv, TypeOK
    <3>4. QED BY <3>1, <3>2, <3>3, HashType DEF VerifyChain
  <2>2. CASE at[c] # "member"
    BY <2>2 DEF Handle, chainVars, TypeInv, TypeOK
  <2>3. QED BY <2>1, <2>2
<1>5. taken' \in [Conn -> Seq(Frame)]
  <2>1. CASE at[c] = "member"
    <3>1. Append(taken[c], f) \in Seq(Frame)
      BY DEF TypeInv, TypeOK
    <3>2. QED BY <2>1, <3>1 DEF Handle, TypeInv, TypeOK
  <2>2. CASE at[c] # "member"
    BY <2>2 DEF Handle, TypeInv, TypeOK
  <2>3. QED BY <2>1, <2>2
<1>6. ASSUME NEW d \in Conn, at'[d] \in {"login", "checked", "bound"}
      PROVE  cur'[d] \in Frame
  <2>1. CASE d = c
    <3>1. at'[c] = (IF f.kind = "login" THEN "login" ELSE at[c])
      BY DEF Handle, TypeInv, TypeOK
    <3>2. f.kind = "login"
      BY <1>6, <2>1, <3>1 DEF Handle
    <3>3. QED BY <2>1, <3>2 DEF Handle, TypeInv, TypeOK
  <2>2. CASE d # c
    BY <1>6, <2>2 DEF Handle, TypeInv, TypeOK
  <2>3. QED BY <2>1, <2>2
<1>7. TypeOK'
  BY <1>1, <1>2, <1>3, <1>4, <1>5 DEF TypeInv, TypeOK
<1>8. QED
  BY <1>1, <1>6, <1>7 DEF TypeInv

LEMMA FaultType ==
  ASSUME TypeInv, NEW c \in Conn, Fault(c)
  PROVE  faults' \in [Conn -> Nat] /\ faults'[c] = faults[c] + 1
<1>1. faults \in [Conn -> Nat]
  BY DEF TypeInv, TypeOK
<1>2. faults' = [faults EXCEPT ![c] = @ + 1]
  BY DEF Fault
<1> QED BY <1>1, <1>2

LEMMA InitType == Init => TypeInv
<1> SUFFICES ASSUME Init PROVE TypeInv
  OBVIOUS
<1>1. sent \in [Conn -> Seq(Frame)] /\ taken \in [Conn -> Seq(Frame)]
  BY DEF Init
<1>2. /\ conn \in 0..MaxConn /\ seq \in Nat /\ expectedSeq \in Int
      /\ prevHash \in Hash /\ lastMsgHash \in Hash
  BY BoundsAssumption, FirstHashType DEF Init
<1>3. /\ link \in [Conn -> {"none", "up", "cut"}] /\ at \in [Conn -> Places]
      /\ cur \in [Conn -> Frame \union {NoFrame}]
  BY DEF Init, Places
<1>4. TypeOK
  BY <1>1, <1>2, <1>3 DEF Init, TypeOK
<1>5. QED
  BY <1>4 DEF Init, TypeInv

LEMMA SendType == ASSUME TypeInv, NEW kind \in {"login", "event"},
                         ws_send(kind), loginDue' \in {FALSE, loginDue}
                  PROVE  TypeInv'
<1> DEFINE f == [conn |-> conn, seq |-> seq, prev |-> prevHash,
                 kind |-> kind, mark |-> 0]
<1>1. conn \in Conn /\ f \in Frame
  BY DEF ws_send, TypeInv, TypeOK, Conn, Frame
<1>2. seq' \in Nat /\ prevHash' \in Hash
  BY <1>1, HashType DEF ws_send, TypeInv, TypeOK
<1>3. /\ sent' \in [Conn -> Seq(Frame)]
      /\ \A c \in Conn : Len(sent[c]) <= Len(sent'[c])
  <2>1. CASE sent' = [sent EXCEPT ![conn] = Append(@, f)]
    BY <1>1, <2>1 DEF TypeInv, TypeOK
  <2>2. CASE UNCHANGED sent
    BY <2>2 DEF TypeInv, TypeOK
  <2>3. QED BY <2>1, <2>2 DEF ws_send
<1>4. /\ UNCHANGED <<appState, conn, link, pos, at, sid, had, cur, expectedSeq,
                     lastMsgHash, alarms, faults, taken, overlapped>>
      /\ connected' \in BOOLEAN /\ connected
  BY DEF ws_send, goVars, chainVars, TypeInv, TypeOK
<1>5. TypeOK'
  BY <1>2, <1>3, <1>4 DEF TypeInv, TypeOK
<1>6. \A c \in Conn : pos'[c] <= Len(sent'[c])
  BY <1>3, <1>4 DEF TypeInv, TypeOK
<1>7. QED
  BY <1>1, <1>4, <1>5, <1>6 DEF TypeInv, Conn

LEMMA StepType == TypeInv /\ [Next]_vars => TypeInv'
<1> SUFFICES ASSUME TypeInv, [Next]_vars PROVE TypeInv'
  OBVIOUS
<1> USE BoundsAssumption
<1>1. CASE Dial
  <2>1. conn + 1 \in Conn /\ conn + 1 \in 0..MaxConn /\ conn + 1 > 0
    BY <1>1 DEF Dial, TypeInv, TypeOK, Conn
  <2>2. TypeOK'
    BY <1>1, <2>1, FirstHashType DEF Dial, TypeInv, TypeOK, chainVars, Places
  <2>3. QED
    BY <1>1, <2>1, <2>2 DEF Dial, TypeInv, TypeOK, chainVars
<1>2. CASE OnOpen
  BY <1>2 DEF OnOpen, TypeInv, TypeOK, pathVars, goVars, chainVars
<1>3. CASE SendLogin
  <2>1. CASE ws_send("login")
    BY <1>3, <2>1, SendType DEF SendLogin
  <2>2. CASE ~connected /\ UNCHANGED <<appState, conn, connected, seq, prevHash,
                                       pathVars, goVars, chainVars, faults,
                                       taken, overlapped>>
    BY <1>3, <2>2 DEF SendLogin, TypeInv, TypeOK, pathVars, goVars, chainVars
  <2>3. QED BY <1>3, <2>1, <2>2 DEF SendLogin
<1>4. CASE SendEvent
  BY <1>4, SendType DEF SendEvent
<1>5. CASE OnClose
  BY <1>5 DEF OnClose, TypeInv, TypeOK, pathVars, goVars, chainVars
<1>6. ASSUME NEW c \in Conn, Server(c) \/ Path(c) PROVE TypeInv'
  <2>1. CASE Receive(c)
    <3>1. pos[c] + 1 \in 1..Len(sent[c])
      BY <2>1 DEF Receive, OnPath, TypeInv, TypeOK
    <3>2. sent[c][pos[c] + 1] \in Frame
      BY <3>1, FrameOnPath
    <3>3. pos' \in [Conn -> Nat] /\ \A d \in Conn : pos'[d] <= Len(sent[d])
      BY <2>1, <3>1 DEF Receive, TypeInv, TypeOK
    <3>4. faults' \in [Conn -> Nat] /\ Handle(c, sent[c][pos[c] + 1])
      BY <2>1 DEF Receive, TypeInv, TypeOK
    <3>5. QED BY <3>2, <3>3, <3>4, HandleType
  <2>2. CASE Lose(c)
    BY <2>2 DEF Lose, OnPath, Fault, TypeInv, TypeOK, appVars, goVars, chainVars
  <2>3. CASE Insert(c)
    <3>1. PICK f \in Forged(c) : Handle(c, f)
      BY <2>3 DEF Insert
    <3>2. pos' \in [Conn -> Nat] /\ \A d \in Conn : pos'[d] <= Len(sent[d])
      BY <2>3 DEF Insert, TypeInv, TypeOK
    <3>3. faults' \in [Conn -> Nat]
      BY <2>3, FaultType DEF Insert
    <3>4. QED BY <3>1, <3>2, <3>3, ForgedType, HandleType
  <2>4. CASE Replace(c)
    <3>1. PICK f \in Forged(c) : Handle(c, f)
      BY <2>4 DEF Replace
    <3>2. pos[c] + 1 \in 1..Len(sent[c])
      BY <2>4 DEF Replace, OnPath, TypeInv, TypeOK
    <3>3. pos' \in [Conn -> Nat] /\ \A d \in Conn : pos'[d] <= Len(sent[d])
      BY <2>4, <3>2 DEF Replace, TypeInv, TypeOK
    <3>4. faults' \in [Conn -> Nat]
      BY <2>4, FaultType DEF Replace
    <3>5. QED BY <3>1, <3>3, <3>4, ForgedType, HandleType
  <2>5. CASE LoginRefused(c)
    BY <2>5 DEF LoginRefused, TypeInv, TypeOK, Places, appVars, pathVars, chainVars
  <2>6. CASE LoginCheck(c)
    BY <2>6 DEF LoginCheck, TypeInv, TypeOK, Places, InSession, appVars,
                pathVars, chainVars
  <2>7. CASE LoginBind(c)
    BY <2>7, FirstHashType DEF LoginBind, TypeInv, TypeOK, Places, appVars,
                               pathVars
  <2>8. CASE FixUp(c)
    <3>1. cur[c] \in Frame /\ <<cur[c]>> \in Seq(Frame) /\ cur[c].seq \in Int
      BY <2>8 DEF FixUp, TypeInv, TypeOK, Frame
    <3>2. computeHash(cur[c]) \in Hash
      BY <3>1, HashType
    <3>3. TypeOK'
      <4>1. /\ expectedSeq' \in Int /\ lastMsgHash' \in Hash
            /\ taken' \in [Conn -> Seq(Frame)]
        BY <2>8, <3>1, <3>2 DEF FixUp, TypeInv, TypeOK
      <4>2. /\ at' \in [Conn -> Places]
            /\ cur' \in [Conn -> Frame \cup {NoFrame}]
        BY <2>8 DEF FixUp, TypeInv, TypeOK, Places
      <4> QED
        BY <2>8, <4>1, <4>2 DEF FixUp, TypeInv, TypeOK, appVars, pathVars
    <3>4. QED
      BY <2>8, <3>3 DEF FixUp, TypeInv, TypeOK, appVars, pathVars
  <2>9. CASE ReadError(c)
    BY <2>9 DEF ReadError, TypeInv, TypeOK, Places, appVars, pathVars, chainVars
  <2>10. CASE RemoveClient(c)
    BY <2>10 DEF RemoveClient, TypeInv, TypeOK, Places, appVars, pathVars,
                 chainVars
  <2>11. CASE DropLink(c)
    BY <2>11 DEF DropLink, TypeInv, TypeOK, appVars, goVars, chainVars
  <2>12. QED
    BY <1>6, <2>1, <2>2, <2>3, <2>4, <2>5, <2>6, <2>7, <2>8, <2>9, <2>10, <2>11
    DEF Server, Path
<1>7. CASE UNCHANGED vars
  BY <1>7 DEF vars, appVars, pathVars, goVars, chainVars, TypeInv, TypeOK
<1>8. QED
  BY <1>1, <1>2, <1>3, <1>4, <1>5, <1>6, <1>7 DEF Next, App

\* Every variable keeps its type, whatever the number of connections.
THEOREM TypeCorrect == Spec => []TypeOK
<1>1. TypeInv => TypeOK BY DEF TypeInv
<1>2. QED BY <1>1, InitType, StepType, PTL DEF Spec

-----------------------------------------------------------------------------
(* What the three ways a frame can reach the read loop have in common.     *)

LEMMA Turn ==
  ASSUME TypeInv, SentInv, NEW c \in Conn, Receive(c) \/ Insert(c) \/ Replace(c)
  PROVE  \E f \in Frame, p \in 0..Len(sent[c]) :
            /\ Handle(c, f)
            /\ pos' = [pos EXCEPT ![c] = p]
            /\ p \in {pos[c], pos[c] + 1}
            /\ KnownFrame(c, f)
            /\ \/ p = pos[c] + 1 /\ f = sent[c][p] /\ faults' = faults
               \/ Fault(c)
<1>1. ASSUME NEW i \in 1..Len(sent[c])
      PROVE  sent[c][i] \in Frame /\ KnownFrame(c, sent[c][i])
  <2>1. sent[c][i].conn = c /\ sent[c][i].seq = i - 1
    BY DEF SentInv
  <2>2. i - 1 + 1 = i
    OBVIOUS
  <2> QED BY <2>1, <2>2, FrameOnPath DEF KnownFrame
<1>2. ASSUME NEW f \in Forged(c)
      PROVE  f \in Frame /\ KnownFrame(c, f)
  <2>1. CASE f \in {sent[c][i] : i \in 1..Len(sent[c])}
    BY <1>1, <2>1
  <2>2. CASE f \in [conn : {c}, seq : -1..MaxFrames,
                   prev : {NoHash} \cup (IF at[c] = "member" THEN {lastMsgHash} ELSE {}),
                   kind : {"login", "event"}, mark : {faults[c] + 1}]
    <3>1. f.conn = c /\ f.mark = faults[c] + 1 /\ faults[c] \in Nat
      BY <2>2 DEF TypeInv, TypeOK
    <3>2. f.mark # 0
      BY <3>1
    <3> QED BY <3>1, <3>2, ForgedType DEF KnownFrame
  <2> QED BY <2>1, <2>2 DEF Forged
<1>3. pos[c] \in 0..Len(sent[c]) /\ pos = [pos EXCEPT ![c] = pos[c]]
  BY DEF TypeInv, TypeOK
<1>4. CASE Receive(c)
  <2>1. pos[c] + 1 \in 1..Len(sent[c]) /\ pos[c] + 1 \in 0..Len(sent[c])
    BY <1>4 DEF Receive, OnPath, TypeInv, TypeOK
  <2>2. KnownFrame(c, sent[c][pos[c] + 1]) /\ sent[c][pos[c] + 1] \in Frame
    BY <1>1, <2>1
  <2>3. QED BY <1>4, <2>1, <2>2 DEF Receive
<1>5. CASE Insert(c)
  <2>1. PICK f \in Forged(c) : Handle(c, f)
    BY <1>5 DEF Insert
  <2>2. QED BY <1>2, <1>3, <1>5, <2>1 DEF Insert
<1>6. CASE Replace(c)
  <2>1. PICK f \in Forged(c) : Handle(c, f)
    BY <1>6 DEF Replace
  <2>2. pos[c] + 1 \in 0..Len(sent[c])
    BY <1>6 DEF Replace, OnPath, TypeInv, TypeOK
  <2>3. QED BY <1>2, <1>6, <2>1, <2>2 DEF Replace
<1>7. QED BY <1>4, <1>5, <1>6

\* The backend and the path leave the application and what it sent alone.
LEMMA ServerKeeps ==
  ASSUME NEW c \in Conn, Server(c) \/ Path(c)
  PROVE  UNCHANGED <<appVars, sent>>
  BY DEF Server, Path, Receive, LoginRefused, LoginCheck, LoginBind, FixUp,
         ReadError, RemoveClient, DropLink, Lose, Insert, Replace, Handle,
         pathVars

-----------------------------------------------------------------------------
(* Goroutines and sessions.                                                *)

LEMMA StepPlace ==
  ASSUME TypeInv, PlaceInv, SessionInv, SentInv, [Next]_vars
  PROVE  PlaceInv' /\ SessionInv'
<1> USE DEF PlaceInv, SessionInv, InSession
<1>1. CASE Dial
  <2>1. conn + 1 \in Conn /\ conn \in Int
    BY <1>1, BoundsAssumption DEF Dial, TypeInv, TypeOK, Conn
  <2>2. \A c \in Conn : c > conn' <=> c > conn /\ c # conn + 1
    BY <1>1, <2>1 DEF Dial, Conn
  <2>3. /\ UNCHANGED <<sid, had, overlapped>> /\ at'[conn + 1] = "anon"
        /\ at[conn + 1] = "none" /\ ~sid[conn + 1]
        /\ \A c \in Conn : c # conn + 1 => at'[c] = at[c]
    BY <1>1, <2>1 DEF Dial, TypeInv, TypeOK
  <2>4. PlaceInv'
    BY <2>2, <2>3
  <2>5. SessionInv'
    BY <2>3
  <2>6. QED BY <2>4, <2>5
<1>2. CASE OnOpen \/ SendLogin \/ SendEvent \/ OnClose
  BY <1>2 DEF OnOpen, SendLogin, SendEvent, OnClose, ws_send, goVars
<1>3. ASSUME NEW c \in Conn, Server(c) \/ Path(c) PROVE PlaceInv' /\ SessionInv'
  <2>1. conn' = conn
    BY <1>3, ServerKeeps DEF appVars
  <2>2. CASE Receive(c) \/ Insert(c) \/ Replace(c)
    <3>1. PICK f \in Frame : Handle(c, f)
      BY <2>2, Turn
    <3>2. /\ at[c] \in {"anon", "member"} /\ sid' = sid /\ overlapped' = overlapped
          /\ had' = [had EXCEPT ![c] = at[c] = "member"]
          /\ at' = [at EXCEPT ![c] = IF f.kind = "login" THEN "login" ELSE @]
      BY <3>1 DEF Handle
    <3>3. QED BY <2>1, <3>2, SMTT(30) DEF TypeInv, TypeOK, Places
  <2>3. CASE LoginRefused(c)
    BY <2>1, <2>3, SMTT(30) DEF LoginRefused, TypeInv, TypeOK, Places
  <2>7. CASE LoginBind(c)
    BY <2>1, <2>7 DEF LoginBind, TypeInv, TypeOK, Places
  <2>8. CASE FixUp(c)
    BY <2>1, <2>8 DEF FixUp, TypeInv, TypeOK, Places
  <2>9. CASE ReadError(c)
    BY <2>1, <2>9 DEF ReadError, TypeInv, TypeOK, Places
  <2>10. CASE RemoveClient(c)
    BY <2>1, <2>10 DEF RemoveClient, TypeInv, TypeOK, Places
  <2>4. CASE LoginCheck(c)
    BY <2>1, <2>4 DEF LoginCheck, TypeInv, TypeOK, Places
  <2>5. CASE DropLink(c) \/ Lose(c)
    BY <2>1, <2>5 DEF DropLink, Lose, goVars
  <2>6. QED
    BY <1>3, <2>2, <2>3, <2>4, <2>5, <2>7, <2>8, <2>9, <2>10 DEF Server, Path
<1>4. CASE UNCHANGED vars
  BY <1>4 DEF vars, appVars, goVars
<1>5. QED BY <1>1, <1>2, <1>3, <1>4 DEF Next, App

-----------------------------------------------------------------------------
(* The application's side of the chain.                                    *)

LEMMA SendChain ==
  ASSUME TypeInv, AppInv, SentInv, LoginInv,
         NEW kind \in {"login", "event"}, ws_send(kind),
         \/ loginDue /\ ~loginDue'
         \/ kind = "event" /\ loginDue' = loginDue
  PROVE  AppInv' /\ SentInv' /\ LoginInv'
<1> DEFINE f == [conn |-> conn, seq |-> seq, prev |-> prevHash,
                 kind |-> kind, mark |-> 0]
<1>1. conn \in Conn /\ connected /\ appState = "open"
  BY DEF ws_send, TypeInv, TypeOK, Conn, AppInv
<1>2. /\ UNCHANGED <<appState, conn, link, pos>> /\ seq' = seq + 1
      /\ prevHash' = computeHash(f)
  BY DEF ws_send
<1>3. CASE link[conn] = "up"
  <2>1. sent' = [sent EXCEPT ![conn] = Append(@, f)]
    BY <1>3 DEF ws_send
  <2>2. /\ sent[conn] \in Seq(Frame) /\ sent'[conn] = Append(sent[conn], f)
        /\ \A c \in Conn \ {conn} : sent'[c] = sent[c]
    BY <1>1, <2>1 DEF TypeInv, TypeOK
  <2>3. /\ seq = Len(sent[conn]) /\ seq \in Nat /\ Len(sent'[conn]) = seq + 1
        /\ sent'[conn][seq + 1] = f
        /\ \A i \in 1..seq : sent'[conn][i] = sent[conn][i]
    BY <1>1, <1>3, <2>2 DEF AppInv, TypeInv, TypeOK
  <2>4. f.prev = IF seq = 0 THEN NoHash ELSE computeHash(sent'[conn][seq])
    BY <1>1, <1>3, <2>3 DEF AppInv, TypeInv, TypeOK
  <2>5. AppInv'
    BY <1>1, <1>2, <2>3, seq + 1 # 0 DEF AppInv, TypeInv, TypeOK
  <2>6. SentInv'
    <3>1. ASSUME NEW i \in 1..Len(sent'[conn])
          PROVE  /\ sent'[conn][i].conn = conn
                 /\ sent'[conn][i].seq = i - 1
                 /\ sent'[conn][i].prev =
                        IF i = 1 THEN NoHash ELSE computeHash(sent'[conn][i - 1])
                 /\ sent'[conn][i].mark = 0
      <4>1. CASE i = seq + 1
        BY <2>3, <2>4, <4>1
      <4>2. CASE i # seq + 1
        <5>1. /\ i \in 1..Len(sent[conn]) /\ sent'[conn][i] = sent[conn][i]
              /\ i # 1 => sent'[conn][i - 1] = sent[conn][i - 1]
          BY <2>3, <4>2
        <5>2. QED BY <1>1, <5>1 DEF SentInv
      <4>3. QED BY <4>1, <4>2
    <3>2. ASSUME NEW c \in Conn, c # conn
          PROVE  sent'[c] = sent[c] /\ (c > conn' => sent'[c] = <<>>)
      BY <1>2, <2>2, <3>2 DEF SentInv
    <3>3. ~(conn > conn')
      BY <1>1, <1>2 DEF Conn
    <3>4. ASSUME NEW c \in Conn
          PROVE  /\ c > conn' => sent'[c] = <<>>
                 /\ \A i \in 1..Len(sent'[c]) :
                        /\ sent'[c][i].conn = c
                        /\ sent'[c][i].seq = i - 1
                        /\ sent'[c][i].prev = IF i = 1 THEN NoHash
                                              ELSE computeHash(sent'[c][i - 1])
                        /\ sent'[c][i].mark = 0
      <4>1. CASE c = conn
        BY <3>1, <3>3, <4>1
      <4>2. CASE c # conn
        BY <3>2, <4>2 DEF SentInv
      <4>3. QED BY <4>1, <4>2
    <3>5. QED BY <3>4 DEF SentInv
  <2>7. LoginInv'
    <3>1. kind = "login" => \A i \in 1..seq : sent[conn][i].kind # "login"
      BY <2>3 DEF LoginInv
    <3>5. ASSUME NEW i \in 1..Len(sent'[conn]), i # seq + 1
          PROVE  i \in 1..seq /\ i \in 1..Len(sent[conn])
                 /\ sent'[conn][i] = sent[conn][i]
      BY <2>3, <3>5
    <3>2. \A i, j \in 1..Len(sent'[conn]) :
             sent'[conn][i].kind = "login" /\ sent'[conn][j].kind = "login" => i = j
      <4>1. sent'[conn][seq + 1].kind = kind
        BY <2>3
      <4>2. ASSUME NEW i \in 1..Len(sent'[conn]), NEW j \in 1..Len(sent'[conn]),
                   sent'[conn][i].kind = "login", sent'[conn][j].kind = "login"
            PROVE  i = j
        <5>1. CASE kind = "login"
          BY <3>1, <3>5, <4>2, <5>1
        <5>2. CASE kind # "login"
          BY <1>1, <3>5, <4>1, <4>2, <5>2 DEF LoginInv
        <5>3. QED BY <5>1, <5>2
      <4>3. QED BY <4>2
    <3>3. loginDue' => \A i \in 1..Len(sent'[conn]) : sent'[conn][i].kind # "login"
      <4>1. sent'[conn][seq + 1].kind = kind
        BY <2>3
      <4>2. QED BY <3>5, <4>1 DEF LoginInv
    <3>4. QED BY <1>1, <1>2, <2>2, <3>2, <3>3 DEF LoginInv
  <2>8. QED BY <2>5, <2>6, <2>7
<1>4. CASE link[conn] # "up"
  <2>1. sent' = sent /\ link[conn] = "cut"
    BY <1>4 DEF ws_send
  <2>2. AppInv'
    BY <1>1, <1>2, <1>4, <2>1 DEF AppInv
  <2>3. QED BY <1>1, <1>2, <2>1, <2>2 DEF AppInv, SentInv, LoginInv
<1>5. QED BY <1>3, <1>4

LEMMA StepChain ==
  ASSUME TypeInv, AppInv, SentInv, LoginInv, [Next]_vars
  PROVE  AppInv' /\ SentInv' /\ LoginInv'
<1>1. CASE Dial
  <2>6. /\ conn + 1 \in Conn /\ conn \in Int /\ conn + 1 # 0 /\ conn + 1 > conn
        /\ conn' = conn + 1 /\ sent' = sent
        /\ \A c \in Conn : c > conn' => c > conn
    BY <1>1, BoundsAssumption, SMTT(30) DEF Dial, TypeInv, TypeOK, Conn
  <2>1. /\ conn + 1 \in Conn /\ conn \in Int /\ conn + 1 # 0
        /\ conn' = conn + 1 /\ sent' = sent /\ sent[conn + 1] = <<>>
        /\ \A c \in Conn : c > conn' => c > conn
    BY <2>6 DEF SentInv
  <2>2. link'[conn + 1] = "up"
    BY <1>1, <2>1 DEF Dial, TypeInv, TypeOK
  <2>3. AppInv'
    BY <1>1, <2>1, <2>2 DEF Dial, AppInv
  <2>4. SentInv' /\ LoginInv'
    BY <1>1, <2>1 DEF Dial, SentInv, LoginInv, AppInv
  <2>5. QED BY <2>3, <2>4
<1>2. CASE OnOpen
  <2>1. AppInv'
    BY <1>2 DEF OnOpen, AppInv, pathVars
  <2>2. SentInv' /\ LoginInv'
    BY <1>2 DEF OnOpen, AppInv, SentInv, LoginInv, pathVars
  <2>3. QED BY <2>1, <2>2
<1>3. CASE SendLogin
  <2>1. CASE ws_send("login")
    BY <1>3, <2>1, SendChain DEF SendLogin
  <2>2. CASE ~ws_send("login")
    <3>1. ~loginDue' /\ UNCHANGED <<appState, conn, connected, seq, prevHash,
                                    link, sent, pos>>
      BY <1>3, <2>2 DEF SendLogin, pathVars
    <3>2. AppInv' BY <3>1 DEF AppInv
    <3>3. SentInv' BY <3>1 DEF SentInv
    <3>4. LoginInv' BY <3>1 DEF LoginInv
    <3>5. QED BY <3>2, <3>3, <3>4
  <2>3. QED BY <2>1, <2>2
<1>4. CASE SendEvent
  BY <1>4, SendChain DEF SendEvent
<1>5. CASE OnClose
  <2>1. AppInv'
    BY <1>5 DEF OnClose, AppInv, pathVars
  <2>2. SentInv' /\ LoginInv'
    BY <1>5 DEF OnClose, SentInv, LoginInv, pathVars
  <2>3. QED BY <2>1, <2>2
<1>6. ASSUME NEW c \in Conn, Server(c) \/ Path(c)
      PROVE  AppInv' /\ SentInv' /\ LoginInv'
  <2>1. UNCHANGED <<appState, conn, connected, loginDue, seq, prevHash, sent>>
    BY <1>6, ServerKeeps DEF appVars
  <2>2. \A d \in Conn : link'[d] = link[d] \/ link'[d] = "cut"
    BY <1>6 DEF Server, Path, Receive, LoginRefused, LoginCheck, LoginBind,
         FixUp, ReadError, RemoveClient, DropLink, Lose, Insert, Replace,
         Handle, pathVars, TypeInv, TypeOK
  <2>5. conn > 0 => conn \in Conn
    BY DEF TypeInv, TypeOK, Conn
  <2>3. AppInv'
    BY <2>1, <2>2, <2>5 DEF AppInv
  <2>4. QED BY <2>1, <2>3 DEF SentInv, LoginInv
<1>7. CASE UNCHANGED vars
  BY <1>7 DEF vars, appVars, pathVars, AppInv, SentInv, LoginInv
<1>8. QED BY <1>1, <1>2, <1>3, <1>4, <1>5, <1>6, <1>7 DEF Next, App

-----------------------------------------------------------------------------
(* What each connection's invariant survives.                              *)

\* Steps that touch neither the backend nor anything already read: those of
\* the application, and the end of a connection.
Keeps ==
    /\ UNCHANGED <<pos, sid, had, cur, expectedSeq, lastMsgHash, alarms,
                   faults, taken, overlapped>>
    /\ \A c \in Conn :
           /\ at'[c] = at[c] \/ (at[c] = "none" /\ at'[c] = "anon")
           /\ \A i \in 1..Len(sent[c]) :
                  i \in 1..Len(sent'[c]) /\ sent'[c][i] = sent[c][i]

LEMMA AppKeeps ==
  ASSUME TypeInv, PlaceInv, App \/ UNCHANGED vars PROVE Keeps
<1>1. CASE Dial
  <2>1. conn + 1 \in Conn /\ conn + 1 > conn
    BY <1>1, BoundsAssumption DEF Dial, TypeInv, TypeOK, Conn
  <2>2. QED BY <1>1, <2>1 DEF Dial, Keeps, TypeInv, TypeOK, PlaceInv, chainVars
<1>2. ASSUME NEW kind \in {"login", "event"}, ws_send(kind) PROVE Keeps
  <2>1. conn \in Conn
    BY <1>2 DEF ws_send, TypeInv, TypeOK, Conn
  <2>2. \A c \in Conn : \A i \in 1..Len(sent[c]) :
            i \in 1..Len(sent'[c]) /\ sent'[c][i] = sent[c][i]
    <3>1. CASE UNCHANGED sent
      BY <3>1
    <3>2. ASSUME NEW f, sent' = [sent EXCEPT ![conn] = Append(@, f)]
          PROVE  \A c \in Conn : \A i \in 1..Len(sent[c]) :
                     i \in 1..Len(sent'[c]) /\ sent'[c][i] = sent[c][i]
      <4>1. /\ sent'[conn] = Append(sent[conn], f) /\ sent[conn] \in Seq(Frame)
            /\ \A c \in Conn \ {conn} : sent'[c] = sent[c]
        BY <2>1, <3>2 DEF TypeInv, TypeOK
      <4>2. \A i \in 1..Len(sent[conn]) :
                i \in 1..Len(sent'[conn]) /\ sent'[conn][i] = sent[conn][i]
        BY <4>1
      <4>3. QED BY <4>1, <4>2
    <3>3. QED BY <1>2, <3>1, <3>2 DEF ws_send
  <2>3. QED BY <1>2, <2>2 DEF ws_send, Keeps, goVars, chainVars
<1>3. CASE SendLogin
  BY <1>2, <1>3 DEF SendLogin, Keeps, pathVars, goVars, chainVars
<1>4. CASE SendEvent
  BY <1>2, <1>4 DEF SendEvent
<1>5. CASE OnOpen \/ OnClose
  BY <1>5 DEF OnOpen, OnClose, Keeps, pathVars, goVars, chainVars
<1>6. CASE UNCHANGED vars
  BY <1>6 DEF vars, Keeps, pathVars, goVars, chainVars
<1>7. QED BY <1>1, <1>3, <1>4, <1>5, <1>6 DEF App

\* A known frame stays known while only more is sent.
LEMMA KnownKeeps ==
  ASSUME NEW c \in Conn, NEW f, KnownFrame(c, f),
         \A i \in 1..Len(sent[c]) : i \in 1..Len(sent'[c]) /\ sent'[c][i] = sent[c][i]
  PROVE  /\ f.conn = c
         /\ f.mark = 0 => f.seq + 1 \in 1..Len(sent'[c]) /\ f = sent'[c][f.seq + 1]
BY DEF KnownFrame

LEMMA KeepsConn ==
  ASSUME TypeInv, Keeps, NEW c \in Conn, ConnInv(c) PROVE ConnInv(c)'
<1>1. /\ pos'[c] = pos[c] /\ had'[c] = had[c] /\ cur'[c] = cur[c]
      /\ alarms'[c] = alarms[c] /\ faults'[c] = faults[c] /\ taken'[c] = taken[c]
      /\ expectedSeq' = expectedSeq /\ lastMsgHash' = lastMsgHash
      /\ overlapped' = overlapped /\ pos[c] \in Nat
      /\ at'[c] = at[c] \/ (at[c] = "none" /\ at'[c] = "anon")
      /\ \A i \in 1..Len(sent[c]) : i \in 1..Len(sent'[c]) /\ sent'[c][i] = sent[c][i]
      /\ taken[c] \in Seq(Frame)
  BY DEF Keeps, TypeInv, TypeOK
<1>2. \A i \in 1..pos[c] : i \in 1..Len(sent[c]) /\ sent'[c][i] = sent[c][i]
  <2>1. \A i \in 1..pos[c] : i \in 1..Len(sent[c])
    BY DEF TypeInv, TypeOK
  <2> QED BY <1>1, <2>1
<1>3. LoginPassed(c)' <=> LoginPassed(c)
  BY <1>1, <1>2 DEF LoginPassed
<1>4. CurOf(c)'
  <2>1. CASE at[c] \in {"login", "checked", "bound"}
    <3>1. KnownFrame(c, cur[c])'
      <4>1. KnownFrame(c, cur[c])
        BY <2>1 DEF ConnInv, CurOf
      <4> QED BY <1>1, <4>1, KnownKeeps DEF KnownFrame
    <3>2. pos[c] > 0 => sent'[c][pos[c]] = sent[c][pos[c]]
      BY <1>1, <1>2
    <3>3. QED BY <1>1, <2>1, <3>1, <3>2 DEF ConnInv, CurOf
  <2>2. CASE at[c] = "member"
    BY <1>1, <1>3, <2>2 DEF ConnInv, CurOf
  <2>3. CASE at[c] \notin {"login", "checked", "bound", "member"}
    BY <1>1, <2>3 DEF CurOf
  <2>4. QED BY <2>1, <2>2, <2>3
<1>5. DebtOf(c)'
  <2>1. NextPrev(c)' = NextPrev(c)
    BY <1>1, <1>2 DEF NextPrev
  <2>2. Debt(c)' = Debt(c) /\ Ahead(c)' = Ahead(c)
    BY <1>1, <1>3, <2>1 DEF Debt, Ahead
  <2>3. QED BY <1>1, <2>2 DEF ConnInv, DebtOf, Before, Relogin
<1>6. TakenOf(c)'
  <2>1. ASSUME NEW i \in 1..Len(taken[c]) PROVE KnownFrame(c, taken[c][i])'
    <3>1. KnownFrame(c, taken[c][i])
      BY DEF ConnInv, TakenOf
    <3> QED BY <1>1, <3>1, KnownKeeps DEF KnownFrame
  <2>2. (Before(c)' <=> Before(c)) /\ (Relogin(c)' <=> Relogin(c))
        /\ (at'[c] = "member" <=> at[c] = "member")
    BY <1>1 DEF Before, Relogin
  <2>3. TakenOf(c)
    BY DEF ConnInv
  <2>4. \A i \in 1..Len(taken'[c]) : KnownFrame(c, taken[c][i])'
    BY <1>1, <2>1
  <2>5. QED BY <1>1, <2>2, <2>3, <2>4 DEF TakenOf
<1>7. GenuineOf(c)'
  <2>1. ASSUME NEW i \in 2..Len(taken[c]), taken[c][i].mark = 0, taken[c][i].seq > 0
        PROVE  sent'[c][taken[c][i].seq] = sent[c][taken[c][i].seq]
    <3>1. i \in 1..Len(taken[c])
      BY <1>1
    <3>2. KnownFrame(c, taken[c][i])
      BY <3>1 DEF ConnInv, TakenOf
    <3>3. taken[c][i].seq + 1 \in 1..Len(sent[c])
      BY <2>1, <3>2 DEF KnownFrame
    <3>4. taken[c][i] \in Frame /\ Len(sent[c]) \in Nat
      BY <1>1, <3>1 DEF TypeInv, TypeOK
    <3>5. taken[c][i].seq \in Int
      BY <3>4 DEF Frame
    <3>6. taken[c][i].seq \in 1..Len(sent[c])
      <4> DEFINE k == taken[c][i].seq
                 l == Len(sent[c])
      <4>1. k \in Int /\ k > 0 /\ k + 1 \in 1..l /\ l \in Nat
        BY <2>1, <3>3, <3>4, <3>5
      <4>2. k \in 1..l
        <5> HIDE DEF k, l
        <5> QED BY <4>1
      <4> QED BY <4>2
    <3> QED BY <1>1, <3>6
  <2>2. QED BY <1>1, <2>1 DEF ConnInv, GenuineOf
<1>8. QED BY <1>4, <1>5, <1>6, <1>7 DEF ConnInv

\* A goroutine's step, seen from the other connections.  It changes the shared
\* chain only from inside a session, and then no other connection is in one.
LEMMA OthersKeep ==
  ASSUME TypeInv, PlaceInv, SessionInv, SentInv, NEW c \in Conn, NEW d \in Conn,
         d # c, Server(c) \/ Path(c), ConnInv(d)
  PROVE  ConnInv(d)'
<1>1. sent' = sent
  BY ServerKeeps
<1>2. /\ at'[d] = at[d] /\ pos'[d] = pos[d] /\ had'[d] = had[d]
      /\ cur'[d] = cur[d] /\ alarms'[d] = alarms[d] /\ faults'[d] = faults[d]
      /\ taken'[d] = taken[d]
  <2>1. CASE Receive(c) \/ Insert(c) \/ Replace(c)
    <3>1. PICK f \in Frame, p \in 0..Len(sent[c]) :
             /\ Handle(c, f)
             /\ pos' = [pos EXCEPT ![c] = p]
             /\ faults' = faults \/ Fault(c)
      BY <2>1, Turn
    <3>2. QED
      BY <3>1 DEF Handle, Fault, VerifyChain, chainVars, TypeInv, TypeOK
  <2>2. CASE LoginRefused(c) \/ LoginCheck(c) \/ LoginBind(c) \/ FixUp(c)
    BY <2>2 DEF LoginRefused, LoginCheck, LoginBind, FixUp, TypeInv, TypeOK,
                pathVars, chainVars
  <2>3. CASE ReadError(c) \/ RemoveClient(c) \/ DropLink(c) \/ Lose(c)
    BY <2>3 DEF ReadError, RemoveClient, DropLink, Lose, Fault, TypeInv, TypeOK,
                pathVars, goVars, chainVars
  <2>4. QED BY <2>1, <2>2, <2>3 DEF Server, Path
<1>3. overlapped => overlapped'
  BY DEF Server, Path, Receive, LoginRefused, LoginCheck, LoginBind, FixUp,
         ReadError, RemoveClient, DropLink, Lose, Insert, Replace, Handle
<1>4. \/ expectedSeq' = expectedSeq /\ lastMsgHash' = lastMsgHash
      \/ InSession(c)
  <2>1. CASE Receive(c) \/ Insert(c) \/ Replace(c)
    <3>1. PICK f \in Frame : Handle(c, f)
      BY <2>1, Turn
    <3>2. QED BY <3>1 DEF Handle, chainVars, PlaceInv, InSession
  <2>2. CASE LoginBind(c) \/ FixUp(c)
    BY <2>2 DEF LoginBind, FixUp, PlaceInv, InSession
  <2>3. CASE LoginRefused(c) \/ LoginCheck(c) \/ ReadError(c) \/ RemoveClient(c)
             \/ DropLink(c) \/ Lose(c)
    BY <2>3 DEF LoginRefused, LoginCheck, ReadError, RemoveClient, DropLink,
                Lose, chainVars
  <2>4. QED BY <2>1, <2>2, <2>3 DEF Server, Path
<1>5. CurOf(d)'
  BY <1>1, <1>2 DEF ConnInv, CurOf, KnownFrame, LoginPassed
<1>6. (Before(d)' <=> Before(d)) /\ (Relogin(d)' <=> Relogin(d))
  BY <1>2 DEF Before, Relogin
<1>7. ~overlapped' /\ (at[d] = "member" \/ Relogin(d)) =>
         expectedSeq' = expectedSeq /\ lastMsgHash' = lastMsgHash
  <2>1. at[d] = "member" \/ Relogin(d) => InSession(d)
    BY DEF Relogin, PlaceInv, InSession
  <2>2. QED BY <1>3, <1>4, <2>1 DEF SessionInv
<1>8. DebtOf(d)'
  <2>1. NextPrev(d)' = NextPrev(d) /\ Ahead(d)' = Ahead(d)
    BY <1>1, <1>2 DEF NextPrev, Ahead, LoginPassed
  <2>2. ~overlapped' /\ (at[d] = "member" \/ Relogin(d)) => Debt(d)' = Debt(d)
    BY <1>2, <1>7, <2>1 DEF Debt
  <2>3. QED BY <1>2, <1>3, <1>6, <2>1, <2>2 DEF ConnInv, DebtOf
<1>9. TakenOf(d)'
  BY <1>1, <1>2, <1>3, <1>6, <1>7 DEF ConnInv, TakenOf, KnownFrame
<1>10. GenuineOf(d)'
  BY <1>1, <1>2, <1>3 DEF ConnInv, GenuineOf
<1>11. QED BY <1>5, <1>8, <1>9, <1>10 DEF ConnInv

\* The steps of a goroutine other than reading a frame.
LEMMA WalkConn ==
  ASSUME TypeInv, PlaceInv, NEW c \in Conn, ConnInv(c),
         \/ LoginRefused(c) \/ LoginCheck(c) \/ ReadError(c) \/ RemoveClient(c)
  PROVE  ConnInv(c)'
<1>1. /\ UNCHANGED <<sent, pos, had, expectedSeq, lastMsgHash, alarms,
                     faults, taken>>
      /\ overlapped => overlapped'
  <2>1. CASE LoginCheck(c)
    BY <2>1 DEF LoginCheck, pathVars, chainVars
  <2>2. CASE LoginRefused(c) \/ ReadError(c) \/ RemoveClient(c)
    BY <2>2 DEF LoginRefused, ReadError, RemoveClient, pathVars, chainVars
  <2>3. QED BY <2>1, <2>2
<1>2. \/ at[c] = "login" /\ had[c] /\ at'[c] = "member"
      \/ at[c] = "login" /\ ~had[c] /\ at'[c] = "anon"
      \/ at[c] = "login" /\ at'[c] = "checked" /\ cur' = cur
      \/ at'[c] \in {"leaving", "closed"}
  BY DEF LoginRefused, LoginCheck, ReadError, RemoveClient, TypeInv, TypeOK
<1>3. at[c] = "login" => faults[c] > 0 \/ LoginPassed(c)
  <2>1. SUFFICES ASSUME at[c] = "login", pos[c] > 0, cur[c] = sent[c][pos[c]],
                        cur[c].kind = "login"
                 PROVE  LoginPassed(c)
    BY DEF ConnInv, CurOf
  <2>2. pos[c] \in 1..pos[c]
    BY <2>1 DEF TypeInv, TypeOK
  <2> QED BY <2>1, <2>2 DEF LoginPassed
<1>4. CurOf(c)'
  <2>1. CASE at'[c] = "member"
    BY <1>1, <1>2, <1>3, <2>1 DEF CurOf, LoginPassed
  <2>2. CASE at'[c] # "member"
    BY <1>1, <1>2, <2>2 DEF ConnInv, CurOf, KnownFrame
  <2>3. QED BY <2>1, <2>2
<1>5. Debt(c)' = Debt(c) /\ Ahead(c)' = Ahead(c)
  BY <1>1 DEF Debt, NextPrev, Ahead, LoginPassed
<1>6. DebtOf(c)'
  BY <1>1, <1>2, <1>5 DEF ConnInv, DebtOf, Before, Relogin
<1>7. TakenOf(c)'
  <2>1. (Before(c)' => Before(c)) /\ (Relogin(c)' => Relogin(c))
        /\ (at'[c] = "member" => Relogin(c))
    BY <1>1, <1>2 DEF Before, Relogin
  <2>2. TakenOf(c)
    BY DEF ConnInv
  <2>3. QED BY <1>1, <2>1, <2>2 DEF TakenOf, KnownFrame
<1>8. GenuineOf(c)'
  BY <1>1 DEF ConnInv, GenuineOf
<1>9. QED BY <1>4, <1>6, <1>7, <1>8 DEF ConnInv

\* A fault pays for everything that can be owed.
LEMMA OwedBound ==
  ASSUME NEW c \in Conn
  PROVE  Debt(c) \in 0..2 /\ Ahead(c) \in 0..1
BY DEF Debt, Ahead

LEMMA LoseConn ==
  ASSUME TypeInv, PlaceInv, NEW c \in Conn, ConnInv(c), Lose(c)
  PROVE  ConnInv(c)'
<1>1. /\ UNCHANGED <<sent, at, had, cur, expectedSeq, lastMsgHash, alarms,
                     taken, overlapped>>
      /\ pos'[c] = pos[c] + 1 /\ faults'[c] = faults[c] + 1
      /\ at[c] \in {"anon", "member"}
      /\ pos[c] \in Nat /\ faults[c] \in Nat /\ alarms[c] \in Nat
  BY ServerKeeps DEF Lose, OnPath, Fault, Path, goVars, chainVars, TypeInv, TypeOK
<1>2. CurOf(c)'
  BY <1>1 DEF CurOf
<1>3. DebtOf(c)'
  <2>1. Debt(c)' \in 0..2
    BY DEF Debt
  <2>2. Ahead(c)' \in 0..1 /\ Ahead(c) \in 0..1 /\ Ahead(c)' <= Ahead(c)
    <3>1. \A i \in 1..pos[c] : i \in 1..pos'[c]
      BY <1>1
    <3>2. LoginPassed(c) => LoginPassed(c)'
      BY <1>1, <3>1 DEF LoginPassed
    <3> QED BY <3>2 DEF Ahead
  <2>3. ~Relogin(c)' /\ (Before(c)' => Before(c)) /\ (at'[c] = "member" => at[c] = "member")
    BY <1>1 DEF Relogin, Before
  <2>4. Debt(c) \in 0..2
    BY OwedBound
  <2>5. ASSUME ~overlapped
        PROVE  /\ alarms[c] <= 4 * faults'[c]
               /\ at[c] = "member" => alarms[c] + Debt(c)' + Ahead(c)' <= 4 * faults'[c]
    BY <1>1, <2>1, <2>2, <2>4, <2>5 DEF ConnInv, DebtOf
  <2> QED BY <1>1, <2>3, <2>5 DEF ConnInv, DebtOf
<1>4. TakenOf(c)'
  BY <1>1 DEF ConnInv, TakenOf, Before, Relogin, KnownFrame
<1>5. GenuineOf(c)'
  BY <1>1 DEF ConnInv, GenuineOf
<1>6. QED BY <1>2, <1>3, <1>4, <1>5 DEF ConnInv

LEMMA BindConn ==
  ASSUME TypeInv, PlaceInv, NEW c \in Conn, ConnInv(c), LoginBind(c)
  PROVE  ConnInv(c)'
<1>1. /\ UNCHANGED <<sent, pos, had, alarms, faults, taken, overlapped>>
      /\ expectedSeq' = 0 /\ lastMsgHash' = NoHash /\ at[c] = "checked"
      /\ at'[c] = IF had[c] THEN "member" ELSE "bound"
      /\ ~had[c] => cur'[c] = cur[c]
      /\ pos[c] \in Nat /\ faults[c] \in Nat /\ alarms[c] \in Nat
  BY DEF LoginBind, appVars, pathVars, TypeInv, TypeOK
<1>2. CurOf(c)'
  <2>1. faults[c] > 0 \/ LoginPassed(c)
    <3>1. SUFFICES ASSUME pos[c] > 0, cur[c] = sent[c][pos[c]], cur[c].kind = "login"
                   PROVE  LoginPassed(c)
      BY <1>1 DEF ConnInv, CurOf
    <3>2. pos[c] \in 1..pos[c]
      BY <1>1, <3>1
    <3> QED BY <3>1, <3>2 DEF LoginPassed
  <2>2. QED BY <1>1, <2>1 DEF ConnInv, CurOf, LoginPassed, KnownFrame
<1>3. DebtOf(c)'
  <2>1. Debt(c)' \in 0..1
    BY <1>1 DEF Debt
  <2>2. Ahead(c)' = Ahead(c) /\ Ahead(c) \in 0..1
    BY <1>1 DEF Ahead, LoginPassed
  <2>3. QED BY <1>1, <2>1, <2>2 DEF ConnInv, DebtOf, Before, Relogin
<1>4. TakenOf(c)'
  <2>1. TakenOf(c)
    BY DEF ConnInv
  <2>2. (Before(c)' => Before(c)) /\ ~Relogin(c)' /\ (at'[c] = "member" => Relogin(c))
    BY <1>1 DEF Before, Relogin
  <2>3. QED BY <1>1, <2>1, <2>2 DEF TakenOf, KnownFrame
<1>5. GenuineOf(c)'
  BY <1>1 DEF ConnInv, GenuineOf
<1>6. QED BY <1>2, <1>3, <1>4, <1>5 DEF ConnInv

LEMMA FixUpConn ==
  ASSUME TypeInv, PlaceInv, SentInv, NEW c \in Conn, ConnInv(c), FixUp(c)
  PROVE  ConnInv(c)'
<1>1. /\ UNCHANGED <<sent, pos, had, alarms, faults, overlapped>>
      /\ expectedSeq' = cur[c].seq + 1 /\ lastMsgHash' = computeHash(cur[c])
      /\ taken'[c] = <<cur[c]>> /\ at[c] = "bound" /\ at'[c] = "member"
      /\ pos[c] \in Nat /\ faults[c] \in Nat /\ alarms[c] = 0
  BY DEF FixUp, appVars, pathVars, TypeInv, TypeOK, ConnInv, DebtOf, Before
<1>2. /\ cur[c].kind = "login" /\ KnownFrame(c, cur[c])
      /\ faults[c] > 0 \/ (pos[c] > 0 /\ cur[c] = sent[c][pos[c]])
  BY <1>1 DEF ConnInv, CurOf
<1>3. ASSUME faults[c] = 0
      PROVE  Debt(c)' = 0 /\ LoginPassed(c)
  <2>1. pos[c] \in 1..pos[c] /\ pos[c] \in 1..Len(sent[c]) /\ pos[c] > 0
        /\ cur[c] = sent[c][pos[c]]
    BY <1>1, <1>2, <1>3 DEF TypeInv, TypeOK
  <2>2. cur[c].seq = pos[c] - 1
    BY <2>1 DEF SentInv
  <2>3. expectedSeq' = pos[c]
    BY <1>1, <2>2
  <2>4. NextPrev(c)' = computeHash(cur[c])
    BY <1>1, <2>1 DEF NextPrev
  <2>5. Debt(c)' = 0
    BY <1>1, <2>3, <2>4 DEF Debt
  <2> QED BY <1>2, <2>1, <2>5 DEF LoginPassed
<1>4. CurOf(c)'
  <2>1. faults[c] > 0 \/ LoginPassed(c)
    BY <1>1, <1>3
  <2> QED BY <1>1, <2>1 DEF CurOf, LoginPassed
<1>5. DebtOf(c)'
  <2>1. Ahead(c)' = Ahead(c) /\ Ahead(c) \in 0..1
    BY <1>1 DEF Ahead, LoginPassed
  <2>2. Debt(c)' \in 0..2
    BY DEF Debt
  <2>3. Debt(c)' + Ahead(c)' <= 4 * faults[c]
    <3>1. CASE faults[c] = 0
      BY <1>3, <2>1, <3>1 DEF Ahead
    <3>2. CASE faults[c] # 0
      BY <1>1, <2>1, <2>2, <3>2
    <3> QED BY <3>1, <3>2
  <2>4. ~Before(c)' /\ ~Relogin(c)'
    BY <1>1 DEF Before, Relogin
  <2>5. alarms'[c] + Debt(c)' + Ahead(c)' <= 4 * faults'[c] /\ alarms'[c] <= 4 * faults'[c]
    BY <1>1, <2>1, <2>2, <2>3
  <2> QED BY <2>4, <2>5 DEF DebtOf
<1>6. TakenOf(c)'
  BY <1>1, <1>2 DEF TakenOf, Before, Relogin, KnownFrame
<1>7. GenuineOf(c)'
  BY <1>1 DEF GenuineOf
<1>8. QED BY <1>4, <1>5, <1>6, <1>7 DEF ConnInv

-----------------------------------------------------------------------------
(* Reading a frame.                                                        *)

\* Before the login: nothing is checked yet.
LEMMA TurnAnon ==
  ASSUME TypeInv, PlaceInv, SentInv, NEW c \in Conn, ConnInv(c),
         Receive(c) \/ Insert(c) \/ Replace(c), at[c] = "anon"
  PROVE  ConnInv(c)'
<1>1. PICK f \in Frame, p \in 0..Len(sent[c]) :
         /\ Handle(c, f)
         /\ pos' = [pos EXCEPT ![c] = p]
         /\ p \in {pos[c], pos[c] + 1}
         /\ KnownFrame(c, f)
         /\ \/ p = pos[c] + 1 /\ f = sent[c][p] /\ faults' = faults
            \/ Fault(c)
  BY Turn
<1>2. /\ UNCHANGED <<sent, expectedSeq, lastMsgHash, alarms, taken, overlapped>>
      /\ pos'[c] = p /\ (f.kind = "login" => cur'[c] = f) /\ had'[c] = FALSE
      /\ at'[c] = IF f.kind = "login" THEN "login" ELSE "anon"
  <2>1. UNCHANGED <<sent, expectedSeq, lastMsgHash, alarms, taken, overlapped>>
    BY <1>1 DEF Handle, chainVars
  <2>2. /\ (f.kind = "login" => cur'[c] = f) /\ had'[c] = FALSE /\ pos'[c] = p
        /\ at'[c] = IF f.kind = "login" THEN "login" ELSE "anon"
    BY <1>1 DEF Handle, TypeInv, TypeOK
  <2>3. QED BY <2>1, <2>2
<1>3. /\ faults'[c] \in {faults[c], faults[c] + 1}
      /\ faults[c] \in Nat /\ faults'[c] \in Nat
      /\ faults'[c] > 0 \/ (p > 0 /\ f = sent[c][p])
  <2>1. faults[c] \in Nat /\ pos[c] \in Nat
    BY DEF TypeInv, TypeOK
  <2>2. CASE Fault(c)
    BY <2>1, <2>2, FaultType
  <2>3. CASE p = pos[c] + 1 /\ f = sent[c][p] /\ faults' = faults
    BY <2>1, <2>3
  <2>4. QED BY <1>1, <2>2, <2>3
<1>4. CurOf(c)'
  BY <1>1, <1>2, <1>3 DEF CurOf, KnownFrame
<1>5. alarms[c] = 0 /\ taken[c] = <<>>
  BY DEF ConnInv, DebtOf, TakenOf, Before
<1>6. DebtOf(c)'
  BY <1>2, <1>3, <1>5 DEF DebtOf, Before, Relogin
<1>7. TakenOf(c)'
  BY <1>2, <1>5 DEF TakenOf, Before, Relogin
<1>8. GenuineOf(c)'
  BY <1>2, <1>5 DEF GenuineOf
<1>9. QED BY <1>4, <1>6, <1>7, <1>8 DEF ConnInv

\* On a logged-in connection: VerifyChain.
LEMMA TurnMember ==
  ASSUME TypeInv, PlaceInv, SentInv, LoginInv, NEW c \in Conn, ConnInv(c),
         Receive(c) \/ Insert(c) \/ Replace(c), at[c] = "member"
  PROVE  ConnInv(c)'
<1>1. PICK f \in Frame, p \in 0..Len(sent[c]) :
         /\ Handle(c, f)
         /\ pos' = [pos EXCEPT ![c] = p]
         /\ p \in {pos[c], pos[c] + 1}
         /\ KnownFrame(c, f)
         /\ \/ p = pos[c] + 1 /\ f = sent[c][p] /\ faults' = faults
            \/ Fault(c)
  BY Turn
<1> DEFINE n == Len(taken[c])
           last == taken[c][n]
           raised == (IF f.seq # expectedSeq THEN 1 ELSE 0)
                     + (IF expectedSeq > 0 /\ f.prev # lastMsgHash THEN 1 ELSE 0)
<1>2. raised \in 0..2
  OBVIOUS
<1>3. /\ UNCHANGED <<sent, overlapped>>
      /\ pos'[c] = p /\ (f.kind = "login" => cur'[c] = f) /\ had'[c]
      /\ at'[c] = IF f.kind = "login" THEN "login" ELSE "member"
      /\ taken'[c] = Append(taken[c], f)
      /\ taken[c] \in Seq(Frame) /\ alarms[c] \in Nat /\ pos[c] \in Nat
      /\ expectedSeq \in Int /\ p \in Nat /\ f.seq \in Int
  <2>1. Handle(c, f)
    BY <1>1
  <2>2. UNCHANGED <<sent, overlapped>> /\ (f.kind = "login" => cur'[c] = f)
    BY <2>1 DEF Handle, TypeInv, TypeOK
  <2>3. had'[c]
    BY <2>1 DEF Handle, TypeInv, TypeOK
  <2>4. at'[c] = IF f.kind = "login" THEN "login" ELSE "member"
    BY <2>1 DEF Handle, TypeInv, TypeOK
  <2>5. taken'[c] = Append(taken[c], f) /\ taken[c] \in Seq(Frame)
    BY <2>1 DEF Handle, TypeInv, TypeOK
  <2>6. /\ alarms[c] \in Nat /\ pos[c] \in Nat /\ expectedSeq \in Int
        /\ Len(sent[c]) \in Nat
    BY DEF TypeInv, TypeOK
  <2>7. p \in Nat /\ pos'[c] = p
    BY <1>1, <2>6 DEF TypeInv, TypeOK
  <2>8. f.seq \in Int
    BY DEF Frame
  <2>9. QED BY <2>2, <2>3, <2>4, <2>5, <2>6, <2>7, <2>8
<1>4. expectedSeq' = f.seq + 1 /\ lastMsgHash' = computeHash(f)
      /\ alarms'[c] = alarms[c] + raised
  <2>1. VerifyChain(c, f)
    BY <1>1 DEF Handle
  <2>2. alarms'[c] = alarms[c] + (IF f.seq # expectedSeq THEN 1 ELSE 0)
                     + (IF expectedSeq > 0 /\ f.prev # lastMsgHash THEN 1 ELSE 0)
    BY <2>1 DEF VerifyChain, TypeInv, TypeOK
  <2>3. alarms[c] \in Nat
    BY <1>3
  <2>4. alarms'[c] = alarms[c] + raised
    BY <2>2, <2>3
  <2>5. QED BY <2>1, <2>4 DEF VerifyChain
<1>5. /\ faults[c] \in Nat /\ faults'[c] \in {faults[c], faults[c] + 1}
      /\ \/ faults'[c] = faults[c] + 1
         \/ p = pos[c] + 1 /\ f = sent[c][p] /\ faults'[c] = faults[c]
  <2>1. faults[c] \in Nat
    BY DEF TypeInv, TypeOK
  <2>2. CASE Fault(c)
    BY <2>1, <2>2, FaultType
  <2>3. QED BY <1>1, <2>1, <2>2
<1>6. LoginPassed(c) => LoginPassed(c)'
  <2>1. \A i \in 1..pos[c] : i \in 1..p
    BY <1>1, <1>3
  <2> QED BY <1>3, <2>1 DEF LoginPassed
<1>7. CurOf(c)'
  <2>1. CASE f.kind = "login"
    <3>1. faults'[c] > 0 \/ (p > 0 /\ f = sent[c][p])
      BY <1>3, <1>5
    <3>2. QED BY <1>1, <1>3, <2>1, <3>1 DEF CurOf, KnownFrame
  <2>2. CASE f.kind # "login"
    <3>1. faults[c] > 0 \/ LoginPassed(c)
      BY DEF ConnInv, CurOf
    <3>2. faults'[c] > 0 \/ LoginPassed(c)'
      BY <1>5, <1>6, <3>1
    <3>3. QED BY <1>3, <2>2, <3>2 DEF CurOf
  <2>3. QED BY <2>1, <2>2
<1>8. DebtOf(c)'
  <2>1. ~Before(c)' /\ (Relogin(c)' <=> f.kind = "login")
    BY <1>3 DEF Before, Relogin
  <2>2. /\ Debt(c) \in 0..2 /\ Ahead(c) \in 0..1 /\ Debt(c)' \in 0..2
        /\ Ahead(c)' \in 0..1 /\ Ahead(c)' <= Ahead(c)
    BY <1>6 DEF Debt, Ahead
  <2>3. ASSUME p = pos[c] + 1, f = sent[c][p]
        PROVE  /\ raised = Debt(c) /\ Debt(c)' = 0
               /\ f.kind = "login" => Ahead(c) = 1 /\ Ahead(c)' = 0
    <3>1. /\ p \in 1..Len(sent[c]) /\ p > 0 /\ f.seq = p - 1
          /\ f.prev = IF p = 1 THEN NoHash ELSE computeHash(sent[c][p - 1])
      <4>1. p \in 1..Len(sent[c])
        BY <1>1, <1>3, <2>3
      <4>2. QED BY <2>3, <4>1 DEF SentInv
    <3>0. pos[c] \in Nat /\ p - 1 = pos[c] /\ pos'[c] = p /\ sent' = sent
          /\ expectedSeq' = f.seq + 1 /\ p \in Nat
      BY <1>3, <1>4, <2>3
    <3>2. f.seq = pos[c] /\ f.prev = NextPrev(c)
      BY <2>3, <3>0, <3>1 DEF NextPrev
    <3>3. raised = Debt(c)
      BY <3>2 DEF Debt
    <3>4. expectedSeq' = p /\ NextPrev(c)' = computeHash(f)
      BY <2>3, <3>0, <3>1 DEF NextPrev
    <3>5. Debt(c)' = 0
      BY <1>4, <3>0, <3>4 DEF Debt
    <3>6. ASSUME f.kind = "login"
          PROVE  ~LoginPassed(c) /\ LoginPassed(c)'
      <4>1. ASSUME NEW i \in 1..pos[c], sent[c][i].kind = "login"
            PROVE  FALSE
        <5>1. i \in 1..Len(sent[c]) /\ i # p
          BY <1>1, <1>3, <2>3, <4>1 DEF TypeInv, TypeOK
        <5>2. QED BY <2>3, <3>1, <3>6, <4>1, <5>1 DEF LoginInv
      <4>2. p \in 1..p
        BY <3>1
      <4>3. QED BY <1>3, <2>3, <3>6, <4>1, <4>2 DEF LoginPassed
    <3>7. QED BY <3>3, <3>5, <3>6 DEF Ahead
  <2>4. ~overlapped => alarms[c] + Debt(c) + Ahead(c) <= 4 * faults[c]
    BY DEF ConnInv, DebtOf
  <2>5. ASSUME ~overlapped
        PROVE  /\ alarms'[c] <= 4 * faults'[c]
               /\ alarms'[c] + Debt(c)' + Ahead(c)' <= 4 * faults'[c]
               /\ f.kind = "login" => alarms'[c] + 1 + Ahead(c)' <= 4 * faults'[c]
    <3> DEFINE a == alarms[c]
               b == alarms'[c]
               m == faults[c]
               k == faults'[c]
               owed == Debt(c)
               next == Debt(c)'
               ahead == Ahead(c)
               left == Ahead(c)'
    <3>1. /\ a \in Nat /\ m \in Nat /\ raised \in 0..2 /\ b = a + raised
          /\ owed \in 0..2 /\ next \in 0..2 /\ ahead \in 0..1 /\ left \in 0..1
          /\ left <= ahead /\ a + owed + ahead <= 4 * m
      BY <1>2, <1>3, <1>4, <1>5, <2>2, <2>4, <2>5
    <3>2. CASE k = m + 1
      <4> HIDE DEF a, b, m, k, owed, next, ahead, left, raised
      <4>1. b \in Nat /\ b + next + left <= 4 * m + 4 /\ b + 1 + left <= 4 * m + 4
            /\ 4 * k = 4 * m + 4
        BY <3>1, <3>2
      <4>2. b <= 4 * k /\ b + next + left <= 4 * k /\ b + 1 + left <= 4 * k
        BY <3>1, <4>1
      <4> QED BY <4>2 DEF b, k, next, left
    <3>3. CASE p = pos[c] + 1 /\ f = sent[c][p] /\ k = m
      <4>1. /\ raised = owed /\ next = 0
            /\ f.kind = "login" => ahead = 1 /\ left = 0
        BY <2>3, <3>3
      <4> HIDE DEF a, b, m, k, owed, next, ahead, left, raised
      <4>0. /\ k = m /\ raised = owed /\ next = 0 /\ b = a + owed
        BY <3>1, <3>3, <4>1
      <4>2. b <= 4 * k /\ b + next + left <= 4 * k
        BY <3>1, <4>0
      <4>3. ahead = 1 /\ left = 0 => b + 1 + left <= 4 * k
        BY <3>1, <4>0
      <4> QED BY <4>1, <4>2, <4>3 DEF b, k, next, ahead, left
    <3>4. QED BY <1>5, <3>2, <3>3
  <2>6. QED BY <1>3, <2>1, <2>5 DEF DebtOf
<1>9. n \in Nat /\ n > 0 /\ n \in 1..n /\ last \in Frame /\ KnownFrame(c, last)
  <2>0. taken[c] # <<>> /\ taken[c] \in Seq(Frame)
    BY <1>3 DEF ConnInv, TakenOf
  <2>1. n \in Nat /\ n > 0 /\ n \in 1..n
    BY <2>0
  <2>2. last \in Frame
    BY <1>3, <2>1
  <2>3. QED BY <2>1, <2>2 DEF ConnInv, TakenOf
<1>10. /\ Len(taken'[c]) = n + 1 /\ taken'[c][n + 1] = f
       /\ \A i \in 1..n : taken'[c][i] = taken[c][i]
       /\ taken'[c] # <<>>
  <2>1. taken'[c] = Append(taken[c], f) /\ taken[c] \in Seq(Frame)
    BY <1>3
  <2>2. QED BY <2>1
<1>11. TakenOf(c)'
  <2>1. ASSUME NEW i \in 1..Len(taken'[c])
        PROVE  KnownFrame(c, taken'[c][i])
    <3>1. CASE i = n + 1
      BY <1>1, <1>10, <3>1
    <3>2. CASE i # n + 1
      <4>0. i \in 1..n
        <5> HIDE DEF n
        <5> QED BY <1>9, <1>10, <3>2
      <4>1. i \in 1..n /\ taken'[c][i] = taken[c][i]
        BY <1>10, <4>0
      <4>2. QED BY <4>1 DEF ConnInv, TakenOf
    <3>3. QED BY <3>1, <3>2
  <2>2. lastMsgHash' = computeHash(taken'[c][Len(taken'[c])])
    BY <1>4, <1>10
  <2>3. ~Before(c)'
    BY <1>3 DEF Before
  <2>4. \A i \in 1..Len(taken'[c]) : KnownFrame(c, taken[c][i])'
    BY <1>3, <2>1 DEF KnownFrame
  <2>5. QED BY <1>10, <2>2, <2>3, <2>4 DEF TakenOf
<1>12. ASSUME ~overlapped, alarms'[c] = 0
       PROVE  alarms[c] = 0 /\ f.seq = expectedSeq
              /\ (expectedSeq > 0 => f.prev = computeHash(last))
  <2>1. alarms[c] = 0 /\ raised = 0
    <3>1. raised \in 0..2 /\ alarms[c] \in Nat /\ alarms[c] + raised = 0
      BY <1>2, <1>3, <1>4, <1>12
    <3> HIDE DEF raised
    <3> QED BY <3>1
  <2>2. f.seq = expectedSeq /\ (expectedSeq > 0 => f.prev = lastMsgHash)
    BY <2>1
  <2>3. QED BY <1>12, <2>1, <2>2 DEF ConnInv, TakenOf
<1>13. ASSUME ~overlapped, alarms'[c] = 0, f.mark = 0, f.seq > 0
       PROVE  last = sent[c][f.seq]
  <2> DEFINE k == f.seq
  <2>1. f.prev = computeHash(last)
    BY <1>12, <1>13
  <2>2. k \in Int /\ k > 0 /\ k + 1 \in 1..Len(sent[c]) /\ f = sent[c][k + 1]
    BY <1>1, <1>3, <1>13 DEF KnownFrame
  <2>3. k \in 1..Len(sent[c]) /\ k + 1 # 1 /\ k + 1 - 1 = k
    <3>1. Len(sent[c]) \in Nat
      BY DEF TypeInv, TypeOK
    <3> HIDE DEF k
    <3> QED BY <2>2, <3>1
  <2>4. f.prev = computeHash(sent[c][k])
    BY <2>2, <2>3 DEF SentInv
  <2>5. sent[c][k].conn = c /\ sent[c][k].seq = k - 1 /\ sent[c][k].mark = 0
    BY <2>3 DEF SentInv
  <2>6. last.mark = 0 /\ last.seq = k - 1
    BY <2>1, <2>4, <2>5 DEF computeHash
  <2>7. last = sent[c][last.seq + 1]
    BY <1>9, <2>6 DEF KnownFrame
  <2>8. k - 1 + 1 = k
    BY <2>2
  <2> HIDE DEF k, last
  <2>9. last = sent[c][k]
    BY <2>6, <2>7, <2>8
  <2> QED BY <2>9 DEF k
<1>14. GenuineOf(c)'
  <2>1. SUFFICES ASSUME ~overlapped, alarms'[c] = 0, NEW i \in 2..(n + 1),
                        taken'[c][i].mark = 0, taken'[c][i].seq > 0
                 PROVE  taken'[c][i - 1] = sent[c][taken'[c][i].seq]
    BY <1>3, <1>10 DEF GenuineOf
  <2>2. CASE i = n + 1
    <3>1. taken'[c][i] = f /\ taken'[c][i - 1] = last
      <4>1. n + 1 - 1 = n
        BY <1>9
      <4>2. QED BY <1>9, <1>10, <2>2, <4>1
    <3>2. QED BY <1>13, <2>1, <3>1
  <2>3. CASE i # n + 1
    <3>1. i \in 2..n /\ i \in 1..n /\ i - 1 \in 1..n
      BY <1>9, <2>3
    <3>2. taken'[c][i] = taken[c][i] /\ taken'[c][i - 1] = taken[c][i - 1]
      BY <1>10, <3>1
    <3>3. QED BY <1>12, <2>1, <3>1, <3>2 DEF ConnInv, GenuineOf
  <2>4. QED BY <2>2, <2>3
<1>15. QED BY <1>7, <1>8, <1>11, <1>14 DEF ConnInv

-----------------------------------------------------------------------------
(* The theorems.                                                           *)

LEMMA InitIInv == Init => IInv
<1> SUFFICES ASSUME Init PROVE IInv
  OBVIOUS
<1>1. TypeInv
  BY InitType
<1>2. PlaceInv /\ SessionInv
  BY BoundsAssumption DEF Init, PlaceInv, SessionInv, InSession, Conn
<1>3. AppInv /\ SentInv /\ LoginInv
  BY DEF Init, AppInv, SentInv, LoginInv
<1>4. ASSUME NEW c \in Conn PROVE ConnInv(c)
  BY DEF Init, ConnInv, CurOf, DebtOf, TakenOf, GenuineOf, Before, Relogin
<1>5. QED BY <1>1, <1>2, <1>3, <1>4 DEF IInv

LEMMA StepIInv == IInv /\ [Next]_vars => IInv'
<1> SUFFICES ASSUME IInv, [Next]_vars PROVE IInv'
  OBVIOUS
<1>1. TypeInv /\ PlaceInv /\ SessionInv /\ AppInv /\ SentInv /\ LoginInv
      /\ \A c \in Conn : ConnInv(c)
  BY DEF IInv
<1>2. TypeInv' /\ PlaceInv' /\ SessionInv' /\ AppInv' /\ SentInv' /\ LoginInv'
  BY <1>1, StepType, StepPlace, StepChain
<1>3. CASE App \/ UNCHANGED vars
  <2>1. Keeps
    BY <1>1, <1>3, AppKeeps
  <2>2. QED BY <1>1, <1>2, <2>1, KeepsConn DEF IInv
<1>4. ASSUME NEW c \in Conn, Server(c) \/ Path(c) PROVE IInv'
  <2>1. ASSUME NEW d \in Conn, d # c PROVE ConnInv(d)'
    BY <1>1, <1>4, <2>1, OthersKeep
  <2>2. ConnInv(c)'
    <3>1. CASE Receive(c) \/ Insert(c) \/ Replace(c)
      <4>1. PICK f \in Frame : Handle(c, f)
        BY <1>1, <3>1, Turn
      <4>2. at[c] = "anon" \/ at[c] = "member"
        BY <4>1 DEF Handle
      <4>3. QED BY <1>1, <3>1, <4>2, TurnAnon, TurnMember
    <3>2. CASE LoginRefused(c) \/ LoginCheck(c) \/ ReadError(c) \/ RemoveClient(c)
      BY <1>1, <3>2, WalkConn
    <3>3. CASE Lose(c)
      BY <1>1, <3>3, LoseConn
    <3>4. CASE LoginBind(c)
      BY <1>1, <3>4, BindConn
    <3>5. CASE FixUp(c)
      BY <1>1, <3>5, FixUpConn
    <3>6. CASE DropLink(c)
      <4>1. Keeps
        BY <1>1, <3>6 DEF DropLink, Keeps, goVars, chainVars, TypeInv, TypeOK
      <4>2. QED BY <1>1, <4>1, KeepsConn
    <3>7. QED
      BY <1>4, <3>1, <3>2, <3>3, <3>4, <3>5, <3>6 DEF Server, Path
  <2>3. QED BY <1>2, <2>1, <2>2 DEF IInv
<1>5. QED BY <1>3, <1>4 DEF Next

LEMMA IInvHolds == Spec => []IInv
  BY InitIInv, StepIInv, PTL DEF Spec

\* While the student's connections do not overlap on the backend, the chain flags of
\* a connection are bounded by what the path did to it, four for each frame it lost,
\* made up or replaced; on a path that behaves VerifyChain flags nothing, over any
\* number of reconnections.
THEOREM AlarmsAreOwed == Spec => []AlarmsBounded
<1>1. IInv => AlarmsBounded
  BY DEF IInv, ConnInv, DebtOf, AlarmsBounded
<1>2. QED BY <1>1, IInvHolds, PTL

\* On a connection without chain flags every frame that arrives as it was sent comes
\* right after the frame that was sent before it, whatever a proxy that knows how to
\* compute the hashes has put on the path.
THEOREM TamperingShows == Spec => []TamperEvident
<1>1. IInv => TamperEvident
  <2> SUFFICES ASSUME IInv, ~overlapped, NEW c \in Conn, alarms[c] = 0,
                      NEW i \in 2..Len(taken[c]), NEW k \in 2..Len(sent[c]),
                      taken[c][i] = sent[c][k]
               PROVE  taken[c][i - 1] = sent[c][k - 1]
    BY DEF TamperEvident
  <2>1. k \in 1..Len(sent[c]) /\ k - 1 > 0
    OBVIOUS
  <2>2. sent[c][k].mark = 0 /\ sent[c][k].seq = k - 1
    BY <2>1 DEF IInv, SentInv
  <2> QED
    BY <2>1, <2>2 DEF IInv, ConnInv, GenuineOf
<1>2. QED BY <1>1, IInvHolds, PTL

\* Two sessions of a student have one cause only: a login that passed the search of
\* clients while another one had passed it and was not yet seen there.
OnlyByRace ==
    /\ [](~overlapped => AtMostOneSession)
    /\ [][~overlapped /\ overlapped' =>
             \E c, d \in Conn : c # d /\ at[c] = "login" /\ at[d] = "checked"]_vars

\* Without such a race wsLogin keeps what it says: the search of clients is enough against
\* every reconnection, late frame and repeated login.
THEOREM SecondSessionNeedsRace == Spec => OnlyByRace
<1>1. IInv => (~overlapped => AtMostOneSession)
  BY DEF IInv, SessionInv, InSession, AtMostOneSession
<1>2. [Next]_vars =>
        [~overlapped /\ overlapped' =>
             \E c, d \in Conn : c # d /\ at[c] = "login" /\ at[d] = "checked"]_vars
  <2> SUFFICES ASSUME Next, ~overlapped, overlapped'
               PROVE  \E c, d \in Conn : c # d /\ at[c] = "login" /\ at[d] = "checked"
    OBVIOUS
  <2>1. ~App
    BY DEF App, Dial, OnOpen, SendLogin, SendEvent, ws_send, OnClose
  <2>2. PICK c \in Conn : Server(c) \/ Path(c)
    BY <2>1 DEF Next
  <2>3. LoginCheck(c)
    BY <2>2 DEF Server, Path, Receive, LoginRefused, LoginBind, FixUp, ReadError, RemoveClient, DropLink, Lose,
       Insert, Replace, Handle
  <2> QED
    BY <2>3 DEF LoginCheck, InSession
<1> QED
  BY <1>1, <1>2, IInvHolds, PTL DEF Spec, OnlyByRace

-----------------------------------------------------------------------------
(* The chain implements the transcript.                                    *)

\* What a transcript consists of, read off the variables of the chain.
MapStays == UNCHANGED <<sent, Heard, Spoiled, Flagged>>

LEMMA SameMap ==
  ASSUME UNCHANGED <<sent, alarms, faults, taken, overlapped>>
  PROVE  MapStays
BY DEF MapStays, Heard, Spoiled, Flagged

LEMMA StaysImplements == ASSUME MapStays PROVE [Chain!Next]_(Chain!vars)
BY DEF MapStays, Chain!vars

\* A step that reads no frame that counts: interference and flags.
LEMMA FlagImplements ==
  ASSUME UNCHANGED sent,
         Spoiled \subseteq Spoiled', Spoiled' \subseteq Conn,
         Flagged \subseteq Flagged', Flagged' \subseteq Spoiled',
         \A d \in Conn : d \notin Flagged' => taken'[d] = taken[d]
  PROVE  [Chain!Next]_(Chain!vars)
<1>1. Heard' = [d \in Conn |-> IF d \in Flagged' THEN <<>> ELSE Heard[d]]
  <2>1. ASSUME NEW d \in Conn
        PROVE  (IF d \in Flagged' THEN <<>> ELSE taken'[d])
               = IF d \in Flagged' THEN <<>> ELSE Heard[d]
    BY DEF Heard
  <2> QED
    BY <2>1 DEF Heard
<1>2. Chain!Flag
  BY <1>1 DEF Chain!Flag
<1>3. \E S \in SUBSET Conn : Spoiled' = Spoiled \cup S
  <2>1. Spoiled' \in SUBSET Conn /\ Spoiled' = Spoiled \cup Spoiled'
    OBVIOUS
  <2> QED BY <2>1
<1> QED
  BY <1>2, <1>3 DEF Chain!Next, Chain!Read

\* The application: ws_send adds a frame at the end, if the connection is up.
LEMMA SendImplements ==
  ASSUME IInv, NEW kind \in {"login", "event"}, ws_send(kind)
  PROVE  [Chain!Next]_(Chain!vars)
<1> DEFINE f == [conn |-> conn, seq |-> seq, prev |-> prevHash, kind |-> kind, mark |-> 0]
<1>1. /\ UNCHANGED <<alarms, faults, taken, overlapped>>
      /\ UNCHANGED <<Heard, Spoiled, Flagged>>
  <2>1. UNCHANGED <<alarms, faults, taken, overlapped>>
    BY DEF ws_send, chainVars
  <2> QED
    BY <2>1 DEF Heard, Spoiled, Flagged
<1>2. CASE UNCHANGED sent
  BY <1>1, <1>2, SameMap, StaysImplements
<1>3. CASE sent' = [sent EXCEPT ![conn] = Append(@, f)]
  <2>1. conn \in Conn /\ sent \in [Conn -> Seq(Frame)]
    BY DEF IInv, TypeInv, TypeOK, ws_send, Conn
  <2> HIDE DEF f
  <2>2. sent'[conn] = Append(sent[conn], f) /\ sent[conn] \in Seq(Frame)
    BY <1>3, <2>1
  <2>3. Len(sent'[conn]) = Len(sent[conn]) + 1 /\ sent'[conn][Len(sent'[conn])] = f
    BY <2>2
  <2>4. Chain!Send(conn)
    BY <1>1, <1>3, <2>3 DEF Chain!Send, Chain!End
  <2> QED
    BY <2>1, <2>4 DEF Chain!Next
<1> QED
  BY <1>2, <1>3 DEF ws_send

\* A login that overlaps with another session spoils, and gives up, everything.
LEMMA CheckImplements ==
  ASSUME IInv, NEW c \in Conn, LoginCheck(c)
  PROVE  [Chain!Next]_(Chain!vars)
<1>1. UNCHANGED <<sent, alarms, faults, taken>>
  BY DEF LoginCheck, pathVars, chainVars
<1>2. overlapped' \in BOOLEAN /\ (overlapped => overlapped')
  BY DEF LoginCheck, InSession, IInv, TypeInv, TypeOK
<1>3. CASE overlapped' = overlapped
  BY <1>1, <1>3, SameMap, StaysImplements
<1>4. CASE overlapped' /\ ~overlapped
  <2>1. Spoiled' = Conn /\ Flagged' = Conn /\ Spoiled \subseteq Conn /\ Flagged \subseteq Conn
    BY <1>4 DEF Spoiled, Flagged
  <2> QED
    BY <1>1, <2>1, FlagImplements
<1> QED
  BY <1>2, <1>3, <1>4 DEF IInv, TypeInv, TypeOK

\* Every flag has its reason.
LEMMA FlaggedSpoiled == ASSUME IInv PROVE Flagged \subseteq Spoiled
<1>1. ASSUME ~overlapped, NEW d \in Conn, alarms[d] > 0
      PROVE  faults[d] > 0
  <2>1. alarms[d] <= 4 * faults[d] /\ alarms[d] \in Nat /\ faults[d] \in Nat
    BY <1>1 DEF IInv, ConnInv, DebtOf, TypeInv, TypeOK
  <2> QED
    BY <1>1, <2>1
<1> QED
  BY <1>1 DEF Flagged, Spoiled

LEMMA FaultGrows ==
  ASSUME TypeInv, NEW c \in Conn, Fault(c) \/ UNCHANGED faults
  PROVE  \A d \in Conn : faults'[d] \in Nat /\ faults[d] \in Nat /\ faults[d] <= faults'[d]
<1>1. faults \in [Conn -> Nat]
  BY DEF TypeInv, TypeOK
<1>2. CASE faults' = [faults EXCEPT ![c] = @ + 1]
  BY <1>1, <1>2
<1>3. CASE UNCHANGED faults
  BY <1>1, <1>3
<1> QED
  BY <1>2, <1>3 DEF Fault

\* The path loses a frame: interference without a flag yet.
LEMMA LoseImplements ==
  ASSUME IInv, NEW c \in Conn, Lose(c)
  PROVE  [Chain!Next]_(Chain!vars)
<1>1. /\ UNCHANGED <<sent, alarms, taken, overlapped>>
      /\ \A d \in Conn : faults'[d] \in Nat /\ faults[d] \in Nat /\ faults[d] <= faults'[d]
  <2>1. UNCHANGED <<sent, alarms, taken, overlapped>> /\ Fault(c)
    BY DEF Lose, chainVars
  <2> QED
    BY <2>1, FaultGrows DEF IInv
<1>2. Flagged' = Flagged /\ Flagged \subseteq Spoiled
  BY <1>1, FlaggedSpoiled DEF Flagged
<1>3. Spoiled \subseteq Spoiled' /\ Spoiled' \subseteq Conn
  BY <1>1 DEF Spoiled
<1> QED
  BY <1>1, <1>2, <1>3, FlagImplements

\* A frame is heard: nothing else changes in the transcript but who is spoiled.
LEMMA HearImplements ==
  ASSUME IInv, NEW c \in Conn, UNCHANGED <<sent, overlapped, alarms>>,
         c \notin Flagged, Spoiled \subseteq Spoiled', Spoiled' \subseteq Conn,
         NEW f \in Frame, taken'[c] = Append(taken[c], f),
         \A d \in Conn \ {c} : taken'[d] = taken[d],
         Chain!Opens(c, f) \/ Chain!Follows(c, f) \/ Chain!Intrudes(c, f)
  PROVE  [Chain!Next]_(Chain!vars)
<1>1. Flagged' = Flagged
  BY DEF Flagged
<1>2. Heard[c] = taken[c] /\ Heard'[c] = Append(taken[c], f) /\ taken[c] \in Seq(Frame)
  BY <1>1 DEF Heard, IInv, TypeInv, TypeOK
<1>3. Len(Heard'[c]) = Len(Heard[c]) + 1 /\ Heard'[c][Len(Heard'[c])] = f
  BY <1>2
<1>4. Heard' = [Heard EXCEPT ![c] = Append(@, f)]
  <2>1. \A d \in Conn \ {c} : Heard'[d] = Heard[d]
    BY <1>1 DEF Heard
  <2>2. Heard' = [d \in Conn |-> Heard'[d]] /\ Heard = [d \in Conn |-> Heard[d]]
    BY DEF Heard
  <2>3. Heard'[c] = Append(Heard[c], f)
    BY <1>2
  <2> HIDE DEF Heard
  <2> QED BY <2>1, <2>2, <2>3
<1>5. Chain!Hear(c)
  BY <1>1, <1>3, <1>4 DEF Chain!Hear, Chain!End
<1>6. \E S \in SUBSET Conn : Spoiled' = Spoiled \cup S
  <2>1. Spoiled' \in SUBSET Conn /\ Spoiled' = Spoiled \cup Spoiled'
    OBVIOUS
  <2> QED BY <2>1
<1> QED
  BY <1>5, <1>6 DEF Chain!Next, Chain!Read

\* The chain starts with the login.
LEMMA FixUpImplements ==
  ASSUME IInv, NEW c \in Conn, FixUp(c)
  PROVE  [Chain!Next]_(Chain!vars)
<1>1. UNCHANGED <<sent, alarms, faults, overlapped>>
  BY DEF FixUp, pathVars
<1>2. taken[c] = <<>> /\ taken'[c] = <<cur[c]>> /\ \A d \in Conn \ {c} : taken'[d] = taken[d]
  BY DEF FixUp, IInv, ConnInv, TakenOf, Before, TypeInv, TypeOK
<1>3. cur[c] \in Frame /\ <<>> \in Seq(Frame) /\ cur[c].kind = "login"
      /\ (faults[c] > 0 \/ (pos[c] > 0 /\ cur[c] = sent[c][pos[c]]))
  BY DEF FixUp, IInv, TypeInv, ConnInv, CurOf
<1>4. taken'[c] = Append(taken[c], cur[c])
  BY <1>2, <1>3
<1>5. Flagged' = Flagged /\ Spoiled' = Spoiled /\ Spoiled' \subseteq Conn
  BY <1>1 DEF Flagged, Spoiled
<1>6. CASE c \in Flagged
  <2>1. \A d \in Conn : d \notin Flagged' => taken'[d] = taken[d]
    BY <1>2, <1>5, <1>6
  <2> QED
    BY <1>1, <1>5, <2>1, FlagImplements, FlaggedSpoiled
<1>7. CASE c \notin Flagged
  <2>1. Heard[c] = <<>>
    BY <1>2, <1>7 DEF Heard
  <2>2. c \in Spoiled' \/ \E i \in 1..Len(sent[c]) : cur[c] = sent[c][i]
    <3>1. CASE faults[c] > 0
      BY <1>5, <3>1 DEF Spoiled
    <3>2. CASE pos[c] > 0 /\ cur[c] = sent[c][pos[c]]
      <4>1. pos[c] \in 1..Len(sent[c])
        BY <3>2 DEF IInv, TypeInv, TypeOK
      <4> QED BY <3>2, <4>1
    <3> QED BY <1>3, <3>1, <3>2
  <2>3. Chain!Opens(c, cur[c])
    BY <1>3, <2>1, <2>2 DEF Chain!Opens
  <2> QED
    BY <1>1, <1>2, <1>3, <1>4, <1>5, <1>7, <2>3, HearImplements
<1> QED BY <1>6, <1>7

\* What one turn of the read loop changes of the transcript.
LEMMA TurnEffect ==
  ASSUME IInv, NEW c \in Conn, Receive(c) \/ Insert(c) \/ Replace(c)
  PROVE  /\ UNCHANGED <<sent, overlapped>>
         /\ \A d \in Conn : faults'[d] \in Nat /\ faults[d] \in Nat /\ faults[d] <= faults'[d]
         /\ \A d \in Conn : alarms'[d] \in Nat /\ alarms[d] \in Nat /\ alarms[d] <= alarms'[d]
         /\ \A d \in Conn \ {c} : alarms'[d] = alarms[d] /\ taken'[d] = taken[d]
         /\ alarms \in [Conn -> Nat] /\ alarms' \in [Conn -> Nat]
         /\ \/ UNCHANGED <<alarms, taken>>
            \/ /\ at[c] = "member"
               /\ \E f \in Frame :
                      /\ taken'[c] = Append(taken[c], f) /\ KnownFrame(c, f)
                      /\ f.seq > 0 \/ faults'[c] > 0
                      /\ faults'[c] > 0 \/ f.mark = 0
<1>1. TypeInv /\ SentInv
  BY DEF IInv
<1>2. PICK f \in Frame, p \in 0..Len(sent[c]) :
         /\ Handle(c, f)
         /\ pos' = [pos EXCEPT ![c] = p]
         /\ p \in {pos[c], pos[c] + 1}
         /\ KnownFrame(c, f)
         /\ \/ p = pos[c] + 1 /\ f = sent[c][p] /\ faults' = faults
            \/ Fault(c)
  BY <1>1, Turn
<1>3. UNCHANGED <<sent, overlapped>>
  BY <1>2 DEF Handle
<1>4. Fault(c) \/ UNCHANGED faults
  BY <1>2
<1>5. CASE at[c] = "member"
  <2>1. VerifyChain(c, f) /\ taken' = [taken EXCEPT ![c] = Append(@, f)]
    BY <1>2, <1>5 DEF Handle
  <2>2. \E k \in Nat : alarms' = [alarms EXCEPT ![c] = @ + k]
    <3> DEFINE i == IF f.seq # expectedSeq THEN 1 ELSE 0
               j == IF expectedSeq > 0 /\ f.prev # lastMsgHash THEN 1 ELSE 0
    <3>1. alarms' = [alarms EXCEPT ![c] = alarms[c] + i + j]
      BY <2>1 DEF VerifyChain
    <3>2. i \in Nat /\ j \in Nat /\ alarms[c] \in Nat
      BY <1>1 DEF TypeInv, TypeOK
    <3> HIDE DEF i, j
    <3>3. i + j \in Nat /\ alarms[c] + i + j = alarms[c] + (i + j)
      BY <3>2
    <3> QED
      BY <3>1, <3>3
  <2>3. PICK k \in Nat : alarms' = [alarms EXCEPT ![c] = @ + k]
    BY <2>2
  <2>4. alarms \in [Conn -> Nat] /\ taken \in [Conn -> Seq(Frame)]
    BY <1>1 DEF TypeInv, TypeOK
  <2>5. /\ \A d \in Conn : alarms'[d] \in Nat /\ alarms[d] \in Nat /\ alarms[d] <= alarms'[d]
        /\ \A d \in Conn \ {c} : alarms'[d] = alarms[d]
        /\ alarms' \in [Conn -> Nat]
    BY <2>3, <2>4
  <2>6. taken'[c] = Append(taken[c], f) /\ \A d \in Conn \ {c} : taken'[d] = taken[d]
    BY <2>1, <2>4
  <2>7. (f.seq > 0 \/ faults'[c] > 0) /\ (faults'[c] > 0 \/ f.mark = 0)
    <3>1. CASE Fault(c)
      <4>1. faults'[c] = faults[c] + 1 /\ faults[c] \in Nat
        BY <1>1, <3>1, FaultType DEF TypeInv, TypeOK
      <4> QED BY <4>1
    <3>2. CASE p = pos[c] + 1 /\ f = sent[c][p] /\ faults' = faults
      <4>1. p \in 1..Len(sent[c]) /\ pos[c] \in Nat
        BY <1>1, <1>2, <3>2 DEF TypeInv, TypeOK
      <4>2. f.seq = p - 1 /\ f.mark = 0
        BY <1>1, <3>2, <4>1 DEF SentInv
      <4>3. faults[c] > 0 \/ LoginPassed(c)
        BY <1>5 DEF IInv, ConnInv, CurOf
      <4>4. LoginPassed(c) => pos[c] > 0
        BY <4>1 DEF LoginPassed
      <4> QED BY <3>2, <4>1, <4>2, <4>3, <4>4
    <3> QED BY <1>2, <3>1, <3>2
  <2> QED
    BY <1>1, <1>2, <1>3, <1>4, <1>5, <2>4, <2>5, <2>6, <2>7, FaultGrows
<1>6. CASE at[c] # "member"
  <2>1. UNCHANGED <<alarms, taken>>
    BY <1>2, <1>6 DEF Handle, chainVars
  <2>2. alarms \in [Conn -> Nat]
    BY <1>1 DEF TypeInv, TypeOK
  <2> QED
    BY <1>1, <1>3, <1>4, <2>1, <2>2, FaultGrows
<1> QED
  BY <1>5, <1>6

\* A frame that raises no flag continues what was heard, or somebody has put it there.
LEMMA TakenContinues ==
  ASSUME IInv, IInv', UNCHANGED <<sent, overlapped>>, NEW c \in Conn, ~overlapped,
         at[c] = "member", alarms[c] = 0, alarms'[c] = 0,
         NEW f \in Frame, taken'[c] = Append(taken[c], f), KnownFrame(c, f),
         f.seq > 0 \/ faults'[c] > 0, faults'[c] > 0 \/ f.mark = 0
  PROVE  Chain!Follows(c, f) \/ Chain!Intrudes(c, f)
<1> DEFINE t == taken[c]
           n == Len(t)
<1>1. t \in Seq(Frame) /\ t # <<>>
  BY DEF IInv, ConnInv, TakenOf, TypeInv, TypeOK
<1>2. n \in Nat /\ n >= 1 /\ Len(taken'[c]) = n + 1 /\ taken'[c][n + 1] = f
      /\ taken'[c][n] = t[n]
  BY <1>1
<1>3. Heard[c] = t /\ Heard[c] # <<>>
  BY <1>1 DEF Heard, Flagged
<1>4. CASE f.mark = 0 /\ f.seq > 0
  <2>1. f.seq \in Int /\ f.seq + 1 \in 1..Len(sent[c]) /\ f = sent[c][f.seq + 1]
    BY <1>4 DEF KnownFrame, Frame
  <2>2. taken'[c][n + 1 - 1] = sent[c][f.seq]
    <3>1. n + 1 \in 2..Len(taken'[c])
      BY <1>2
    <3> HIDE DEF n
    <3>2. GenuineOf(c)' /\ sent' = sent /\ overlapped' = overlapped
      BY DEF IInv, ConnInv
    <3> QED
      BY <1>2, <1>4, <3>1, <3>2 DEF GenuineOf
  <2>3. f.seq + 1 \in 2..Len(sent[c]) /\ f.seq + 1 - 1 = f.seq /\ n + 1 - 1 = n
    BY <1>2, <1>4, <2>1
  <2>4. t[n] = sent[c][f.seq + 1 - 1]
    BY <1>2, <2>2, <2>3
  <2> QED
    BY <1>3, <2>1, <2>3, <2>4 DEF Chain!Follows, Chain!End
<1>5. CASE ~(f.mark = 0 /\ f.seq > 0)
  <2>1. c \in Spoiled'
    BY <1>5 DEF Spoiled
  <2>2. ASSUME NEW i \in 2..Len(sent[c])
        PROVE  f # sent[c][i]
    <3>1. sent[c][i].mark = 0 /\ sent[c][i].seq = i - 1 /\ i - 1 > 0
      BY DEF IInv, SentInv
    <3> QED BY <1>5, <3>1
  <2> QED
    BY <1>3, <2>1, <2>2 DEF Chain!Intrudes
<1> QED BY <1>4, <1>5

LEMMA TurnImplements ==
  ASSUME IInv, IInv', NEW c \in Conn, Receive(c) \/ Insert(c) \/ Replace(c)
  PROVE  [Chain!Next]_(Chain!vars)
<1>1. /\ UNCHANGED <<sent, overlapped>>
      /\ \A d \in Conn : faults'[d] \in Nat /\ faults[d] \in Nat /\ faults[d] <= faults'[d]
      /\ \A d \in Conn : alarms'[d] \in Nat /\ alarms[d] \in Nat /\ alarms[d] <= alarms'[d]
      /\ \A d \in Conn \ {c} : alarms'[d] = alarms[d] /\ taken'[d] = taken[d]
      /\ alarms \in [Conn -> Nat] /\ alarms' \in [Conn -> Nat]
      /\ \/ UNCHANGED <<alarms, taken>>
         \/ /\ at[c] = "member"
            /\ \E f \in Frame :
                   /\ taken'[c] = Append(taken[c], f) /\ KnownFrame(c, f)
                   /\ f.seq > 0 \/ faults'[c] > 0
                   /\ faults'[c] > 0 \/ f.mark = 0
  BY TurnEffect
<1>2. Spoiled \subseteq Spoiled' /\ Spoiled' \subseteq Conn
  BY <1>1 DEF Spoiled
<1>3. Flagged \subseteq Flagged' /\ Flagged' \subseteq Spoiled'
  <2>1. Flagged' \subseteq Spoiled'
    <3>1. ASSUME ~overlapped', NEW d \in Conn, alarms'[d] > 0
          PROVE  faults'[d] > 0
      <4>1. alarms'[d] <= 4 * faults'[d]
        BY <3>1 DEF IInv, ConnInv, DebtOf
      <4> QED
        BY <1>1, <3>1, <4>1
    <3> QED
      BY <3>1 DEF Flagged, Spoiled
  <2> QED
    BY <1>1, <2>1 DEF Flagged
<1>4. CASE UNCHANGED <<alarms, taken>> \/ c \in Flagged'
  <2>1. \A d \in Conn : d \notin Flagged' => taken'[d] = taken[d]
    BY <1>1, <1>4
  <2> QED
    BY <1>1, <1>2, <1>3, <2>1, FlagImplements
<1>5. CASE ~(UNCHANGED <<alarms, taken>>) /\ c \notin Flagged'
  <2>1. ~overlapped /\ alarms'[c] = 0 /\ alarms[c] = 0 /\ c \notin Flagged
    BY <1>1, <1>5 DEF Flagged
  <2>2. PICK f \in Frame :
            /\ taken'[c] = Append(taken[c], f) /\ KnownFrame(c, f)
            /\ f.seq > 0 \/ faults'[c] > 0
            /\ faults'[c] > 0 \/ f.mark = 0
    BY <1>1, <1>5
  <2>3. at[c] = "member"
    BY <1>1, <1>5
  <2>4. UNCHANGED alarms
    <3>1. \A d \in Conn : alarms'[d] = alarms[d]
      BY <1>1, <2>1
    <3> QED BY <1>1, <3>1
  <2>5. Chain!Follows(c, f) \/ Chain!Intrudes(c, f)
    BY <1>1, <2>1, <2>2, <2>3, TakenContinues
  <2> QED
    BY <1>1, <1>2, <2>1, <2>2, <2>4, <2>5, HearImplements
<1> QED
  BY <1>4, <1>5

LEMMA StepImplements == IInv /\ IInv' /\ [Next]_vars => [Chain!Next]_(Chain!vars)
<1> SUFFICES ASSUME IInv, IInv', [Next]_vars
             PROVE  [Chain!Next]_(Chain!vars)
  OBVIOUS
<1>1. CASE \E kind \in {"login", "event"} : ws_send(kind)
  BY <1>1, SendImplements
<1>2. CASE UNCHANGED <<sent, alarms, faults, taken, overlapped>>
  BY <1>2, SameMap, StaysImplements
<1>3. CASE App
  <2>1. CASE Dial \/ OnOpen \/ OnClose
    BY <1>2, <2>1 DEF Dial, OnOpen, OnClose, pathVars, chainVars
  <2>2. CASE SendLogin \/ SendEvent
    BY <1>1, <1>2, <2>2 DEF SendLogin, SendEvent, pathVars, chainVars
  <2> QED
    BY <1>3, <2>1, <2>2 DEF App
<1>4. ASSUME NEW c \in Conn, Server(c) \/ Path(c)
      PROVE  [Chain!Next]_(Chain!vars)
  <2>1. CASE Receive(c) \/ Insert(c) \/ Replace(c)
    BY <2>1, TurnImplements
  <2>2. CASE LoginRefused(c) \/ LoginBind(c) \/ ReadError(c) \/ RemoveClient(c) \/ DropLink(c)
    BY <1>2, <2>2 DEF LoginRefused, LoginBind, ReadError, RemoveClient, DropLink, pathVars, chainVars
  <2> QED
    BY <1>4, <2>1, <2>2, CheckImplements, FixUpImplements, LoseImplements DEF Server, Path
<1>5. CASE UNCHANGED vars
  BY <1>2, <1>5 DEF vars, pathVars, chainVars
<1> QED
  BY <1>3, <1>4, <1>5 DEF Next

LEMMA InitImplements == Init => Chain!Init
<1> SUFFICES ASSUME Init PROVE Chain!Init
  OBVIOUS
<1>1. Spoiled = {} /\ Flagged = {}
  BY DEF Init, Spoiled, Flagged
<1>2. Heard = [c \in Conn |-> <<>>]
  BY <1>1 DEF Init, Heard
<1> QED
  BY <1>1, <1>2 DEF Init, Chain!Init

\* Sequence numbers and hashes, checked frame by frame by goroutines that share them,
\* give the backend a transcript: on each connection what it has heard grows by the
\* frame the application sent next, or by one somebody on the path has put there and
\* after which nothing is heard as it was sent, until a flag for which there was a reason.
THEOREM ImplementsTranscript == Spec => TranscriptSpec
<1>1. IInv /\ IInv' /\ [Next]_vars => [Chain!Next]_(Chain!vars)
  BY StepImplements
<1> QED
  BY <1>1, InitImplements, IInvHolds, PTL DEF Spec, TranscriptSpec, Chain!Spec
=============================================================================
