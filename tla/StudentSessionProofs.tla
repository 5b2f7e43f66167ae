------------------------ MODULE StudentSessionProofs ------------------------
(***************************************************************************)
(* Theorems about StudentSession, for every set of connections and every   *)
(* value of the bounds.                                                    *)
(***************************************************************************)
EXTENDS StudentSession, TLAPS

(* Types.  Goto keeps at and local typed, and so does every step built on   *)
(* it.                                                                      *)

LEMMA NoLocalsType == NoLocals \in Locals /\ EmptyStats \in Snapshot
  BY DEF NoLocals, Locals, Kinds, EmptyStats, Snapshot

LEMMA ToJSONType == cs \in CheatingState => ToJSON \in Snapshot
  BY DEF ToJSON, CheatingState, Snapshot

LEMMA GotoType ==
  ASSUME TypeOK, NEW c \in Conn, NEW to \in Places, NEW l \in Locals,
         Goto(c, to, l)
  PROVE  at' \in [Conn -> Places] /\ local' \in [Conn -> Locals]
  BY NoLocalsType DEF TypeOK, Goto

LEMMA MoveType ==
  ASSUME TypeOK, NEW c \in Conn, NEW from \in Places, NEW to \in Places,
         Move(c, from, to)
  PROVE  TypeOK'
<1>1. local[c] \in Locals
  BY DEF TypeOK
<1>2. at' \in [Conn -> Places] /\ local' \in [Conn -> Locals]
  BY <1>1, GotoType DEF Move
<1> QED
  BY <1>2 DEF TypeOK, Move, dbVars, clientVars, otherVars, historyVars

LEMMA MovesType ==
  ASSUME TypeOK, NEW c \in Conn,
         \/ AddClient(c) \/ LoginRefused(c) \/ LoginStatus(c)
         \/ LoginUnfinished(c) \/ LoginAlone(c)
         \/ EventRefused(c) \/ EventAdmitted(c)
  PROVE  TypeOK'
<1>1. CASE AddClient(c)
  BY <1>1, MoveType DEF AddClient, Places
<1>2. CASE LoginRefused(c)
  BY <1>2, MoveType DEF LoginRefused, Places
<1>3. CASE LoginStatus(c)
  BY <1>3, MoveType DEF LoginStatus, Places
<1>4. CASE LoginUnfinished(c)
  <2>1. Move(c, "admitted", "read") \/ Move(c, "admitted", "unfinished")
    BY <1>4 DEF LoginUnfinished
  <2> QED
    BY <2>1, MoveType DEF Places
<1>5. CASE LoginAlone(c)
  <2>1. Move(c, "unfinished", "read") \/ Move(c, "unfinished", "alone")
    BY <1>5 DEF LoginAlone
  <2> QED
    BY <2>1, MoveType DEF Places
<1>6. CASE EventRefused(c)
  <2>1. Move(c, "dispatch", "read") \/ Move(c, "insert", "read")
    BY <1>6 DEF EventRefused
  <2> QED
    BY <2>1, MoveType DEF Places
<1>7. CASE EventAdmitted(c)
  BY <1>7, MoveType DEF EventAdmitted, Places
<1> QED
  BY <1>1, <1>2, <1>3, <1>4, <1>5, <1>6, <1>7

LEMMA SnapType ==
  ASSUME TypeOK, NEW c \in Conn, Snap(c)
  PROVE  TypeOK'
<1>1. ToJSON \in Snapshot /\ local[c] \in Locals
  BY ToJSONType DEF TypeOK
<1>2. [local[c] EXCEPT !.snap = ToJSON] \in Locals
  BY <1>1 DEF Locals
<1>3. at' \in [Conn -> Places] /\ local' \in [Conn -> Locals]
  BY <1>2, GotoType DEF Snap, Places
<1> QED
  BY <1>3 DEF TypeOK, Snap, InFlight, dbVars, clientVars, otherVars

LEMMA RaiseType ==
  ASSUME TypeOK, NEW by \in Conn \cup {"checker"}, NEW n \in Nat, Raise(by, n)
  PROVE  told' \in SUBSET Nat /\ notices' \in SUBSET Notices
<1>1. cs.era \in Nat /\ cs.flags \in Nat
  BY DEF TypeOK, CheatingState
<1>2. Positions(n) \subseteq Nat
  BY <1>1 DEF Positions
<1>3. [by : {by}, era : {cs.era}, flag : Positions(n)] \subseteq Notices
  BY <1>1, <1>2 DEF Notices
<1> QED
  BY <1>3 DEF TypeOK, Raise

LEMMA TellType ==
  ASSUME TypeOK, NEW by, Tell(by)
  PROVE  told' \in SUBSET Nat /\ notices' \in SUBSET Notices
<1>1. \A m \in notices : m.flag \in Nat
  BY DEF TypeOK, Notices
<1> QED
  BY <1>1 DEF TypeOK, Tell

LEMMA WriteType ==
  ASSUME TypeOK, NEW c \in Conn, Write(c)
  PROVE  TypeOK'
<1>1. local[c] \in Locals
  BY DEF TypeOK
<1>2. [NoLocals EXCEPT !.req = local[c].req] \in Locals
  BY <1>1, NoLocalsType DEF Locals
<1>3. local[c].then \in Places \/ local[c].then = "tell"
  BY <1>1 DEF Locals, Places
<1>4. at' \in [Conn -> Places] /\ local' \in [Conn -> Locals]
  BY <1>2, <1>3, NoLocalsType, GotoType DEF Write, NotifyFlags, Places
<1>5. told' \in SUBSET Nat /\ notices' \in SUBSET Notices
  <2>1. /\ cs.flags \in Nat /\ local[c].before \in Nat
        /\ told \in SUBSET Nat /\ notices \in SUBSET Notices
    BY <1>1 DEF TypeOK, CheatingState, Locals
  <2>2. (local[c].before + 1)..cs.flags \subseteq Nat
    BY <2>1
  <2>3. CASE NotifyFlags(c) /\ UNCHANGED notices
    BY <2>1, <2>2, <2>3 DEF NotifyFlags
  <2>4. CASE Tell(c)
    BY <2>4, TellType
  <2> QED
    BY <2>3, <2>4 DEF Write
<1>6. stats' \in Snapshot /\ saveSpoiled' \in BOOLEAN
  BY <1>1 DEF TypeOK, Write, Store, Locals
<1> QED
  BY <1>4, <1>5, <1>6 DEF TypeOK, Write, clientVars, otherVars

LEMMA ReceiveType ==
  ASSUME TypeOK, NEW c \in Conn, NEW kind \in Kinds, Receive(c, kind)
  PROVE  TypeOK'
<1>1. /\ [NoLocals EXCEPT !.req = kind] \in Locals
      /\ [NoLocals EXCEPT !.req = kind, !.then = "dispatch"] \in Locals
  BY NoLocalsType DEF Locals
<1>2. at' \in [Conn -> Places] /\ local' \in [Conn -> Locals]
  BY <1>1, GotoType DEF Receive, Places
<1>3. cs' \in CheatingState /\ told' \in SUBSET Nat /\ notices' \in SUBSET Notices
  <2>1. cs.flags \in Nat
    BY DEF TypeOK, CheatingState
  <2>2. ASSUME NEW n \in 1..2, Raise(c, n)
        PROVE  told' \in SUBSET Nat /\ notices' \in SUBSET Notices
    BY <2>2, RaiseType
  <2>3. \A n \in 1..2 : [cs EXCEPT !.flags = @ + n] \in CheatingState
    BY <2>1 DEF TypeOK, CheatingState
  <2> QED
    BY <2>2, <2>3 DEF TypeOK, Receive
<1>4. reads' \in [Conn -> Nat]
  BY DEF TypeOK, Receive
<1> QED
  BY <1>2, <1>3, <1>4 DEF TypeOK, Receive, dbVars, clientVars, otherVars

LEMMA LoginNameType ==
  ASSUME TypeOK, NEW c \in Conn, LoginName(c)
  PROVE  TypeOK'
<1>1. at' \in [Conn -> Places] /\ local' \in [Conn -> Locals]
  BY GotoType DEF LoginName, TypeOK, Places
<1>2. sid' \in [Conn -> BOOLEAN]
  BY DEF TypeOK, LoginName
<1> QED
  BY <1>1, <1>2 DEF TypeOK, LoginName, dbVars, otherVars, historyVars

LEMMA GetCheatingStateType ==
  ASSUME cs \in CheatingState
  PROVE  GetCheatingState \in CheatingState
  BY DEF GetCheatingState, CheatingState

LEMMA LoginBindType ==
  ASSUME TypeOK, NEW c \in Conn, LoginBind(c)
  PROVE  TypeOK'
<1>1. at' \in [Conn -> Places] /\ local' \in [Conn -> Locals]
  BY NoLocalsType, GotoType DEF LoginBind, Places
<1>2. cs' \in CheatingState
  <2>1. GetCheatingState \in CheatingState
    BY GetCheatingStateType DEF TypeOK
  <2> QED
    BY <2>1 DEF LoginBind, CheatingState
<1>3. cheating' \in [Conn -> BOOLEAN] /\ told' \in SUBSET Nat /\ logins' \in Nat
  BY DEF TypeOK, LoginBind
<1>4. /\ UNCHANGED <<dbVars, reads, sid, fin, otherVars, used, offlines, notices,
                     spared, saveSpoiled, clearRaced>>
      /\ owed' \in BOOLEAN
  BY DEF LoginBind
<1>5. /\ UNCHANGED <<status, finishedEvent, stats, reads, sid, fin, checker,
                     checkerSnap, clearer, clearerSnap, teacher, expiry, used>>
      /\ UNCHANGED <<offlines, notices, spared, saveSpoiled, clearRaced>>
  BY <1>4 DEF dbVars, otherVars
<1> QED
  BY <1>1, <1>2, <1>3, <1>4, <1>5 DEF TypeOK

LEMMA EventInsertType ==
  ASSUME TypeOK, NEW c \in Conn, EventInsert(c)
  PROVE  TypeOK'
<1>1. [local[c] EXCEPT !.before = cs.flags] \in Locals
  BY DEF TypeOK, Locals, CheatingState
<1>2. at' \in [Conn -> Places] /\ local' \in [Conn -> Locals]
  BY <1>1, GotoType DEF EventInsert, Places
<1>3. cs' \in CheatingState
  BY DEF TypeOK, EventInsert, CheatingState
<1> QED
  BY <1>2, <1>3, ZenonT(60) DEF TypeOK, EventInsert, otherVars

LEMMA EventUpdateType ==
  ASSUME TypeOK, NEW c \in Conn, EventUpdate(c)
  PROVE  TypeOK'
<1>1. at' \in [Conn -> Places] /\ local' \in [Conn -> Locals]
  BY GotoType DEF TypeOK, EventUpdate, Places
<1>2. cs' \in CheatingState
  <2>1. cs.flags \in Nat
    BY DEF TypeOK, CheatingState
  <2>2. \A n \in 1..2 : [cs EXCEPT !.flags = @ + n] \in CheatingState
    BY <2>1 DEF TypeOK, CheatingState
  <2>3. [cs EXCEPT !.fresh = TRUE] \in CheatingState
    BY DEF TypeOK, CheatingState
  <2> QED
    BY <2>2, <2>3 DEF TypeOK, EventUpdate
<1> QED
  BY <1>1, <1>2 DEF TypeOK, EventUpdate, dbVars, clientVars, otherVars, historyVars

LEMMA EventCompareType ==
  ASSUME TypeOK, NEW c \in Conn, EventCompare(c)
  PROVE  TypeOK'
<1>1. [local[c] EXCEPT !.then = "tell"] \in Locals
  BY DEF TypeOK, Locals
<1>2. at' \in [Conn -> Places] /\ local' \in [Conn -> Locals]
  BY <1>1, GotoType DEF EventCompare, Places
<1> QED
  BY <1>2 DEF TypeOK, EventCompare, dbVars, clientVars, otherVars, historyVars

LEMMA LeaveType ==
  ASSUME TypeOK, NEW c \in Conn, ReadError(c) \/ RemoveClient(c)
  PROVE  TypeOK'
<1>1. at' \in [Conn -> Places] /\ local' \in [Conn -> Locals]
  BY NoLocalsType, GotoType DEF ReadError, RemoveClient, Places
<1>2. CASE ReadError(c)
  BY <1>1, <1>2 DEF TypeOK, ReadError, dbVars, clientVars, otherVars
<1>3. CASE RemoveClient(c)
  BY <1>1, <1>3 DEF TypeOK, RemoveClient, dbVars, otherVars, historyVars
<1> QED
  BY <1>2, <1>3

LEMMA CheckerType ==
  ASSUME TypeOK, GoStale \/ CheckerFlag \/ CheckerSave
  PROVE  TypeOK'
<1>1. CASE GoStale
  <2>1. cs' \in CheatingState
    BY <1>1 DEF TypeOK, GoStale, CheatingState
  <2>2. used' \in Counts
    BY <1>1 DEF TypeOK, GoStale, Counts
  <2> QED
    BY <1>1, <2>1, <2>2 DEF TypeOK, GoStale, dbVars, goVars, clientVars, otherVars,
                      historyVars
<1>2. CASE CheckerFlag
  <2>1. cs' \in CheatingState
    <3>1. cs.flags + 1 \in Nat
      BY DEF TypeOK, CheatingState
    <3> QED
      BY <1>2, <3>1 DEF TypeOK, CheckerFlag, CheatingState
  <2>2. told' \in SUBSET Nat /\ notices' \in SUBSET Notices
    BY <1>2, RaiseType DEF CheckerFlag
  <2>3. offlines' \in Nat
    BY <1>2 DEF TypeOK, CheckerFlag
  <2> QED
    BY <1>2, <2>1, <2>2, <2>3, ZenonT(60) DEF TypeOK, CheckerFlag, dbVars, goVars, clientVars
<1>3. CASE CheckerSave
  <2>1. ToJSON \in Snapshot /\ EmptyStats \in Snapshot
    BY ToJSONType, NoLocalsType DEF TypeOK
  <2>2. /\ checker' \in {"idle", "snap", "write"}
        /\ checkerSnap' \in Snapshot
        /\ stats' \in Snapshot
    BY <1>3, <2>1 DEF TypeOK, CheckerSave, Store
  <2>3. saveSpoiled' \in BOOLEAN
    BY <1>3 DEF TypeOK, CheckerSave, Store, InFlight
  <2>4. told' \in SUBSET Nat /\ notices' \in SUBSET Notices
    BY <1>3, TellType DEF TypeOK, CheckerSave
  <2> QED
    BY <1>3, <2>2, <2>3, <2>4 DEF TypeOK, CheckerSave, goVars, clientVars
<1> QED
  BY <1>1, <1>2, <1>3

LEMMA TeacherType ==
  ASSUME TypeOK, Teacher \/ ClearSave \/ Expiry \/ NotifyEnd \/ Restart
  PROVE  TypeOK'
<1>1. CASE ClearFlags
  <2>1. cs' \in CheatingState /\ told' \in SUBSET Nat
    <3>1. cs.era \in Nat /\ cs.era + 1 \in Nat
      BY DEF TypeOK, CheatingState
    <3>2. CASE cs.known
      <4>1. cs' = [cs EXCEPT !.flags = 0, !.era = @ + 1] /\ told' = {}
        BY <1>1, <3>2 DEF ClearFlags
      <4>2. cs \in CheatingState
        BY DEF TypeOK
      <4> QED
        BY <3>1, <4>1, <4>2 DEF CheatingState
    <3>3. CASE ~cs.known
      BY <1>1, <3>3 DEF TypeOK, ClearFlags
    <3> QED
      BY <3>2, <3>3
  <2>2. used' \in Counts
    BY <1>1 DEF TypeOK, ClearFlags, Counts
  <2> QED
    BY <1>1, <2>1, <2>2, ZenonT(60) DEF TypeOK, ClearFlags, InFlight, Flagging, dbVars, goVars,
                            clientVars
<1>2. ASSUME NEW s \in {"pending", "running", "finished"}, UpdateRunStatus(s)
      PROVE  TypeOK'
  <2>1. used' \in Counts
    BY <1>2 DEF TypeOK, UpdateRunStatus, Counts
  <2>2. status' \in {"pending", "running", "finished"}
    BY <1>2 DEF TypeOK, UpdateRunStatus, Unset
  <2> QED
    BY <1>2, <2>1, <2>2 DEF TypeOK, UpdateRunStatus, goVars, clientVars
<1>3. CASE ClearSave
  <2>1. ToJSON \in Snapshot /\ EmptyStats \in Snapshot
    BY ToJSONType, NoLocalsType DEF TypeOK
  <2>2. /\ clearer' \in {"idle", "snap", "write", "reset"}
        /\ clearerSnap' \in Snapshot
        /\ stats' \in Snapshot
    BY <1>3, <2>1 DEF TypeOK, ClearSave, Store
  <2>3. saveSpoiled' \in BOOLEAN
    BY <1>3 DEF TypeOK, ClearSave, Store, InFlight
  <2> QED
    BY <1>3, <2>2, <2>3 DEF TypeOK, ClearSave, goVars, clientVars
<1>4. CASE Expiry
  <2>1. CASE ExpiryQuery
    <3>1. used' \in Counts
      BY <2>1 DEF TypeOK, ExpiryQuery, Counts
    <3> QED
      BY <2>1, <3>1 DEF TypeOK, ExpiryQuery, dbVars, goVars, clientVars, historyVars
  <2>2. CASE ExpiryClose
    <3>1. status' \in {"pending", "running", "finished"}
      BY <2>2 DEF TypeOK, ExpiryClose, Unset
    <3> QED
      BY <2>2, <3>1 DEF TypeOK, ExpiryClose, goVars, clientVars
  <2> QED
    BY <1>4, <2>1, <2>2 DEF Expiry
<1>5. CASE NotifyEnd
  <2>1. cs' \in CheatingState
    BY <1>5 DEF TypeOK, NotifyEnd, notifyRunEnded, CheatingState
  <2> QED
    BY <1>5, <2>1 DEF TypeOK, NotifyEnd, notifyRunEnded, dbVars, goVars
<1>6. CASE Restart
  <2>1. cs' \in CheatingState
    BY <1>6 DEF TypeOK, Restart, CheatingState
  <2>2. at' \in [Conn -> Places] /\ local' \in [Conn -> Locals]
    BY <1>6, NoLocalsType DEF TypeOK, Restart, Places
  <2>3. used' \in Counts
    BY <1>6 DEF TypeOK, Restart, Counts
  <2> QED
    BY <1>6, <2>1, <2>2, <2>3, NoLocalsType DEF TypeOK, Restart, dbVars
<1> QED
  BY <1>1, <1>2, <1>3, <1>4, <1>5, <1>6 DEF Teacher

LEMMA TypeInit == Init => TypeOK
<1> SUFFICES ASSUME Init
             PROVE  TypeOK
  OBVIOUS
<1>1. cs \in CheatingState
  BY DEF Init, CheatingState
<1>2. used \in Counts
  BY DEF Init, Counts
<1>3. at \in [Conn -> Places] /\ local \in [Conn -> Locals]
  BY NoLocalsType DEF Init, Places
<1> QED
  BY <1>1, <1>2, <1>3, NoLocalsType DEF Init, TypeOK

LEMMA TypeStep == TypeOK /\ [Next]_vars => TypeOK'
<1> SUFFICES ASSUME TypeOK, [Next]_vars
             PROVE  TypeOK'
  OBVIOUS
<1>1. ASSUME NEW c \in Conn, Serve(c)
      PROVE  TypeOK'
  BY <1>1, MovesType, LoginNameType, LoginBindType, EventInsertType,
     EventUpdateType, EventCompareType, SnapType, WriteType, LeaveType DEF Serve
<1>2. ASSUME NEW c \in Conn, Peer(c)
      PROVE  TypeOK'
  BY <1>2, MovesType, LeaveType, ReceiveType DEF Peer
<1>3. CASE GoStale \/ Checker
  BY <1>3, CheckerType DEF Checker
<1>4. CASE Teacher \/ ClearSave \/ Expiry \/ NotifyEnd \/ Restart
  BY <1>4, TeacherType
<1>5. CASE UNCHANGED vars
  BY <1>5 DEF TypeOK, vars, dbVars, goVars, clientVars, otherVars, historyVars
<1> QED
  BY <1>1, <1>2, <1>3, <1>4, <1>5 DEF Next

\* Every variable keeps its type: the count of flags and the position a
\* handler remembers of it never go below zero, a goroutine is always at one
\* of the places of its handlers.
THEOREM TypeCorrect == Spec => []TypeOK
<1> QED
  BY TypeInit, TypeStep, PTL DEF Spec

-----------------------------------------------------------------------------
(* Offline flags.  A student counts as connected from a login to an offline *)
(* flag, and only in a CheatingState.                                       *)

OfflineInv ==
    /\ OfflineOncePerLogin
    /\ cs.online => cs.known

Connection == <<cs.known, cs.online, offlines, logins>>

LEMMA OfflineSame ==
  ASSUME OfflineInv, UNCHANGED Connection
  PROVE  OfflineInv'
  BY DEF OfflineInv, OfflineOncePerLogin, Connection

LEMMA MoveSame ==
  ASSUME NEW c \in Conn, NEW from, NEW to, Move(c, from, to)
  PROVE  UNCHANGED <<dbVars, cs, reads, clientVars, otherVars, used, historyVars>>
  BY DEF Move

LEMMA MovesSame ==
  ASSUME NEW c \in Conn,
         \/ AddClient(c) \/ LoginRefused(c) \/ LoginStatus(c)
         \/ LoginUnfinished(c) \/ LoginAlone(c)
         \/ EventRefused(c) \/ EventAdmitted(c)
  PROVE  UNCHANGED <<dbVars, cs, reads, clientVars, otherVars, used, historyVars>>
  BY MoveSame DEF AddClient, LoginRefused, LoginStatus, LoginUnfinished, LoginAlone,
                  EventRefused, EventAdmitted

\* A frame is read with or without flags raised by VerifyChain.
LEMMA ReceiveRaises ==
  ASSUME NEW c \in Conn, NEW kind \in Kinds, Receive(c, kind)
  PROVE  /\ at[c] = "read"
         /\ \/ /\ Goto(c, "dispatch", [NoLocals EXCEPT !.req = kind])
               /\ UNCHANGED <<cs, told, notices>>
            \/ /\ Goto(c, "snap", [NoLocals EXCEPT !.req = kind, !.then = "dispatch"])
               /\ \E n \in 1..2 : cs' = [cs EXCEPT !.flags = @ + n] /\ Raise(c, n)
         /\ UNCHANGED <<dbVars, clientVars, otherVars, used, logins, offlines, spared,
                        owed, saveSpoiled, clearRaced>>
  BY Zenon DEF Receive

\* What the steps that are neither a login, nor an offline flag, nor a
\* restart leave alone.
LEMMA ConnectionSame ==
  ASSUME TypeOK,
         NEW c \in Conn,
         \/ LoginName(c) \/ EventInsert(c) \/ EventUpdate(c) \/ EventCompare(c)
         \/ Snap(c) \/ Write(c) \/ ReadError(c) \/ RemoveClient(c)
         \/ \E kind \in Kinds : Receive(c, kind)
  PROVE  UNCHANGED Connection
<1> USE DEF Connection
<1>1. cs \in CheatingState
  BY DEF TypeOK
<1>2. CASE LoginName(c) \/ EventCompare(c) \/ Snap(c) \/ Write(c) \/ ReadError(c)
           \/ RemoveClient(c)
  BY <1>2 DEF LoginName, EventCompare, Snap, Write, ReadError, RemoveClient,
              historyVars
<1>3. CASE EventInsert(c)
  BY <1>1, <1>3 DEF EventInsert, CheatingState
<1>4. CASE EventUpdate(c)
  BY <1>1, <1>4 DEF EventUpdate, CheatingState, historyVars
<1>5. CASE \E kind \in Kinds : Receive(c, kind)
  <2>1. PICK kind \in Kinds : Receive(c, kind)
    BY <1>5
  <2>2. UNCHANGED <<logins, offlines>>
    BY <2>1, ReceiveRaises, Zenon
  <2>3. UNCHANGED cs \/ \E n \in 1..2 : cs' = [cs EXCEPT !.flags = @ + n]
    BY <2>1, ReceiveRaises, Zenon
  <2> QED
    BY <1>1, <2>2, <2>3 DEF CheatingState
<1> QED
  BY <1>2, <1>3, <1>4, <1>5

LEMMA ConnectionSameElsewhere ==
  ASSUME TypeOK,
         GoStale \/ CheckerSave \/ Teacher \/ ClearSave \/ Expiry \/ NotifyEnd
  PROVE  UNCHANGED Connection
<1> USE DEF Connection
<1>1. cs \in CheatingState
  BY DEF TypeOK
<1>6. CASE GoStale
  BY <1>1, <1>6 DEF GoStale, CheatingState, historyVars
<1>7. CASE \/ CheckerSave \/ ClearSave \/ Expiry
           \/ \E s \in {"pending", "running", "finished"} : UpdateRunStatus(s)
  BY <1>7 DEF CheckerSave, ClearSave, UpdateRunStatus, Expiry, ExpiryQuery,
              ExpiryClose, historyVars
<1>8. CASE ClearFlags
  BY <1>1, <1>8 DEF ClearFlags, CheatingState
<1>9. CASE NotifyEnd
  BY <1>1, <1>9 DEF NotifyEnd, notifyRunEnded, CheatingState
<1> QED
  BY <1>6, <1>7, <1>8, <1>9 DEF Teacher

LEMMA OfflineLogin ==
  ASSUME TypeOK, OfflineInv, NEW c \in Conn, LoginBind(c)
  PROVE  OfflineInv'
<1>1. cs'.known /\ cs'.online
  BY DEF LoginBind, GetCheatingState, TypeOK, CheatingState
<1>2. offlines <= logins /\ offlines' = offlines /\ logins' = logins + 1
  BY DEF TypeOK, LoginBind, OfflineInv, OfflineOncePerLogin
<1> QED
  BY <1>1, <1>2 DEF TypeOK, OfflineInv, OfflineOncePerLogin

LEMMA OfflineFlag ==
  ASSUME TypeOK, OfflineInv, CheckerFlag
  PROVE  OfflineInv'
<1>1. cs.known /\ cs.online /\ ~cs'.online
  BY DEF CheckerFlag, TypeOK, CheatingState
<1>2. offlines + 1 <= logins /\ offlines' = offlines + 1 /\ logins' = logins
  BY <1>1 DEF CheckerFlag, OfflineInv, OfflineOncePerLogin
<1> QED
  BY <1>1, <1>2 DEF TypeOK, OfflineInv, OfflineOncePerLogin

LEMMA OfflineRestart ==
  ASSUME TypeOK, OfflineInv, Restart
  PROVE  OfflineInv'
<1>1. ~cs'.online
  BY DEF Restart, TypeOK, CheatingState
<1>2. offlines <= logins /\ offlines' = offlines /\ logins' = logins
  BY DEF TypeOK, Restart, OfflineInv, OfflineOncePerLogin
<1> QED
  BY <1>1, <1>2 DEF TypeOK, OfflineInv, OfflineOncePerLogin

LEMMA OfflineStep == TypeOK /\ OfflineInv /\ [Next]_vars => OfflineInv'
<1> SUFFICES ASSUME TypeOK, OfflineInv, [Next]_vars
             PROVE  OfflineInv'
  OBVIOUS
<1>1. ASSUME NEW c \in Conn, Serve(c) \/ Peer(c)
      PROVE  OfflineInv'
  <2>1. CASE \/ AddClient(c) \/ LoginRefused(c) \/ LoginStatus(c)
             \/ LoginUnfinished(c) \/ LoginAlone(c)
             \/ EventRefused(c) \/ EventAdmitted(c)
    <3>1. UNCHANGED Connection
      BY <2>1, MovesSame DEF Connection, historyVars
    <3> QED
      BY <3>1, OfflineSame
  <2>2. CASE LoginBind(c)
    BY <2>2, OfflineLogin
  <2>3. CASE \/ LoginName(c) \/ EventInsert(c) \/ EventUpdate(c) \/ EventCompare(c)
             \/ Snap(c) \/ Write(c) \/ ReadError(c) \/ RemoveClient(c)
             \/ \E kind \in Kinds : Receive(c, kind)
    <3>1. UNCHANGED Connection
      BY <2>3, ConnectionSame
    <3> QED
      BY <3>1, OfflineSame
  <2> QED
    BY <1>1, <2>1, <2>2, <2>3 DEF Serve, Peer
<1>2. CASE GoStale \/ CheckerSave \/ Teacher \/ ClearSave \/ Expiry \/ NotifyEnd
  BY <1>2, ConnectionSameElsewhere, OfflineSame
<1>3. CASE UNCHANGED vars
  BY <1>3, OfflineSame DEF vars, historyVars, Connection
<1> QED
  BY <1>1, <1>2, <1>3, OfflineFlag, OfflineRestart DEF Next, Checker

\* A login allows at most one offline flag: the heartbeat checker, the logins
\* of any number of connections, clears and restarts in whatever order never
\* raise a second one.
THEOREM OfflineFlagsOncePerLogin == Spec => []OfflineOncePerLogin
<1>1. Init => OfflineInv
  BY DEF Init, OfflineInv, OfflineOncePerLogin
<1>2. OfflineInv => OfflineOncePerLogin
  BY DEF OfflineInv
<1> QED
  BY <1>1, <1>2, OfflineStep, TypeInit, TypeStep, PTL DEF Spec

-----------------------------------------------------------------------------
(* Finished students.  A client that has the student's id has its           *)
(* CheatingState, except within a login, and a CheatingState once marked    *)
(* finished stays so until a restart.                                       *)

WithId == {"named", "insert", "update", "compare", "snap", "write"}

ClientInv(c) ==
    /\ cheating[c] => sid[c] /\ cs.known
    /\ at[c] \in WithId => sid[c]
    /\ sid[c] /\ at[c] # "named" => cheating[c]

SparedInv == spared => cs.known /\ cs.finished

QuietInv == SparedInv /\ \A c \in Conn : ClientInv(c)

Clients == <<sid, cheating, cs.known, cs.finished, spared>>

\* Steps that leave the clients and the mark alone and send no goroutine to
\* a place where the client must have an id.
LEMMA QuietGoto ==
  ASSUME TypeOK, QuietInv, UNCHANGED Clients,
         NEW c \in Conn, NEW to, NEW l, Goto(c, to, l),
         at[c] # "named",
         to # "named", to \in WithId => sid[c]
  PROVE  QuietInv'
<1>1. at \in [Conn -> Places] /\ at' = [at EXCEPT ![c] = to]
  BY DEF TypeOK, Goto
<1>2. SparedInv'
  BY DEF QuietInv, SparedInv, Clients
<1>3. ASSUME NEW d \in Conn PROVE ClientInv(d)'
  <2>1. ClientInv(d)
    BY DEF QuietInv
  <2>2. CASE d = c
    BY <1>1, <2>1, <2>2 DEF ClientInv, Clients
  <2>3. CASE d # c
    BY <1>1, <2>1, <2>3 DEF ClientInv, Clients
  <2> QED
    BY <2>2, <2>3
<1> QED
  BY <1>2, <1>3 DEF QuietInv

LEMMA QuietSame ==
  ASSUME QuietInv, UNCHANGED Clients, UNCHANGED at
  PROVE  QuietInv'
  BY DEF QuietInv, SparedInv, ClientInv, Clients

LEMMA QuietServe ==
  ASSUME TypeOK, QuietInv, NEW c \in Conn,
         Serve(c) \/ Peer(c)
  PROVE  QuietInv'
<1>1. cs \in CheatingState
  BY DEF TypeOK
<1>2. CASE \/ AddClient(c) \/ LoginRefused(c) \/ LoginStatus(c)
           \/ LoginUnfinished(c) \/ LoginAlone(c)
           \/ EventRefused(c) \/ EventAdmitted(c)
  <2>1. UNCHANGED Clients
    BY <1>2, MovesSame DEF Clients, clientVars, historyVars
  <2>2. PICK from \in Places, to \in Places :
           Move(c, from, to) /\ from # "named" /\ to # "named"
           /\ (to \in WithId => sid[c])
    BY <1>2 DEF WithId, AddClient, LoginRefused, LoginStatus, LoginUnfinished, LoginAlone,
                EventRefused, EventAdmitted, Places
  <2> QED
    BY <2>1, <2>2, QuietGoto DEF Move
<1>3. CASE EventUpdate(c) \/ EventCompare(c) \/ Snap(c) \/ Write(c) \/ ReadError(c)
           \/ \E kind \in Kinds : Receive(c, kind)
  <2>1. UNCHANGED Clients
    <3>1. CASE \E kind \in Kinds : Receive(c, kind)
      <4>1. UNCHANGED <<clientVars, spared>>
        BY <3>1, ReceiveRaises, Zenon
      <4>2. UNCHANGED cs \/ \E n \in 1..2 : cs' = [cs EXCEPT !.flags = @ + n]
        BY <3>1, ReceiveRaises, Zenon
      <4> QED
        BY <1>1, <4>1, <4>2 DEF Clients, clientVars, CheatingState
    <3>2. CASE EventUpdate(c) \/ EventCompare(c) \/ Snap(c) \/ Write(c) \/ ReadError(c)
      BY <1>1, <3>2 DEF EventUpdate, EventCompare, Snap, Write, ReadError,
                        Clients, clientVars, historyVars, CheatingState
    <3> QED
      BY <1>3, <3>1, <3>2
  <2>2. local[c].then \in {"dispatch", "read", "tell"}
    BY DEF TypeOK, Locals
  <2>3. ClientInv(c)
    BY DEF QuietInv
  <2>4. \E to, l : /\ Goto(c, to, l) /\ at[c] # "named"
                   /\ to # "named" /\ (to \in WithId => sid[c])
    <3>1. CASE EventUpdate(c) \/ Snap(c) \/ ReadError(c)
      <4>1. \/ Goto(c, "compare", local[c]) /\ at[c] = "update"
            \/ Goto(c, "write", [local[c] EXCEPT !.snap = ToJSON]) /\ at[c] = "snap"
            \/ Goto(c, "leaving", NoLocals) /\ at[c] = "read"
        BY <3>1 DEF EventUpdate, Snap, ReadError
      <4> QED
        BY <2>3, <4>1 DEF ClientInv, WithId
    <3>2. CASE EventCompare(c)
      <4>1. PICK to \in {"snap", "read"} :
               Goto(c, to, [local[c] EXCEPT !.then = "tell"])
        BY <3>2 DEF EventCompare
      <4>2. at[c] = "compare"
        BY <3>2 DEF EventCompare
      <4> QED
        BY <2>3, <4>1, <4>2 DEF ClientInv, WithId
    <3>3. CASE Write(c)
      <4>1. \/ Goto(c, "read", NoLocals) \/ Goto(c, "leaving", NoLocals)
            \/ Goto(c, local[c].then, [NoLocals EXCEPT !.req = local[c].req])
        BY <3>3 DEF Write, NotifyFlags
      <4>2. at[c] # "named"
        BY <3>3 DEF Write
      <4> QED
        BY <2>2, <4>1, <4>2 DEF WithId
    <3>4. CASE \E kind \in Kinds : Receive(c, kind)
      <4>1. PICK kind \in Kinds : Receive(c, kind)
        BY <3>4
      <4>2. \/ Goto(c, "dispatch", [NoLocals EXCEPT !.req = kind])
            \/ /\ cheating[c]
               /\ Goto(c, "snap", [NoLocals EXCEPT !.req = kind, !.then = "dispatch"])
        BY <4>1 DEF Receive
      <4>3. at[c] = "read"
        BY <4>1 DEF Receive
      <4> QED
        BY <2>3, <4>2, <4>3 DEF ClientInv, WithId
    <3> QED
      BY <1>3, <3>1, <3>2, <3>3, <3>4
  <2> QED
    BY <2>1, <2>4, QuietGoto
<1>4. CASE LoginName(c)
  <2>1. /\ at' = [at EXCEPT ![c] = "named"] /\ sid' = [sid EXCEPT ![c] = TRUE]
        /\ UNCHANGED <<cheating, cs, spared>>
    BY <1>4 DEF LoginName, Goto, historyVars
  <2> QED
    BY <2>1 DEF TypeOK, QuietInv, SparedInv, ClientInv, WithId
<1>5. CASE LoginBind(c)
  <2>1. /\ at[c] = "named" /\ at' = [at EXCEPT ![c] = "snap"]
        /\ cheating' = [cheating EXCEPT ![c] = TRUE]
        /\ UNCHANGED <<sid, spared>>
    BY <1>5 DEF LoginBind, Goto
  <2>2. cs'.known /\ (cs.known => cs'.finished = cs.finished)
    BY <1>1, <1>5 DEF LoginBind, GetCheatingState, CheatingState
  <2> QED
    BY <2>1, <2>2 DEF TypeOK, QuietInv, SparedInv, ClientInv, WithId
<1>6. CASE EventInsert(c)
  <2>1. /\ at[c] = "insert" /\ at' = [at EXCEPT ![c] = "update"]
        /\ UNCHANGED <<sid, cheating>>
    BY <1>6 DEF EventInsert, Goto
  <2>2. cs.known
    BY <2>1 DEF QuietInv, ClientInv, WithId
  <2>3. cs'.known = cs.known /\ (spared' => cs'.finished)
    BY <1>1, <1>6 DEF EventInsert, CheatingState, QuietInv, SparedInv
  <2> QED
    BY <2>1, <2>2, <2>3 DEF TypeOK, QuietInv, SparedInv, ClientInv, WithId
<1>7. CASE RemoveClient(c)
  <2>1. /\ at' = [at EXCEPT ![c] = "closed"] /\ sid' = [sid EXCEPT ![c] = FALSE]
        /\ cheating' = [cheating EXCEPT ![c] = FALSE]
        /\ UNCHANGED <<cs, spared>>
    BY <1>7 DEF RemoveClient, Goto, historyVars
  <2> QED
    BY <2>1 DEF TypeOK, QuietInv, SparedInv, ClientInv, WithId
<1> QED
  BY <1>2, <1>3, <1>4, <1>5, <1>6, <1>7 DEF Serve, Peer

LEMMA QuietElsewhere ==
  ASSUME TypeOK, QuietInv,
         GoStale \/ Checker \/ Teacher \/ ClearSave \/ Expiry \/ NotifyEnd \/ Restart
  PROVE  QuietInv'
<1>1. cs \in CheatingState
  BY DEF TypeOK
<1>2. CASE GoStale \/ CheckerFlag \/ CheckerSave
  <2>1. UNCHANGED Clients /\ UNCHANGED at
    BY <1>1, <1>2 DEF GoStale, CheckerFlag, CheckerSave, Clients, clientVars, goVars,
                      historyVars, CheatingState
  <2> QED
    BY <2>1, QuietSame
<1>3. CASE \/ ClearFlags \/ ClearSave \/ Expiry
           \/ \E s \in {"pending", "running", "finished"} : UpdateRunStatus(s)
  <2>1. UNCHANGED Clients /\ UNCHANGED at
    BY <1>1, <1>3 DEF ClearFlags, ClearSave, Expiry, ExpiryQuery, ExpiryClose,
                      UpdateRunStatus, Clients, clientVars, goVars, historyVars,
                      CheatingState
  <2> QED
    BY <2>1, QuietSame
<1>4. CASE NotifyEnd
  <2>1. UNCHANGED <<sid, cheating, at>> /\ cs'.known = cs.known
    BY <1>1, <1>4 DEF NotifyEnd, notifyRunEnded, goVars, CheatingState
  <2>2. SparedInv'
    BY <1>1, <1>4 DEF NotifyEnd, notifyRunEnded, QuietInv, SparedInv, ClientInv,
                      CheatingState
  <2> QED
    BY <2>1, <2>2 DEF QuietInv, ClientInv
<1>5. CASE Restart
  BY <1>5 DEF TypeOK, Restart, QuietInv, SparedInv, ClientInv, WithId
<1> QED
  BY <1>2, <1>3, <1>4, <1>5 DEF Checker, Teacher

LEMMA QuietStep == TypeOK /\ QuietInv /\ [Next]_vars => QuietInv'
<1> SUFFICES ASSUME TypeOK, QuietInv, [Next]_vars
             PROVE  QuietInv'
  OBVIOUS
<1>1. CASE UNCHANGED vars
  BY <1>1, QuietSame DEF vars, clientVars, goVars, historyVars, Clients
<1> QED
  BY <1>1, QuietServe, QuietElsewhere DEF Next

\* Only the heartbeat checker raises an offline flag, and it passes over a
\* CheatingState marked finished.
LEMMA QuietAction ==
  TypeOK /\ QuietInv /\ [Next]_vars => [spared => offlines' = offlines]_vars
<1> SUFFICES ASSUME TypeOK, QuietInv, [Next]_vars, spared
             PROVE  offlines' = offlines
  OBVIOUS
<1>1. ASSUME NEW c \in Conn, Serve(c) \/ Peer(c)
      PROVE  offlines' = offlines
  <2>1. CASE LoginBind(c)
    BY <2>1 DEF LoginBind
  <2>2. CASE \/ AddClient(c) \/ LoginRefused(c) \/ LoginStatus(c)
             \/ LoginUnfinished(c) \/ LoginAlone(c)
             \/ EventRefused(c) \/ EventAdmitted(c)
    BY <2>2, MovesSame DEF historyVars
  <2> QED
    BY <1>1, <2>1, <2>2, ConnectionSame DEF Serve, Peer, Connection
<1>2. CASE CheckerFlag
  BY <1>2 DEF CheckerFlag, QuietInv, SparedInv
<1>3. CASE Restart
  BY <1>3 DEF Restart
<1>4. CASE UNCHANGED vars
  BY <1>4 DEF vars, historyVars
<1> QED
  BY <1>1, <1>2, <1>3, <1>4, ConnectionSameElsewhere DEF Next, Checker, Connection

\* Once a student has finished, or was logged in when the run was ended, no
\* offline flag follows, also when the run is started again.
THEOREM QuietOnceFinished == Spec => FinishedStaysQuiet
<1>1. Init => QuietInv
  BY DEF Init, QuietInv, SparedInv, ClientInv, WithId
<1> QED
  BY <1>1, QuietStep, QuietAction, TypeInit, TypeStep, PTL
     DEF Spec, FinishedStaysQuiet

-----------------------------------------------------------------------------
(* Stored flags.  As long as no saves overlap, at most one write is pending, *)
(* and the flags it writes are between the stored ones and those in memory.  *)

AtMost(s, t) == s.era < t.era \/ (s.era = t.era /\ s.flags <= t.flags)

Between(s) == AtMost(stats, s) /\ AtMost(s, ToJSON)

StateSaved ==
    /\ checker # "idle" => cs.known
    /\ clearer \in {"snap", "write"} => cs.known
    /\ clearer # "write" => clearerSnap = EmptyStats

SavesInOrder ==
    /\ stats.era <= cs.era
    /\ cs.known => AtMost(stats, ToJSON)
    /\ \A c \in Conn : at[c] = "write" =>
          /\ Between(local[c].snap)
          /\ checker # "write" /\ clearer \notin {"write", "reset"}
          /\ \A d \in Conn : at[d] = "write" => d = c
    /\ checker = "write" => Between(checkerSnap) /\ clearer \notin {"write", "reset"}
    /\ clearer = "write" => Between(clearerSnap)

StoredInv == StateSaved /\ (saveSpoiled \/ SavesInOrder)

\* The flags in memory only grow within an era, and a new state has a new era.
Grows ==
    /\ cs.era <= cs'.era
    /\ cs.known => cs'.known /\ AtMost(ToJSON, ToJSON')
    /\ cs'.known /\ ~cs.known => cs.era < cs'.era

NoNewWrite ==
    \A d \in Conn : at'[d] = "write" => at[d] = "write" /\ local'[d] = local[d]

SavesSame ==
    /\ UNCHANGED <<stats, saveSpoiled, checkerSnap, clearerSnap>>
    /\ checker' = checker \/ (cs.known /\ checker' # "write")
    /\ clearer' = clearer \/ (cs.known /\ clearer = "idle" /\ clearer' = "snap")

LEMMA AtMostTrans ==
  ASSUME NEW s \in Snapshot, NEW t \in Snapshot, NEW u \in Snapshot,
         AtMost(s, t), AtMost(t, u)
  PROVE  AtMost(s, u)
  BY DEF AtMost, Snapshot

LEMMA AtMostRefl ==
  ASSUME NEW s \in Snapshot
  PROVE  AtMost(s, s)
  BY DEF AtMost, Snapshot

LEMMA SnapshotTypes ==
  ASSUME TypeOK
  PROVE  /\ stats \in Snapshot /\ ToJSON \in Snapshot
         /\ checkerSnap \in Snapshot /\ clearerSnap \in Snapshot
         /\ \A c \in Conn : local[c].snap \in Snapshot
         /\ cs.era \in Nat /\ cs.flags \in Nat
  BY ToJSONType DEF TypeOK, Locals, CheatingState

LEMMA WritersKnown ==
  ASSUME QuietInv, NEW c \in Conn, at[c] \in {"snap", "write"}
  PROVE  cs.known
  BY DEF QuietInv, ClientInv, WithId

LEMMA StoredGrows ==
  ASSUME TypeOK, TypeOK', QuietInv, StoredInv, NoNewWrite, Grows, SavesSame
  PROVE  StoredInv'
<1>0. ToJSON' \in Snapshot
  BY DEF TypeOK, ToJSON, CheatingState, Snapshot
<1>1. StateSaved'
  BY DEF StoredInv, StateSaved, SavesSame, Grows
<1>2. ASSUME SavesInOrder
      PROVE  SavesInOrder'
  <2>1. ASSUME NEW s \in Snapshot, cs.known, Between(s)
        PROVE  AtMost(stats, s) /\ AtMost(s, ToJSON')
    BY <1>0, <2>1, SnapshotTypes, AtMostTrans DEF Between, Grows
  <2>2. stats'.era <= cs'.era
    BY <1>2, SnapshotTypes DEF SavesInOrder, SavesSame, Grows, Snapshot, TypeOK, CheatingState
  <2>3. ASSUME cs'.known
        PROVE  AtMost(stats', ToJSON')
    <3>1. CASE cs.known
      BY <1>0, <1>2, <3>1, SnapshotTypes, AtMostTrans DEF SavesInOrder, SavesSame, Grows
    <3>2. CASE ~cs.known
      <4>1. stats.era <= cs.era /\ cs.era < cs'.era /\ stats' = stats
        BY <1>2, <2>3, <3>2 DEF SavesInOrder, Grows, SavesSame
      <4>2. stats.era < ToJSON'.era
        BY <4>1, SnapshotTypes DEF ToJSON, Snapshot, TypeOK, CheatingState
      <4> QED
        BY <4>1, <4>2 DEF AtMost
    <3> QED
      BY <3>1, <3>2
  <2>4. ASSUME NEW c \in Conn, at'[c] = "write"
        PROVE  /\ AtMost(stats', local'[c].snap) /\ AtMost(local'[c].snap, ToJSON')
               /\ checker' # "write" /\ clearer' \notin {"write", "reset"}
               /\ \A d \in Conn : at'[d] = "write" => d = c
    <3>1. at[c] = "write" /\ local'[c] = local[c] /\ cs.known
      BY <2>4, WritersKnown DEF NoNewWrite
    <3> QED
      BY <1>2, <2>1, <3>1, SnapshotTypes DEF SavesInOrder, SavesSame, NoNewWrite
  <2>5. ASSUME checker' = "write"
        PROVE  /\ AtMost(stats', checkerSnap') /\ AtMost(checkerSnap', ToJSON')
               /\ clearer' \notin {"write", "reset"}
    <3>1. checker = "write" /\ cs.known
      BY <2>5 DEF SavesSame, StoredInv, StateSaved
    <3> QED
      BY <1>2, <2>1, <3>1, SnapshotTypes DEF SavesInOrder, SavesSame
  <2>6. ASSUME clearer' = "write"
        PROVE  AtMost(stats', clearerSnap') /\ AtMost(clearerSnap', ToJSON')
    <3>1. clearer = "write" /\ cs.known
      BY <2>6 DEF SavesSame, StoredInv, StateSaved
    <3> QED
      BY <1>2, <2>1, <3>1, SnapshotTypes DEF SavesInOrder, SavesSame
  <2> QED
    BY <2>2, <2>3, <2>4, <2>5, <2>6 DEF SavesInOrder, Between
<1> QED
  BY <1>1, <1>2 DEF StoredInv, SavesSame

\* The steps that only move a goroutine, or that raise flags.
LEMMA GrowsSame ==
  ASSUME TypeOK, UNCHANGED cs
  PROVE  Grows
<1>1. ToJSON' = ToJSON
  BY DEF ToJSON
<1> QED
  BY <1>1, SnapshotTypes, AtMostRefl DEF Grows

LEMMA GrowsFlags ==
  ASSUME TypeOK, cs'.era = cs.era, cs'.known = cs.known, NEW n \in Nat,
         cs'.flags = cs.flags + n
  PROVE  Grows
<1>1. cs.era \in Nat /\ cs.flags \in Nat /\ cs.flags <= cs'.flags
  BY SnapshotTypes
<1>2. AtMost(ToJSON, ToJSON')
  BY <1>1 DEF AtMost, ToJSON
<1> QED
  BY <1>1, <1>2 DEF Grows

LEMMA NoNewWriteGoto ==
  ASSUME TypeOK, NEW c \in Conn, NEW to, NEW l, Goto(c, to, l), to # "write"
  PROVE  NoNewWrite
<1>1. /\ at \in [Conn -> Places] /\ local \in [Conn -> Locals]
      /\ at' = [at EXCEPT ![c] = to]
      /\ \E m : local' = [local EXCEPT ![c] = m]
  BY DEF TypeOK, Goto
<1> QED
  BY <1>1 DEF NoNewWrite

SaveVars == <<stats, saveSpoiled, checker, checkerSnap, clearer, clearerSnap>>

\* A goroutine's step other than SaveToDB's.
LEMMA StoredServe ==
  ASSUME TypeOK, TypeOK', QuietInv, StoredInv, NEW c \in Conn,
         Serve(c) \/ Peer(c), ~Snap(c), ~Write(c)
  PROVE  StoredInv'
<1>1. cs \in CheatingState /\ cs.flags \in Nat /\ cs.era \in Nat
  BY DEF TypeOK, CheatingState
<1>2. CASE \/ AddClient(c) \/ LoginRefused(c) \/ LoginStatus(c)
           \/ LoginUnfinished(c) \/ LoginAlone(c)
           \/ EventRefused(c) \/ EventAdmitted(c)
  <2>1. UNCHANGED SaveVars /\ UNCHANGED cs
    BY <1>2, MovesSame DEF SaveVars, dbVars, otherVars, historyVars
  <2>2. \E to : Goto(c, to, local[c]) /\ to # "write"
    <3>1. CASE LoginUnfinished(c)
      <4>1. Goto(c, "read", local[c]) \/ Goto(c, "unfinished", local[c])
        BY <3>1 DEF LoginUnfinished, Move
      <4> QED
        BY <4>1
    <3>2. CASE ~LoginUnfinished(c)
      BY <1>2, <3>2 DEF AddClient, LoginRefused, LoginStatus, LoginAlone,
                        EventRefused, EventAdmitted, Move
    <3> QED
      BY <3>1, <3>2
  <2> QED
    BY <2>1, <2>2, NoNewWriteGoto, GrowsSame, StoredGrows DEF SaveVars, SavesSame
<1>3. CASE LoginName(c) \/ EventCompare(c) \/ ReadError(c) \/ RemoveClient(c)
  <2>1. UNCHANGED SaveVars /\ UNCHANGED cs
    BY <1>3 DEF LoginName, EventCompare, ReadError, RemoveClient, SaveVars, dbVars,
                otherVars, historyVars
  <2>2. PICK to, l : Goto(c, to, l) /\ to # "write"
    <3>1. CASE LoginName(c) \/ ReadError(c) \/ RemoveClient(c)
      <4>1. \/ Goto(c, "named", local[c]) \/ Goto(c, "leaving", NoLocals)
            \/ Goto(c, "closed", NoLocals)
        BY <3>1 DEF LoginName, ReadError, RemoveClient
      <4> QED
        BY <4>1
    <3>2. CASE EventCompare(c)
      <4> DEFINE next == IF cs.flags > local[c].before THEN "snap" ELSE "read"
      <4>1. Goto(c, next, [local[c] EXCEPT !.then = "tell"]) /\ next # "write"
        BY <3>2 DEF EventCompare
      <4> HIDE DEF next
      <4> QED
        BY <4>1
    <3> QED
      BY <1>3, <3>1, <3>2
  <2> QED
    BY <2>1, <2>2, NoNewWriteGoto, GrowsSame, StoredGrows DEF SaveVars, SavesSame
<1>4. CASE LoginBind(c)
  <2>1. UNCHANGED SaveVars /\ Goto(c, "snap", NoLocals)
    BY <1>4 DEF LoginBind, SaveVars, dbVars, otherVars
  <2>2. Grows
    <3>1. CASE cs.known
      <4>1. cs'.era = cs.era /\ cs'.known = cs.known /\ cs'.flags = cs.flags + 0
        <5>1. cs' = [cs EXCEPT !.online = TRUE, !.fresh = TRUE]
          BY <1>4, <3>1 DEF LoginBind, GetCheatingState
        <5>2. cs'.era = cs.era /\ cs'.known = cs.known /\ cs'.flags = cs.flags
          BY <1>1, <5>1 DEF CheatingState
        <5> QED
          BY <1>1, <5>2
      <4> QED
        BY <4>1, GrowsFlags
    <3>2. CASE ~cs.known
      <4>1. cs'.era = cs.era + 1
        BY <1>1, <1>4, <3>2 DEF LoginBind, GetCheatingState
      <4> QED
        BY <1>1, <3>2, <4>1 DEF Grows
    <3> QED
      BY <3>1, <3>2
  <2> QED
    BY <2>1, <2>2, NoNewWriteGoto, StoredGrows DEF SaveVars, SavesSame
<1>5. CASE EventInsert(c)
  <2>1. UNCHANGED SaveVars /\ \E l : Goto(c, "update", l)
    BY <1>5 DEF EventInsert, SaveVars, otherVars
  <2>2. cs'.era = cs.era /\ cs'.known = cs.known /\ cs'.flags = cs.flags + 0
    BY <1>1, <1>5 DEF EventInsert, CheatingState
  <2> QED
    BY <2>1, <2>2, NoNewWriteGoto, GrowsFlags, StoredGrows DEF SaveVars, SavesSame
<1>6. CASE EventUpdate(c)
  <2>1. UNCHANGED SaveVars /\ \E l : Goto(c, "compare", l)
    BY <1>6 DEF EventUpdate, SaveVars, dbVars, otherVars, historyVars
  <2>2. \E n \in 0..2 : /\ cs'.era = cs.era /\ cs'.known = cs.known
                        /\ cs'.flags = cs.flags + n
    BY <1>1, <1>6 DEF EventUpdate, CheatingState
  <2> QED
    BY <2>1, <2>2, NoNewWriteGoto, GrowsFlags, StoredGrows DEF SaveVars, SavesSame
<1>7. CASE \E kind \in Kinds : Receive(c, kind)
  <2>1. UNCHANGED SaveVars /\ \E to, l : Goto(c, to, l) /\ to # "write"
    BY <1>7 DEF Receive, SaveVars, dbVars, otherVars
  <2>2. \E n \in 0..2 : /\ cs'.era = cs.era /\ cs'.known = cs.known
                        /\ cs'.flags = cs.flags + n
    BY <1>1, <1>7 DEF Receive, CheatingState
  <2> QED
    BY <2>1, <2>2, NoNewWriteGoto, GrowsFlags, StoredGrows DEF SaveVars, SavesSame
<1> QED
  BY <1>2, <1>3, <1>4, <1>5, <1>6, <1>7 DEF Serve, Peer

LEMMA StoredSnap ==
  ASSUME TypeOK, QuietInv, StoredInv, NEW c \in Conn, Snap(c)
  PROVE  StoredInv'
<1>1. /\ at[c] = "snap" /\ at' = [at EXCEPT ![c] = "write"]
      /\ local' = [local EXCEPT ![c] = [local[c] EXCEPT !.snap = ToJSON]]
      /\ saveSpoiled' = (saveSpoiled \/ InFlight)
      /\ UNCHANGED <<stats, cs, checker, checkerSnap, clearer, clearerSnap>>
  BY DEF Snap, Goto, dbVars, otherVars
<1>2. StateSaved'
  BY <1>1 DEF StoredInv, StateSaved
<1>3. ASSUME ~saveSpoiled'
      PROVE  SavesInOrder'
  <2>1. SavesInOrder /\ ~InFlight
    BY <1>1, <1>3 DEF StoredInv
  <2>2. cs.known /\ ToJSON' = ToJSON
    BY <1>1, WritersKnown DEF ToJSON
  <2>3. AtMost(stats, ToJSON) /\ AtMost(ToJSON, ToJSON)
    BY <2>1, <2>2, SnapshotTypes, AtMostRefl DEF SavesInOrder
  <2>4. local'[c].snap = ToJSON
    BY <1>1 DEF TypeOK, Locals
  <2>5. \A d \in Conn : at'[d] = "write" => d = c
    BY <1>1, <2>1 DEF TypeOK, InFlight
  <2>6. checker # "write" /\ clearer \notin {"write", "reset"}
    BY <2>1 DEF InFlight
  <2> QED
    BY <1>1, <2>1, <2>2, <2>3, <2>4, <2>5, <2>6 DEF SavesInOrder, Between
<1> QED
  BY <1>2, <1>3 DEF StoredInv

\* A write puts the flags that were between the stored ones and those in
\* memory.
LEMMA StoredWrite ==
  ASSUME TypeOK, QuietInv, StoredInv, NEW c \in Conn, Write(c)
  PROVE  StoredInv' /\ (~saveSpoiled' => AtMost(stats, stats'))
<1>1. /\ at[c] = "write" /\ Store(local[c].snap)
      /\ \E to : at' = [at EXCEPT ![c] = to] /\ to # "write"
      /\ UNCHANGED <<cs, checker, checkerSnap, clearer, clearerSnap>>
  <2>1. local[c].then \in {"dispatch", "read", "tell"}
    BY DEF TypeOK, Locals
  <2> QED
    BY <2>1 DEF Write, NotifyFlags, Goto, otherVars
<1>2. StateSaved'
  BY <1>1 DEF StoredInv, StateSaved
<1>3. ASSUME ~saveSpoiled'
      PROVE  SavesInOrder' /\ AtMost(stats, stats')
  <2>1. SavesInOrder /\ stats' = local[c].snap
    BY <1>1, <1>3 DEF StoredInv, Store
  <2>2. Between(local[c].snap) /\ checker # "write" /\ clearer \notin {"write", "reset"}
    BY <1>1, <2>1 DEF SavesInOrder
  <2>3. \A d \in Conn : at'[d] # "write"
    BY <1>1, <2>1 DEF TypeOK, SavesInOrder
  <2>4. ToJSON' = ToJSON /\ AtMost(stats', ToJSON)
    BY <1>1, <2>1, <2>2 DEF ToJSON, Between
  <2>5. stats'.era <= cs'.era
    <3>1. local[c].snap \in Snapshot /\ cs.era \in Nat
      BY SnapshotTypes
    <3> QED
      BY <1>1, <2>1, <2>4, <3>1 DEF AtMost, ToJSON, Snapshot
  <2> QED
    BY <1>1, <2>1, <2>2, <2>3, <2>4, <2>5 DEF SavesInOrder, Between
<1> QED
  BY <1>2, <1>3 DEF StoredInv

LEMMA StoredChecker ==
  ASSUME TypeOK, QuietInv, StoredInv, CheckerSave
  PROVE  StoredInv' /\ (~saveSpoiled' => AtMost(stats, stats'))
<1>1. /\ UNCHANGED <<at, local, cs, clearer, clearerSnap>>
      /\ checker # "idle" /\ (saveSpoiled => saveSpoiled')
  <2>1. UNCHANGED <<at, local, cs, clearer, clearerSnap>> /\ checker # "idle"
    BY DEF CheckerSave, goVars
  <2>2. saveSpoiled => saveSpoiled'
    BY Zenon DEF CheckerSave, Store
  <2> QED
    BY <2>1, <2>2
<1>2. cs.known /\ ToJSON' = ToJSON
  BY <1>1 DEF StoredInv, StateSaved, ToJSON
<1>3. StateSaved'
  BY <1>1, <1>2 DEF StoredInv, StateSaved
<1>4. ASSUME ~saveSpoiled'
      PROVE  SavesInOrder' /\ AtMost(stats, stats')
  <2>1. SavesInOrder
    BY <1>1, <1>4 DEF StoredInv
  <2>2. CASE checker = "snap"
    <3>1. checkerSnap' = ToJSON /\ checker' = "write" /\ stats' = stats /\ ~InFlight
      <4>1. checkerSnap' = ToJSON /\ checker' = "write" /\ stats' = stats
        BY <2>2 DEF CheckerSave
      <4>2. ~InFlight
        BY <1>4, <2>2, Zenon DEF CheckerSave
      <4> QED
        BY <4>1, <4>2
    <3>2. AtMost(stats, ToJSON) /\ AtMost(ToJSON, ToJSON) /\ AtMost(stats, stats)
      BY <1>2, <2>1, SnapshotTypes, AtMostRefl DEF SavesInOrder
    <3> QED
      BY <1>1, <1>2, <2>1, <3>1, <3>2 DEF SavesInOrder, Between, InFlight
  <2>3. CASE checker = "write"
    <3>1. checker' = "idle" /\ stats' = checkerSnap /\ Between(checkerSnap)
      BY <1>4, <2>1, <2>3 DEF CheckerSave, Store, SavesInOrder
    <3>2. clearer \notin {"write", "reset"} /\ \A d \in Conn : at[d] # "write"
      BY <2>1, <2>3 DEF SavesInOrder
    <3>3. stats'.era <= cs'.era
      <4>1. checkerSnap \in Snapshot /\ cs.era \in Nat
        BY SnapshotTypes
      <4> QED
        BY <1>1, <3>1, <4>1 DEF Between, AtMost, ToJSON, Snapshot
    <3> QED
      BY <1>1, <1>2, <3>1, <3>2, <3>3 DEF SavesInOrder, Between
  <2> QED
    BY <2>2, <2>3 DEF CheckerSave
<1> QED
  BY <1>3, <1>4 DEF StoredInv

\* The reset of a clear without a state is the one write that may take flags
\* away in the same era.
LEMMA StoredClearSave ==
  ASSUME TypeOK, QuietInv, StoredInv, ClearSave
  PROVE  StoredInv' /\ (~saveSpoiled' /\ clearer # "reset" => AtMost(stats, stats'))
<1>1. /\ UNCHANGED <<at, local, cs, checker, checkerSnap>>
      /\ clearer \in {"snap", "write", "reset"} /\ (saveSpoiled => saveSpoiled')
  <2>1. /\ UNCHANGED <<at, local, cs, checker, checkerSnap>>
        /\ clearer \in {"snap", "write", "reset"}
    BY DEF ClearSave, goVars
  <2>2. saveSpoiled => saveSpoiled'
    BY Zenon DEF ClearSave, Store
  <2> QED
    BY <2>1, <2>2
<1>2. ToJSON' = ToJSON /\ ToJSON \in Snapshot /\ (clearer # "reset" => cs.known)
  BY <1>1, SnapshotTypes DEF StoredInv, StateSaved, ToJSON
<1>3. StateSaved'
  BY <1>1, <1>2 DEF ClearSave, StoredInv, StateSaved
<1>4. ASSUME ~saveSpoiled'
      PROVE  SavesInOrder' /\ (clearer # "reset" => AtMost(stats, stats'))
  <2>1. SavesInOrder
    BY <1>1, <1>4 DEF StoredInv
  <2>2. CASE clearer = "snap"
    <3>1. clearerSnap' = ToJSON /\ clearer' = "write" /\ stats' = stats /\ ~InFlight
      <4>1. clearerSnap' = ToJSON /\ clearer' = "write" /\ stats' = stats
        BY <2>2 DEF ClearSave
      <4>2. ~InFlight
        BY <1>4, <2>2, Zenon DEF ClearSave
      <4> QED
        BY <4>1, <4>2
    <3>2. AtMost(stats, ToJSON) /\ AtMost(ToJSON, ToJSON) /\ AtMost(stats, stats)
      BY <1>2, <2>1, <2>2, SnapshotTypes, AtMostRefl DEF SavesInOrder
    <3> QED
      BY <1>1, <1>2, <2>1, <3>1, <3>2 DEF SavesInOrder, Between, InFlight
  <2>3. CASE clearer \in {"write", "reset"}
    <3>1. clearer' = "idle" /\ stats' = clearerSnap
      BY <1>4, <2>3 DEF ClearSave, Store
    <3>2. AtMost(clearerSnap, ToJSON) /\ (clearer # "reset" => AtMost(stats, clearerSnap))
      <4>1. CASE clearer = "write"
        BY <2>1, <4>1 DEF SavesInOrder, Between
      <4>2. CASE clearer = "reset"
        <5>1. clearerSnap.era = 0 /\ clearerSnap.flags = 0
          BY <4>2 DEF StoredInv, StateSaved, EmptyStats
        <5>2. ToJSON.era \in Nat /\ ToJSON.flags \in Nat
          BY <1>2 DEF Snapshot
        <5> QED
          BY <4>2, <5>1, <5>2 DEF AtMost
      <4> QED
        BY <2>3, <4>1, <4>2
    <3>3. checker # "write" /\ \A d \in Conn : at[d] # "write"
      BY <2>1, <2>3 DEF SavesInOrder
    <3>4. stats'.era <= cs'.era
      <4>1. clearerSnap \in Snapshot /\ cs.era \in Nat
        BY SnapshotTypes
      <4> QED
        BY <1>1, <3>1, <3>2, <4>1 DEF AtMost, ToJSON, Snapshot
    <3> QED
      BY <1>1, <1>2, <3>1, <3>2, <3>3, <3>4 DEF SavesInOrder
  <2> QED
    BY <1>1, <2>2, <2>3
<1> QED
  BY <1>3, <1>4 DEF StoredInv

LEMMA StoredElsewhere ==
  ASSUME TypeOK, TypeOK', QuietInv, StoredInv,
         GoStale \/ CheckerFlag \/ Teacher \/ Expiry \/ NotifyEnd
  PROVE  StoredInv' /\ stats' = stats
<1>1. cs \in CheatingState /\ cs.flags \in Nat /\ cs.era \in Nat
  BY DEF TypeOK, CheatingState
<1>2. CASE GoStale
  <2>1. UNCHANGED SaveVars /\ UNCHANGED at /\ UNCHANGED local
    BY <1>2 DEF GoStale, SaveVars, dbVars, goVars, otherVars, historyVars
  <2>2. cs'.era = cs.era /\ cs'.known = cs.known /\ cs'.flags = cs.flags + 0
    <3>1. cs' = [cs EXCEPT !.fresh = FALSE]
      BY <1>2 DEF GoStale
    <3>2. cs'.era = cs.era /\ cs'.known = cs.known /\ cs'.flags = cs.flags
      BY <1>1, <3>1 DEF CheatingState
    <3> QED
      BY <1>1, <3>2
  <2> QED
    BY <2>1, <2>2, GrowsFlags, StoredGrows DEF SaveVars, SavesSame, NoNewWrite
<1>3. CASE CheckerFlag
  <2>1. /\ UNCHANGED <<stats, saveSpoiled, checkerSnap, clearer, clearerSnap>>
        /\ UNCHANGED at /\ UNCHANGED local
        /\ cs.known /\ checker' = "snap"
    BY <1>3 DEF CheckerFlag, dbVars, goVars
  <2>2. cs'.era = cs.era /\ cs'.known = cs.known /\ cs'.flags = cs.flags + 1
    BY <1>1, <1>3 DEF CheckerFlag, CheatingState
  <2> QED
    BY <2>1, <2>2, GrowsFlags, StoredGrows DEF SavesSame, NoNewWrite
<1>4. CASE Expiry \/ \E s \in {"pending", "running", "finished"} : UpdateRunStatus(s)
  <2>1. /\ UNCHANGED SaveVars /\ UNCHANGED cs
        /\ UNCHANGED at /\ UNCHANGED local
    BY <1>4 DEF Expiry, ExpiryQuery, ExpiryClose, UpdateRunStatus, SaveVars, dbVars,
                goVars, historyVars
  <2> QED
    BY <2>1, GrowsSame, StoredGrows DEF SaveVars, SavesSame, NoNewWrite
<1>5. CASE NotifyEnd
  <2>1. UNCHANGED SaveVars /\ UNCHANGED at /\ UNCHANGED local
    BY <1>5 DEF NotifyEnd, SaveVars, dbVars, goVars
  <2>2. cs'.era = cs.era /\ cs'.known = cs.known /\ cs'.flags = cs.flags + 0
    BY <1>1, <1>5 DEF NotifyEnd, notifyRunEnded, CheatingState
  <2> QED
    BY <2>1, <2>2, GrowsFlags, StoredGrows DEF SaveVars, SavesSame, NoNewWrite
<1>6. CASE ClearFlags
  <2>1. /\ UNCHANGED <<stats, checker, checkerSnap, clearerSnap, at, local>>
        /\ clearer = "idle"
    BY <1>6 DEF ClearFlags, dbVars, goVars
  <2>2. CASE cs.known
    <3>1. /\ UNCHANGED saveSpoiled /\ clearer' = "snap"
          /\ cs' = [cs EXCEPT !.flags = 0, !.era = @ + 1]
      BY <1>6, <2>2 DEF ClearFlags
    <3>2. cs'.era = cs.era + 1 /\ cs'.known
      BY <1>1, <2>2, <3>1 DEF CheatingState
    <3>3. AtMost(ToJSON, ToJSON')
      BY <1>1, <3>2 DEF AtMost, ToJSON
    <3>4. Grows
      BY <1>1, <2>2, <3>2, <3>3 DEF Grows
    <3> QED
      BY <2>1, <2>2, <3>1, <3>4, StoredGrows DEF SavesSame, NoNewWrite
  <2>3. CASE ~cs.known
    <3>1. /\ clearer' = "reset" /\ saveSpoiled' = (saveSpoiled \/ InFlight)
          /\ UNCHANGED cs
      BY <1>6, <2>3 DEF ClearFlags
    <3>2. ToJSON' = ToJSON
      BY <3>1 DEF ToJSON
    <3> QED
      BY <2>1, <2>3, <3>1, <3>2 DEF StoredInv, StateSaved, SavesInOrder, Between, InFlight
  <2> QED
    BY <2>2, <2>3
<1> QED
  BY <1>2, <1>3, <1>4, <1>5, <1>6 DEF Teacher

LEMMA StoredRestart ==
  ASSUME TypeOK, StoredInv, Restart
  PROVE  StoredInv' /\ stats' = stats
<1>1. /\ \A c \in Conn : at'[c] # "write"
      /\ checker' = "idle" /\ clearer' = "idle" /\ clearerSnap' = EmptyStats
      /\ UNCHANGED <<stats, saveSpoiled>>
      /\ ~cs'.known /\ cs'.era = cs.era
  BY DEF TypeOK, CheatingState, Restart, dbVars
<1> QED
  BY <1>1 DEF StoredInv, StateSaved, SavesInOrder

LEMMA StoredInit == Init => StoredInv
<1> SUFFICES ASSUME Init
             PROVE  StoredInv
  OBVIOUS
<1>1. stats.era = 0 /\ cs.era = 0 /\ ~cs.known
  BY DEF Init, EmptyStats
<1>2. 0 <= 0
  OBVIOUS
<1> QED
  BY <1>1, <1>2 DEF Init, StoredInv, StateSaved, SavesInOrder

LEMMA StoredStep ==
  ASSUME TypeOK, TypeOK', QuietInv, StoredInv, [Next]_vars
  PROVE  /\ StoredInv'
         /\ ~saveSpoiled' /\ clearer # "reset" => AtMost(stats, stats')
<1>1. AtMost(stats, stats)
  BY SnapshotTypes, AtMostRefl
<1>2. ASSUME NEW c \in Conn, Serve(c) \/ Peer(c), ~Snap(c), ~Write(c)
      PROVE  StoredInv' /\ stats' = stats
  <2>1. stats' = stats
    <3>1. CASE \E kind \in Kinds : Receive(c, kind)
      BY <3>1, ReceiveRaises, Zenon DEF dbVars
    <3>2. CASE ~\E kind \in Kinds : Receive(c, kind)
      BY <1>2, <3>2, MovesSame DEF Serve, Peer, LoginName, LoginBind, EventInsert,
                EventUpdate, EventCompare, RemoveClient, ReadError, dbVars
    <3> QED
      BY <3>1, <3>2
  <2> QED
    BY <1>2, <2>1, StoredServe
<1>3. ASSUME NEW c \in Conn, Snap(c)
      PROVE  StoredInv' /\ stats' = stats
  BY <1>3, StoredSnap DEF Snap, dbVars
<1>4. CASE UNCHANGED vars
  <2>1. /\ UNCHANGED SaveVars /\ UNCHANGED cs
        /\ UNCHANGED at /\ UNCHANGED local
    BY <1>4 DEF vars, SaveVars, dbVars, goVars, otherVars, historyVars
  <2>2. StoredInv' /\ stats' = stats
    BY <2>1, GrowsSame, StoredGrows DEF SaveVars, SavesSame, NoNewWrite
  <2> QED
    BY <1>1, <2>2
<1> QED
  BY <1>1, <1>2, <1>3, <1>4, StoredWrite, StoredChecker, StoredClearSave,
     StoredElsewhere, StoredRestart DEF Next, Checker

\* As long as no two saves overlap and none fails, no save takes stored flags
\* away: only a clear does, or the first login after a restart, whose state
\* starts without flags, whatever goroutines save in between.
THEOREM StoredFlagsSurvive == Spec => StoredFlagsKept
<1>1. TypeOK /\ TypeOK' /\ QuietInv /\ StoredInv /\ [Next]_vars
         => /\ StoredInv'
            /\ \/ saveSpoiled'
               \/ clearer = "reset"
               \/ stats'.era > stats.era
               \/ stats'.era = stats.era /\ stats'.flags >= stats.flags
  <2> SUFFICES ASSUME TypeOK, TypeOK', QuietInv, StoredInv, [Next]_vars
               PROVE  /\ StoredInv'
                      /\ \/ saveSpoiled'
                         \/ clearer = "reset"
                         \/ stats'.era > stats.era
                         \/ stats'.era = stats.era /\ stats'.flags >= stats.flags
    OBVIOUS
  <2>1. stats \in Snapshot /\ stats' \in Snapshot
    BY DEF TypeOK
  <2>2. StoredInv' /\ (~saveSpoiled' /\ clearer # "reset" => AtMost(stats, stats'))
    BY StoredStep
  <2> QED
    BY <2>1, <2>2 DEF AtMost, Snapshot
<1>2. Init => QuietInv
  BY DEF Init, QuietInv, SparedInv, ClientInv, WithId
<1> QED
  BY <1>1, <1>2, StoredInit, QuietStep, TypeInit, TypeStep, PTL
     DEF Spec, StoredFlagsKept

-----------------------------------------------------------------------------
(* Flags told and flags saved.  A flag that no teacher was told of yet is   *)
(* behind the count some frame has read before it, so that this frame will  *)
(* tell it, or it is among the notices of VerifyChain or of the checker;    *)
(* and flags that are not in the database yet are either in the snapshot to *)
(* be written, or somebody is still to take one.                            *)

\* The flags told, and those who raised them are sure to tell.
Covered == told \union {m.flag : m \in {k \in notices : k.era = cs.era}}

ToldInv ==
    cs.known /\ ~clearRaced =>
        /\ Covered \subseteq 1..cs.flags
        /\ \A c \in Conn : Flagging(c) => local[c].before <= cs.flags
        /\ \A n \in 1..cs.flags :
              n \in Covered \/ \E c \in Conn : Flagging(c) /\ local[c].before < n

\* Who is still to notify of a flag is about to; no notice is of an era to come.
NoticeInv ==
    \A m \in notices :
        /\ m.era <= cs.era
        /\ \/ m.by = "checker" /\ checker # "idle"
           \/ m.by \in Conn /\ ChainFlagging(m.by)

\* A snapshot of the flags in memory is still to be taken.
SnapDue ==
    \/ \E c \in Conn : at[c] = "snap"
    \/ \E c \in Conn : at[c] = "compare" /\ local[c].before < cs.flags
    \/ checker = "snap"
    \/ clearer = "snap"

\* What is to be written, or what is written when nothing is, is current.
WritesCurrent ==
    /\ \A c \in Conn : at[c] = "write" => local[c].snap = ToJSON
    /\ checker = "write" => checkerSnap = ToJSON
    /\ clearer \in {"write", "reset"} => clearerSnap = ToJSON
    /\ ~InFlight => stats = ToJSON

CurrentInv ==
    cs.known /\ ~saveSpoiled /\ ~clearRaced => SnapDue \/ WritesCurrent

\* The frames between their count of the flags and their notice, and the counts they have.
FlaggingSame ==
    \A d \in Conn : (Flagging(d)' <=> Flagging(d)) /\ (Flagging(d) => local'[d].before = local[d].before)

LEMMA FlaggingGoto ==
  ASSUME TypeOK, NEW c \in Conn, NEW to, NEW l, Goto(c, to, l), ~Flagging(c),
         to \notin {"update", "compare"},
         to \in {"snap", "write"} => l.then # "tell"
  PROVE  FlaggingSame
<1>1. /\ at \in [Conn -> Places] /\ local \in [Conn -> Locals]
      /\ at' = [at EXCEPT ![c] = to]
      /\ local' = [local EXCEPT ![c] = IF to \in {"read", "leaving"} THEN NoLocals ELSE l]
  BY DEF TypeOK, Goto
<1>2. ~Flagging(c)'
  BY <1>1 DEF Flagging
<1>3. ASSUME NEW d \in Conn, d # c
      PROVE  (Flagging(d)' <=> Flagging(d)) /\ local'[d].before = local[d].before
  BY <1>1, <1>3 DEF Flagging
<1> QED
  BY <1>2, <1>3 DEF FlaggingSame

LEMMA FlaggingMove ==
  ASSUME TypeOK, NEW c \in Conn,
         \/ AddClient(c) \/ LoginRefused(c) \/ LoginStatus(c)
         \/ LoginUnfinished(c) \/ LoginAlone(c)
         \/ EventRefused(c) \/ EventAdmitted(c)
  PROVE  FlaggingSame
<1>1. PICK from \in Places, to \in Places :
        /\ Move(c, from, to)
        /\ from \notin {"update", "compare", "snap", "write"}
        /\ to \notin {"update", "compare", "snap", "write"}
  BY DEF AddClient, LoginRefused, LoginStatus, LoginUnfinished, LoginAlone,
         EventRefused, EventAdmitted, Places
<1>2. ~Flagging(c) /\ Goto(c, to, local[c])
  BY <1>1 DEF Move, Flagging
<1> QED
  BY <1>1, <1>2, FlaggingGoto

LEMMA FlaggingUnchanged ==
  ASSUME UNCHANGED at, UNCHANGED local
  PROVE  FlaggingSame
  BY DEF FlaggingSame, Flagging

\* A frame has the student's id, and with it a CheatingState, as long as it is flagging.
LEMMA FlaggingKnown ==
  ASSUME QuietInv, NEW c \in Conn, Flagging(c)
  PROVE  cs.known
  BY DEF QuietInv, ClientInv, WithId, Flagging

\* Notices and flags told by a step that does not end the life of the flags.
LEMMA CoveredSame ==
  ASSUME told' = told, notices' = notices, cs'.era = cs.era
  PROVE  Covered' = Covered
  BY DEF Covered

LEMMA CoveredRaise ==
  ASSUME NEW by, NEW n \in Nat, Raise(by, n), cs'.era = cs.era
  PROVE  Covered' = Covered \union Positions(n)
<1>1. \A m \in notices' : \/ m \in notices
                          \/ m.era = cs.era /\ m.flag \in Positions(n)
  BY DEF Raise
<1>2. \A k \in Positions(n) : [by |-> by, era |-> cs.era, flag |-> k] \in notices'
  BY DEF Raise
<1>3. notices \subseteq notices' /\ told' = told
  BY DEF Raise
<1>4. Covered' \subseteq Covered \union Positions(n)
  BY <1>1, <1>3 DEF Covered
<1>5. ASSUME NEW k \in Positions(n)
      PROVE  k \in Covered'
  <2> DEFINE m == [by |-> by, era |-> cs.era, flag |-> k]
  <2>1. m \in notices' /\ m.era = cs'.era /\ m.flag = k
    BY <1>2
  <2> HIDE DEF m
  <2> QED
    BY <2>1 DEF Covered
<1>6. Covered \subseteq Covered'
  BY <1>3 DEF Covered
<1> QED
  BY <1>4, <1>5, <1>6

LEMMA CoveredTell ==
  ASSUME NEW by, Tell(by), cs'.era = cs.era
  PROVE  Covered' = Covered
  BY DEF Covered, Tell

\* The notices that are left when an era ends are of no flag of the next one.
LEMMA CoveredNew ==
  ASSUME TypeOK, NoticeInv, told' = {}, notices' = notices, cs'.era = cs.era + 1
  PROVE  Covered' = {}
<1>1. cs.era \in Nat /\ \A m \in notices : m.era \in Nat
  BY DEF TypeOK, CheatingState, Notices
<1>2. \A m \in notices' : m.era # cs'.era
  BY <1>1 DEF NoticeInv
<1> QED
  BY <1>2 DEF Covered

\* Steps that raise no flag, and end the flagging of no frame that has something to tell.
LEMMA ToldKept ==
  ASSUME TypeOK, TypeOK', ToldInv, Covered' = Covered, cs'.flags = cs.flags, cs'.known => cs.known,
         clearRaced => clearRaced',
         \A d \in Conn :
            /\ Flagging(d)' => \/ Flagging(d) /\ local'[d].before = local[d].before
                               \/ local'[d].before <= cs.flags
            /\ Flagging(d) => \/ Flagging(d)' /\ local'[d].before = local[d].before
                              \/ cs.flags <= local[d].before
  PROVE  ToldInv'
<1> SUFFICES ASSUME cs'.known, ~clearRaced'
             PROVE  /\ Covered' \subseteq 1..cs'.flags
                    /\ \A c \in Conn : Flagging(c)' => local'[c].before <= cs'.flags
                    /\ \A n \in 1..cs'.flags :
                          n \in Covered' \/ \E c \in Conn : Flagging(c)' /\ local'[c].before < n
  BY DEF ToldInv
<1>1. /\ Covered \subseteq 1..cs.flags
      /\ \A c \in Conn : Flagging(c) => local[c].before <= cs.flags
      /\ \A n \in 1..cs.flags :
            n \in Covered \/ \E c \in Conn : Flagging(c) /\ local[c].before < n
  BY DEF ToldInv
<1>2. cs.flags \in Nat /\ \A c \in Conn : local[c].before \in Nat
  BY DEF TypeOK, CheatingState, Locals
<1>3. ASSUME NEW n \in 1..cs.flags, n \notin Covered
      PROVE  \E c \in Conn : Flagging(c)' /\ local'[c].before < n
  <2>1. PICK c \in Conn : Flagging(c) /\ local[c].before < n
    BY <1>1, <1>3
  <2>2. ~(cs.flags <= local[c].before)
    BY <1>2, <2>1
  <2> QED
    BY <2>1, <2>2
<1> QED
  BY <1>1, <1>3

\* Steps that raise flags and tell of them.
LEMMA ToldMore ==
  ASSUME TypeOK, ToldInv, FlaggingSame, NEW n \in Nat,
         cs'.flags = cs.flags + n, cs'.known = cs.known,
         Covered' = Covered \union Positions(n), clearRaced' = clearRaced
  PROVE  ToldInv'
<1> SUFFICES ASSUME cs'.known, ~clearRaced'
             PROVE  /\ Covered' \subseteq 1..cs'.flags
                    /\ \A c \in Conn : Flagging(c)' => local'[c].before <= cs'.flags
                    /\ \A k \in 1..cs'.flags :
                          k \in Covered' \/ \E c \in Conn : Flagging(c)' /\ local'[c].before < k
  BY DEF ToldInv
<1>1. /\ Covered \subseteq 1..cs.flags
      /\ \A c \in Conn : Flagging(c) => local[c].before <= cs.flags
      /\ \A k \in 1..cs.flags :
            k \in Covered \/ \E c \in Conn : Flagging(c) /\ local[c].before < k
  BY DEF ToldInv
<1>2. cs.flags \in Nat /\ \A c \in Conn : local[c].before \in Nat
  BY DEF TypeOK, CheatingState, Locals
<1>3. Covered' \subseteq 1..cs'.flags
  <2>1. 1..cs.flags \subseteq 1..cs'.flags /\ Positions(n) \subseteq 1..cs'.flags
    BY <1>2 DEF Positions
  <2> QED
    BY <1>1, <2>1
<1>4. ASSUME NEW c \in Conn, Flagging(c)'
      PROVE  local'[c].before <= cs'.flags
  BY <1>1, <1>2, <1>4 DEF FlaggingSame
<1>5. ASSUME NEW k \in 1..cs'.flags
      PROVE  k \in Covered' \/ \E c \in Conn : Flagging(c)' /\ local'[c].before < k
  <2>1. k \in 1..cs.flags \/ k \in Positions(n)
    BY <1>2 DEF Positions
  <2> QED
    BY <1>1, <2>1 DEF FlaggingSame
<1> QED
  BY <1>3, <1>4, <1>5

\* A new or emptied state, with no frame flagging.
LEMMA ToldAnew ==
  ASSUME cs'.known /\ ~clearRaced' => /\ Covered' = {} /\ cs'.flags = 0
                                      /\ \A d \in Conn : ~Flagging(d)'
  PROVE  ToldInv'
  BY DEF ToldInv

LEMMA ToldServe ==
  ASSUME TypeOK, TypeOK', QuietInv, NoticeInv, ToldInv, NEW c \in Conn, Serve(c) \/ Peer(c)
  PROVE  ToldInv'
<1>1. /\ cs \in CheatingState /\ cs.flags \in Nat /\ cs.era \in Nat
      /\ at \in [Conn -> Places] /\ local \in [Conn -> Locals]
      /\ \A d \in Conn : local[d] \in Locals /\ local[d].before \in Nat
  BY DEF TypeOK, CheatingState, Locals
<1>2. ASSUME FlaggingSame, Covered' = Covered, cs'.flags = cs.flags, cs'.known = cs.known,
             clearRaced' = clearRaced
      PROVE  ToldInv'
  BY <1>2, ToldKept DEF FlaggingSame
<1>3. CASE \/ AddClient(c) \/ LoginRefused(c) \/ LoginStatus(c)
           \/ LoginUnfinished(c) \/ LoginAlone(c)
           \/ EventRefused(c) \/ EventAdmitted(c)
  <2>1. UNCHANGED <<cs, told, notices, clearRaced>>
    BY <1>3, MovesSame DEF historyVars
  <2>2. Covered' = Covered
    BY <2>1, CoveredSame
  <2> QED
    BY <1>2, <1>3, <2>1, <2>2, FlaggingMove
<1>4. CASE LoginName(c) \/ ReadError(c) \/ RemoveClient(c)
  <2>1. UNCHANGED <<cs, told, notices, clearRaced>>
    BY <1>4 DEF LoginName, ReadError, RemoveClient, historyVars
  <2>3. Covered' = Covered
    BY <2>1, CoveredSame
  <2>2. \E to, l : /\ Goto(c, to, l) /\ ~Flagging(c)
                   /\ to \notin {"update", "compare", "snap", "write"}
    <3>1. \/ Goto(c, "named", local[c]) \/ Goto(c, "leaving", NoLocals)
          \/ Goto(c, "closed", NoLocals)
      BY <1>4 DEF LoginName, ReadError, RemoveClient
    <3>2. ~Flagging(c)
      BY <1>4 DEF LoginName, ReadError, RemoveClient, Flagging
    <3> QED
      BY <3>1, <3>2
  <2> QED
    BY <1>2, <2>1, <2>2, <2>3, FlaggingGoto
<1>5. CASE LoginBind(c)
  <2>1. /\ at[c] = "named" /\ Goto(c, "snap", NoLocals)
        /\ cs' = [GetCheatingState EXCEPT !.online = TRUE, !.fresh = TRUE]
        /\ told' = IF cs.known THEN told ELSE {}
        /\ UNCHANGED <<notices, clearRaced>>
    BY <1>5 DEF LoginBind
  <2>2. FlaggingSame
    BY <2>1, FlaggingGoto DEF Flagging, NoLocals
  <2>3. CASE cs.known
    <3>1. cs'.flags = cs.flags /\ cs'.known = cs.known /\ cs'.era = cs.era
      BY <1>1, <2>1, <2>3 DEF GetCheatingState, CheatingState
    <3>2. Covered' = Covered
      BY <2>1, <2>3, <3>1, CoveredSame
    <3> QED
      BY <1>2, <2>1, <2>2, <2>3, <3>1, <3>2
  <2>4. CASE ~cs.known
    <3>1. cs'.flags = 0 /\ cs'.era = cs.era + 1
      BY <1>1, <2>1, <2>4 DEF GetCheatingState
    <3>3. Covered' = {}
      BY <2>1, <2>4, <3>1, CoveredNew
    <3>2. \A d \in Conn : ~Flagging(d)'
      BY <2>2, <2>4, FlaggingKnown DEF FlaggingSame
    <3> QED
      BY <2>1, <2>4, <3>1, <3>2, <3>3, ToldAnew
  <2> QED
    BY <2>3, <2>4
<1>6. CASE EventInsert(c)
  <2>1. /\ at[c] = "insert" /\ at' = [at EXCEPT ![c] = "update"]
        /\ local' = [local EXCEPT ![c] = [local[c] EXCEPT !.before = cs.flags]]
        /\ UNCHANGED <<told, notices, clearRaced>>
    BY <1>6 DEF EventInsert, Goto
  <2>2. cs'.flags = cs.flags /\ cs'.known = cs.known /\ cs'.era = cs.era
    BY <1>1, <1>6 DEF EventInsert, CheatingState
  <2>5. Covered' = Covered
    BY <2>1, <2>2, CoveredSame
  <2>3. ~Flagging(c) /\ local'[c].before = cs.flags
    BY <1>1, <2>1 DEF Flagging, Locals
  <2>4. \A d \in Conn \ {c} : (Flagging(d)' <=> Flagging(d)) /\ local'[d] = local[d]
    BY <1>1, <2>1 DEF Flagging
  <2> QED
    BY <1>1, <2>1, <2>2, <2>3, <2>4, <2>5, ToldKept
<1>7. CASE EventUpdate(c)
  <2>1. /\ at[c] = "update" /\ at' = [at EXCEPT ![c] = "compare"] /\ UNCHANGED local
        /\ UNCHANGED <<told, notices, clearRaced>>
    BY <1>1, <1>7 DEF EventUpdate, Goto, historyVars
  <2>2. FlaggingSame /\ Flagging(c) /\ Flagging(c)'
    BY <1>1, <2>1 DEF FlaggingSame, Flagging
  <2>3. PICK n \in 0..2 : cs'.flags = cs.flags + n /\ cs'.known = cs.known /\ cs'.era = cs.era
    BY <1>1, <1>7 DEF EventUpdate, CheatingState
  <2>9. Covered' = Covered
    BY <2>1, <2>3, CoveredSame
  <2>4. SUFFICES ASSUME cs.known, ~clearRaced
                 PROVE  ToldInv'
    BY <2>1, <2>3 DEF ToldInv
  <2>5. /\ Covered \subseteq 1..cs.flags
        /\ \A d \in Conn : Flagging(d) => local[d].before <= cs.flags
        /\ \A k \in 1..cs.flags :
              k \in Covered \/ \E d \in Conn : Flagging(d) /\ local[d].before < k
    BY <2>4 DEF ToldInv
  <2>6. ASSUME NEW k \in 1..cs'.flags
        PROVE  k \in Covered \/ \E d \in Conn : Flagging(d) /\ local[d].before < k
    <3>1. k \in 1..cs.flags \/ local[c].before < k
      BY <1>1, <2>2, <2>3, <2>5
    <3> QED
      BY <2>2, <2>5, <3>1
  <2>7. Covered \subseteq 1..cs'.flags /\ \A d \in Conn : Flagging(d) => local[d].before <= cs'.flags
    BY <1>1, <2>3, <2>5
  <2>8. \A d \in Conn : Flagging(d)' <=> Flagging(d)
    BY <2>2 DEF FlaggingSame
  <2> QED
    BY <2>1, <2>6, <2>7, <2>8, <2>9 DEF ToldInv
<1>8. CASE EventCompare(c)
  <2>1. /\ at[c] = "compare"
        /\ Goto(c, IF cs.flags > local[c].before THEN "snap" ELSE "read", [local[c] EXCEPT !.then = "tell"])
        /\ UNCHANGED <<cs, told, notices, clearRaced>>
    BY <1>8 DEF EventCompare, historyVars
  <2>5. Covered' = Covered
    BY <2>1, CoveredSame
  <2>2. \A d \in Conn \ {c} : (Flagging(d)' <=> Flagging(d)) /\ local'[d] = local[d]
    BY <1>1, <2>1 DEF Goto, Flagging
  <2>3. CASE cs.flags > local[c].before
    <3>1. at'[c] = "snap" /\ local'[c] = [local[c] EXCEPT !.then = "tell"]
      BY <1>1, <2>1, <2>3 DEF Goto
    <3>2. Flagging(c) /\ Flagging(c)' /\ local'[c].before = local[c].before
      BY <1>1, <2>1, <3>1 DEF Flagging, Locals
    <3> QED
      BY <2>1, <2>2, <2>5, <3>2, ToldKept
  <2>4. CASE ~(cs.flags > local[c].before)
    <3>1. at'[c] = "read"
      BY <1>1, <2>1, <2>4 DEF Goto
    <3>2. ~Flagging(c)' /\ cs.flags <= local[c].before
      BY <1>1, <2>4, <3>1 DEF Flagging
    <3> QED
      BY <2>1, <2>2, <2>5, <3>2, ToldKept
  <2> QED
    BY <2>3, <2>4
<1>9. CASE Snap(c)
  <2>1. /\ at[c] = "snap" /\ at' = [at EXCEPT ![c] = "write"]
        /\ local' = [local EXCEPT ![c] = [local[c] EXCEPT !.snap = ToJSON]]
        /\ UNCHANGED <<cs, told, notices, clearRaced>>
    BY <1>9 DEF Snap, Goto
  <2>4. Covered' = Covered
    BY <2>1, CoveredSame
  <2>2. local'[c].then = local[c].then /\ local'[c].before = local[c].before
    BY <1>1, <2>1 DEF Locals
  <2>3. FlaggingSame
    BY <1>1, <2>1, <2>2 DEF FlaggingSame, Flagging
  <2> QED
    BY <1>2, <2>1, <2>3, <2>4
<1>10. CASE Write(c) /\ local[c].then = "tell"
  <2>1. /\ at[c] = "write" /\ NotifyFlags(c) /\ UNCHANGED <<cs, notices, clearRaced>>
    BY <1>10 DEF Write
  <2>2. /\ at'[c] \in {"read", "leaving"}
        /\ \A d \in Conn \ {c} : at'[d] = at[d] /\ local'[d] = local[d]
    BY <1>1, <2>1 DEF NotifyFlags, Goto
  <2>3. ~Flagging(c)' /\ \A d \in Conn \ {c} : (Flagging(d)' <=> Flagging(d)) /\ local'[d] = local[d]
    BY <2>2 DEF Flagging
  <2>4. CASE local[c].before > cs.flags
    <3>1. told' = told /\ cs.flags <= local[c].before
      BY <1>1, <2>1, <2>4 DEF NotifyFlags
    <3>2. Covered' = Covered
      BY <2>1, <3>1, CoveredSame
    <3> QED
      BY <2>1, <2>3, <3>1, <3>2, ToldKept
  <2>5. CASE ~(local[c].before > cs.flags)
    <3>1. Covered' = Covered \union ((local[c].before + 1)..cs.flags)
      <4>1. told' = told \union ((local[c].before + 1)..cs.flags)
        BY <1>1, <2>1, <2>5 DEF NotifyFlags
      <4> QED
        BY <2>1, <4>1 DEF Covered
    <3>2. SUFFICES ASSUME cs.known, ~clearRaced
                   PROVE  ToldInv'
      BY <2>1 DEF ToldInv
    <3>3. /\ Covered \subseteq 1..cs.flags
          /\ \A d \in Conn : Flagging(d) => local[d].before <= cs.flags
          /\ \A k \in 1..cs.flags :
                k \in Covered \/ \E d \in Conn : Flagging(d) /\ local[d].before < k
      BY <3>2 DEF ToldInv
    <3>4. ASSUME NEW k \in 1..cs.flags
          PROVE  k \in Covered' \/ \E d \in Conn : Flagging(d)' /\ local'[d].before < k
      <4>1. k \in Covered \/ \E d \in Conn : Flagging(d) /\ local[d].before < k
        BY <3>3
      <4>2. local[c].before < k => k \in Covered'
        BY <1>1, <3>1
      <4> QED
        BY <2>3, <3>1, <4>1, <4>2
    <3>5. Covered' \subseteq 1..cs.flags
      <4>1. (local[c].before + 1)..cs.flags \subseteq 1..cs.flags
        BY <1>1
      <4> QED
        BY <3>1, <3>3, <4>1
    <3>6. \A d \in Conn : Flagging(d)' => local'[d].before <= cs.flags
      BY <2>3, <3>3
    <3> QED
      BY <2>1, <3>4, <3>5, <3>6 DEF ToldInv
  <2> QED
    BY <2>4, <2>5
<1>11. CASE Write(c) /\ local[c].then # "tell"
  <2>1. /\ at[c] = "write" /\ Goto(c, local[c].then, [NoLocals EXCEPT !.req = local[c].req])
        /\ Tell(c) /\ UNCHANGED <<cs, clearRaced>>
    BY <1>11 DEF Write
  <2>4. Covered' = Covered
    BY <2>1, CoveredTell
  <2>2. local[c].then \in {"dispatch", "read"} /\ ~Flagging(c)
    BY <1>1, <1>11, <2>1 DEF Locals, Flagging
  <2>3. FlaggingSame
    BY <2>1, <2>2, FlaggingGoto
  <2> QED
    BY <1>2, <2>1, <2>3, <2>4
<1>12. CASE \E kind \in Kinds : Receive(c, kind)
  <2>1. PICK kind \in Kinds : Receive(c, kind)
    BY <1>12
  <2>2. at[c] = "read" /\ clearRaced' = clearRaced
    BY <2>1, ReceiveRaises, Zenon
  <2>3. CASE Goto(c, "dispatch", [NoLocals EXCEPT !.req = kind]) /\ UNCHANGED <<cs, told, notices>>
    <3>1. FlaggingSame
      BY <2>2, <2>3, FlaggingGoto DEF Flagging
    <3> QED
      BY <1>2, <2>2, <2>3, <3>1, CoveredSame
  <2>4. CASE /\ Goto(c, "snap", [NoLocals EXCEPT !.req = kind, !.then = "dispatch"])
             /\ \E n \in 1..2 : cs' = [cs EXCEPT !.flags = @ + n] /\ Raise(c, n)
    <3>1. FlaggingSame
      <4> DEFINE l == [NoLocals EXCEPT !.req = kind, !.then = "dispatch"]
      <4>1. l.then # "tell"
        BY DEF NoLocals
      <4>2. ~Flagging(c) /\ Goto(c, "snap", l)
        BY <2>2, <2>4 DEF Flagging
      <4> HIDE DEF l
      <4> QED
        BY <4>1, <4>2, FlaggingGoto
    <3>2. PICK n \in 1..2 : cs' = [cs EXCEPT !.flags = @ + n] /\ Raise(c, n)
      BY <2>4
    <3>3. cs'.flags = cs.flags + n /\ cs'.known = cs.known /\ cs'.era = cs.era
      BY <1>1, <3>2 DEF CheatingState
    <3>4. Covered' = Covered \union Positions(n)
      BY <3>2, <3>3, CoveredRaise
    <3> QED
      BY <2>2, <3>1, <3>3, <3>4, ToldMore
  <2> QED
    BY <2>1, <2>3, <2>4, ReceiveRaises, Zenon
<1> QED
  BY <1>3, <1>4, <1>5, <1>6, <1>7, <1>8, <1>9, <1>10, <1>11, <1>12 DEF Serve, Peer

LEMMA ToldElsewhere ==
  ASSUME TypeOK, TypeOK', QuietInv, NoticeInv, ToldInv,
         GoStale \/ Checker \/ Teacher \/ ClearSave \/ Expiry \/ NotifyEnd \/ Restart
  PROVE  ToldInv'
<1>1. cs \in CheatingState /\ cs.flags \in Nat /\ cs.era \in Nat
  BY DEF TypeOK, CheatingState
<1>2. CASE \/ GoStale \/ CheckerSave \/ ClearSave \/ Expiry \/ NotifyEnd
           \/ \E s \in {"pending", "running", "finished"} : UpdateRunStatus(s)
  <2>1. UNCHANGED <<at, local, clearRaced>>
    BY <1>2 DEF GoStale, CheckerSave, ClearSave, Expiry, ExpiryQuery, ExpiryClose, NotifyEnd,
                UpdateRunStatus, goVars, historyVars
  <2>2. cs'.flags = cs.flags /\ cs'.known = cs.known /\ cs'.era = cs.era
    BY <1>1, <1>2 DEF GoStale, CheckerSave, ClearSave, Expiry, ExpiryQuery, ExpiryClose,
                      NotifyEnd, notifyRunEnded, UpdateRunStatus, CheatingState
  <2>3. UNCHANGED <<told, notices>> \/ Tell("checker")
    BY <1>2 DEF GoStale, CheckerSave, ClearSave, Expiry, ExpiryQuery, ExpiryClose, NotifyEnd,
                UpdateRunStatus, historyVars
  <2>4. Covered' = Covered
    BY <2>2, <2>3, CoveredSame, CoveredTell
  <2> QED
    BY <2>1, <2>2, <2>4, FlaggingUnchanged, ToldKept DEF FlaggingSame
<1>3. CASE CheckerFlag
  <2>1. UNCHANGED <<at, local, clearRaced>> /\ Raise("checker", 1)
    BY <1>3 DEF CheckerFlag, goVars
  <2>2. cs'.flags = cs.flags + 1 /\ cs'.known = cs.known /\ cs'.era = cs.era
    BY <1>1, <1>3 DEF CheckerFlag, CheatingState
  <2>3. Covered' = Covered \union Positions(1)
    BY <2>1, <2>2, CoveredRaise
  <2> QED
    BY <2>1, <2>2, <2>3, FlaggingUnchanged, ToldMore
<1>4. CASE ClearFlags /\ cs.known
  <2>1. /\ UNCHANGED <<at, local, notices>> /\ told' = {}
        /\ clearRaced' = (clearRaced \/ \E c \in Conn : Flagging(c))
        /\ cs' = [cs EXCEPT !.flags = 0, !.era = @ + 1]
    BY <1>4 DEF ClearFlags, goVars
  <2>2. cs'.flags = 0 /\ cs'.era = cs.era + 1
    BY <1>1, <2>1 DEF CheatingState
  <2>3. ~clearRaced' => \A d \in Conn : ~Flagging(d)'
    BY <2>1, FlaggingUnchanged DEF FlaggingSame
  <2>4. Covered' = {}
    BY <2>1, <2>2, CoveredNew
  <2> QED
    BY <2>1, <2>2, <2>3, <2>4, ToldAnew
<1>5. CASE ClearFlags /\ ~cs.known
  BY <1>5 DEF ClearFlags, ToldInv
<1>6. CASE Restart
  BY <1>1, <1>6 DEF Restart, CheatingState, ToldInv
<1> QED
  BY <1>2, <1>3, <1>4, <1>5, <1>6 DEF Checker, Teacher

LEMMA ToldStep ==
  TypeOK /\ TypeOK' /\ QuietInv /\ NoticeInv /\ ToldInv /\ [Next]_vars => ToldInv'
<1> SUFFICES ASSUME TypeOK, TypeOK', QuietInv, NoticeInv, ToldInv, [Next]_vars
             PROVE  ToldInv'
  OBVIOUS
<1>1. CASE UNCHANGED vars
  <2>1. UNCHANGED <<at, local, cs, told, notices, clearRaced>>
    BY <1>1 DEF vars, goVars, historyVars
  <2>2. Covered' = Covered
    BY <2>1, CoveredSame
  <2> QED
    BY <2>1, <2>2, FlaggingUnchanged, ToldKept DEF FlaggingSame
<1> QED
  BY <1>1, ToldServe, ToldElsewhere DEF Next

\* Steps that end no life of the flags backwards, and take nobody to task who is still
\* to notify of a flag.
LEMMA NoticeKept ==
  ASSUME TypeOK, TypeOK', NoticeInv, notices' \subseteq notices, cs.era <= cs'.era,
         checker # "idle" => \/ checker' # "idle"
                             \/ \A m \in notices' : m.by # "checker",
         \A d \in Conn : ChainFlagging(d) => \/ ChainFlagging(d)'
                                             \/ \A m \in notices' : m.by # d
  PROVE  NoticeInv'
<1>1. cs.era \in Nat /\ cs'.era \in Nat /\ \A m \in notices : m.era \in Nat
  BY DEF TypeOK, CheatingState, Notices
<1>2. ASSUME NEW m \in notices'
      PROVE  m.era <= cs'.era
  BY <1>1, <1>2 DEF NoticeInv
<1>3. ASSUME NEW m \in notices'
      PROVE  \/ m.by = "checker" /\ checker' # "idle"
             \/ m.by \in Conn /\ ChainFlagging(m.by)'
  <2>1. \/ m.by = "checker" /\ checker # "idle"
        \/ m.by \in Conn /\ ChainFlagging(m.by)
    BY <1>3 DEF NoticeInv
  <2>2. CASE m.by = "checker" /\ checker # "idle"
    BY <1>3, <2>2
  <2>3. CASE m.by \in Conn /\ ChainFlagging(m.by)
    <3>1. ChainFlagging(m.by)'
      BY <1>3, <2>3
    <3> QED
      BY <2>3, <3>1
  <2> QED
    BY <2>1, <2>2, <2>3
<1> QED
  BY <1>2, <1>3 DEF NoticeInv

\* A goroutine's step: only VerifyChain's flagging leaves notices behind, and its save
\* ends with them.
LEMMA NoticeServe ==
  ASSUME TypeOK, TypeOK', NoticeInv, NEW c \in Conn, Serve(c) \/ Peer(c)
  PROVE  NoticeInv'
<1>1. /\ cs \in CheatingState /\ cs.era \in Nat
      /\ at \in [Conn -> Places] /\ local \in [Conn -> Locals]
  BY DEF TypeOK, CheatingState
<1>2. ASSUME \E to, l : Goto(c, to, l), notices' \subseteq notices, cs.era <= cs'.era,
             checker' = checker,
             ChainFlagging(c) => \/ ChainFlagging(c)'
                                 \/ \A m \in notices' : m.by # c
      PROVE  NoticeInv'
  <2>1. \A d \in Conn \ {c} : at'[d] = at[d] /\ local'[d] = local[d]
    BY <1>1, <1>2 DEF Goto
  <2>2. \A d \in Conn \ {c} : ChainFlagging(d) => ChainFlagging(d)'
    BY <2>1 DEF ChainFlagging
  <2> QED
    BY <1>2, <2>2, NoticeKept
<1>3. CASE \/ AddClient(c) \/ LoginRefused(c) \/ LoginStatus(c)
           \/ LoginUnfinished(c) \/ LoginAlone(c)
           \/ EventRefused(c) \/ EventAdmitted(c)
  <2>1. UNCHANGED <<cs, notices, checker>>
    BY <1>3, MovesSame DEF historyVars, otherVars
  <2>2. PICK from \in Places, to \in Places : Move(c, from, to) /\ from \notin {"snap", "write"}
    BY <1>3 DEF AddClient, LoginRefused, LoginStatus, LoginUnfinished, LoginAlone,
                EventRefused, EventAdmitted, Places
  <2>3. ~ChainFlagging(c) /\ Goto(c, to, local[c])
    BY <2>2 DEF Move, ChainFlagging
  <2> QED
    BY <1>1, <1>2, <2>1, <2>3
<1>4. CASE \/ LoginName(c) \/ LoginBind(c) \/ EventInsert(c) \/ EventUpdate(c)
           \/ EventCompare(c) \/ ReadError(c) \/ RemoveClient(c)
  <2>1. notices' = notices /\ checker' = checker
    BY <1>4 DEF LoginName, LoginBind, EventInsert, EventUpdate, EventCompare, ReadError,
                RemoveClient, historyVars, otherVars
  <2>2. cs.era <= cs'.era
    <3>1. CASE LoginBind(c)
      <4>1. cs'.era = GetCheatingState.era
        <5>1. GetCheatingState \in CheatingState
          BY <1>1, GetCheatingStateType
        <5> QED
          BY <3>1, <5>1 DEF LoginBind, CheatingState
      <4>2. GetCheatingState.era = cs.era \/ GetCheatingState.era = cs.era + 1
        BY DEF GetCheatingState
      <4> QED
        BY <1>1, <4>1, <4>2
    <3>2. CASE EventInsert(c) \/ EventUpdate(c)
      BY <1>1, <3>2 DEF EventInsert, EventUpdate, CheatingState
    <3>3. CASE LoginName(c) \/ EventCompare(c) \/ ReadError(c) \/ RemoveClient(c)
      <4>1. cs' = cs
        BY <3>3 DEF LoginName, EventCompare, ReadError, RemoveClient
      <4> QED
        BY <1>1, <4>1
    <3> QED
      BY <1>4, <3>1, <3>2, <3>3
  <2>3. ~ChainFlagging(c)
    BY <1>4 DEF LoginName, LoginBind, EventInsert, EventUpdate, EventCompare, ReadError,
                RemoveClient, ChainFlagging
  <2>4. \E to, l : Goto(c, to, l)
    BY <1>4, Zenon DEF LoginName, LoginBind, EventInsert, EventUpdate, EventCompare, ReadError,
                RemoveClient
  <2> QED
    BY <1>2, <2>1, <2>2, <2>3, <2>4
<1>5. CASE Snap(c)
  <2>1. /\ Goto(c, "write", [local[c] EXCEPT !.snap = ToJSON])
        /\ UNCHANGED <<cs, notices, checker>>
    BY <1>5 DEF Snap, otherVars
  <2>2. at'[c] = "write" /\ local'[c].then = local[c].then
    BY <1>1, <2>1 DEF Goto, Locals
  <2>3. ChainFlagging(c) => ChainFlagging(c)'
    BY <2>2 DEF ChainFlagging
  <2> QED
    BY <1>1, <1>2, <2>1, <2>3
<1>6. CASE Write(c)
  <2>1. UNCHANGED <<cs, checker>>
    BY <1>6 DEF Write, otherVars
  <2>2. CASE local[c].then = "tell"
    <3>1. NotifyFlags(c) /\ UNCHANGED notices /\ ~ChainFlagging(c)
      BY <1>6, <2>2 DEF Write, ChainFlagging
    <3>2. \E to, l : Goto(c, to, l)
      BY <3>1 DEF NotifyFlags
    <3> QED
      BY <1>1, <1>2, <2>1, <3>1, <3>2
  <2>3. CASE local[c].then # "tell"
    <3>1. Tell(c) /\ Goto(c, local[c].then, [NoLocals EXCEPT !.req = local[c].req])
      BY <1>6, <2>3 DEF Write
    <3>2. notices' \subseteq notices /\ \A m \in notices' : m.by # c
      BY <3>1 DEF Tell
    <3> QED
      BY <1>1, <1>2, <2>1, <3>1, <3>2
  <2> QED
    BY <2>2, <2>3
<1>7. ASSUME NEW kind \in Kinds, Receive(c, kind)
      PROVE  NoticeInv'
  <2>1. at[c] = "read" /\ UNCHANGED otherVars
    BY <1>7, ReceiveRaises, Zenon
  <2>2. ~ChainFlagging(c) /\ checker' = checker
    BY <2>1 DEF ChainFlagging, otherVars
  <2>3. CASE Goto(c, "dispatch", [NoLocals EXCEPT !.req = kind]) /\ UNCHANGED <<cs, told, notices>>
    BY <1>1, <1>2, <2>2, <2>3
  <2>4. CASE /\ Goto(c, "snap", [NoLocals EXCEPT !.req = kind, !.then = "dispatch"])
             /\ \E n \in 1..2 : cs' = [cs EXCEPT !.flags = @ + n] /\ Raise(c, n)
    <3>1. PICK n \in 1..2 : cs' = [cs EXCEPT !.flags = @ + n] /\ Raise(c, n)
      BY <2>4
    <3>2. cs'.era = cs.era
      BY <1>1, <3>1 DEF CheatingState
    <3>3. ChainFlagging(c)'
      <4> DEFINE l == [NoLocals EXCEPT !.req = kind, !.then = "dispatch"]
      <4>1. l.then = "dispatch"
        BY DEF NoLocals
      <4>2. Goto(c, "snap", l)
        BY <2>4
      <4> HIDE DEF l
      <4> QED
        BY <1>1, <4>1, <4>2 DEF Goto, ChainFlagging
    <3>4. \A d \in Conn : ChainFlagging(d) => ChainFlagging(d)'
      <4>1. \A d \in Conn \ {c} : at'[d] = at[d] /\ local'[d] = local[d]
        BY <1>1, <2>4 DEF Goto
      <4> QED
        BY <3>3, <4>1 DEF ChainFlagging
    <3>5. ASSUME NEW m \in notices'
          PROVE  m \in notices \/ (m.by = c /\ m.era = cs.era)
      BY <3>1 DEF Raise
    <3>6. ASSUME NEW m \in notices'
          PROVE  /\ m.era <= cs'.era
                 /\ \/ m.by = "checker" /\ checker' # "idle"
                    \/ m.by \in Conn /\ ChainFlagging(m.by)'
      <4>1. CASE m \in notices
        <5>1. /\ m.era <= cs.era
              /\ \/ m.by = "checker" /\ checker # "idle"
                 \/ m.by \in Conn /\ ChainFlagging(m.by)
          BY <4>1 DEF NoticeInv
        <5>2. m.by \in Conn /\ ChainFlagging(m.by) => ChainFlagging(m.by)'
          BY <3>4
        <5> QED
          BY <2>2, <3>2, <5>1, <5>2
      <4>2. CASE m.by = c /\ m.era = cs.era
        BY <1>1, <3>2, <3>3, <4>2
      <4> QED
        BY <3>5, <4>1, <4>2
    <3> QED
      BY <3>6 DEF NoticeInv
  <2> QED
    BY <1>7, <2>3, <2>4, ReceiveRaises, Zenon
<1> QED
  BY <1>3, <1>4, <1>5, <1>6, <1>7 DEF Serve, Peer

LEMMA NoticeElsewhere ==
  ASSUME TypeOK, TypeOK', NoticeInv,
         \/ GoStale \/ Checker \/ Teacher \/ ClearSave \/ Expiry \/ NotifyEnd \/ Restart
         \/ UNCHANGED vars
  PROVE  NoticeInv'
<1>1. cs \in CheatingState /\ cs.era \in Nat /\ \A m \in notices : m.era \in Nat
  BY DEF TypeOK, CheatingState, Notices
<1>2. CASE \/ GoStale \/ Teacher \/ ClearSave \/ Expiry \/ NotifyEnd \/ UNCHANGED vars
  <2>1. UNCHANGED <<at, local, notices, checker>>
    BY <1>2 DEF GoStale, Teacher, ClearFlags, UpdateRunStatus, ClearSave, Expiry, ExpiryQuery,
                ExpiryClose, NotifyEnd, vars, goVars, otherVars, historyVars
  <2>2. cs.era <= cs'.era
    <3>1. CASE ClearFlags
      <4>1. cs' = cs \/ cs' = [cs EXCEPT !.flags = 0, !.era = @ + 1]
        BY <3>1 DEF ClearFlags
      <4>2. cs'.era = cs.era \/ cs'.era = cs.era + 1
        BY <1>1, <4>1 DEF CheatingState
      <4> QED
        BY <1>1, <4>2
    <3>2. CASE GoStale \/ NotifyEnd
      BY <1>1, <3>2 DEF GoStale, NotifyEnd, notifyRunEnded, CheatingState
    <3>3. CASE \/ ClearSave \/ Expiry \/ UNCHANGED vars
               \/ \E s \in {"pending", "running", "finished"} : UpdateRunStatus(s)
      BY <1>1, <3>3 DEF UpdateRunStatus, ClearSave, Expiry, ExpiryQuery, ExpiryClose, vars
    <3> QED
      BY <1>2, <3>1, <3>2, <3>3 DEF Teacher
  <2>3. \A d \in Conn : ChainFlagging(d) => ChainFlagging(d)'
    BY <2>1 DEF ChainFlagging
  <2> QED
    BY <2>1, <2>2, <2>3, NoticeKept
<1>3. CASE CheckerSave
  <2>1. UNCHANGED <<at, local, cs>>
    BY <1>3 DEF CheckerSave, goVars
  <2>2. \/ checker' = "write" /\ UNCHANGED notices
        \/ Tell("checker")
    BY <1>3 DEF CheckerSave
  <2>3. /\ notices' \subseteq notices
        /\ checker' # "idle" \/ \A m \in notices' : m.by # "checker"
    BY <2>2 DEF Tell
  <2>4. \A d \in Conn : ChainFlagging(d) => ChainFlagging(d)'
    BY <2>1 DEF ChainFlagging
  <2> QED
    BY <1>1, <2>1, <2>3, <2>4, NoticeKept
<1>4. CASE CheckerFlag
  <2>1. UNCHANGED <<at, local>> /\ checker' = "snap" /\ Raise("checker", 1)
    BY <1>4 DEF CheckerFlag, goVars
  <2>2. cs'.era = cs.era
    BY <1>1, <1>4 DEF CheckerFlag, CheatingState
  <2>3. \A d \in Conn : ChainFlagging(d) => ChainFlagging(d)'
    BY <2>1 DEF ChainFlagging
  <2>4. ASSUME NEW m \in notices'
        PROVE  m \in notices \/ (m.by = "checker" /\ m.era = cs.era)
    BY <2>1 DEF Raise
  <2>5. ASSUME NEW m \in notices'
        PROVE  /\ m.era <= cs'.era
               /\ \/ m.by = "checker" /\ checker' # "idle"
                  \/ m.by \in Conn /\ ChainFlagging(m.by)'
    <3>1. CASE m \in notices
      <4>1. /\ m.era <= cs.era
            /\ \/ m.by = "checker"
               \/ m.by \in Conn /\ ChainFlagging(m.by)
        BY <3>1 DEF NoticeInv
      <4>2. m.by \in Conn /\ ChainFlagging(m.by) => ChainFlagging(m.by)'
        BY <2>3
      <4> QED
        BY <2>1, <2>2, <4>1, <4>2
    <3>2. CASE m.by = "checker" /\ m.era = cs.era
      BY <1>1, <2>1, <2>2, <3>2
    <3> QED
      BY <2>4, <3>1, <3>2
  <2> QED
    BY <2>5 DEF NoticeInv
<1>5. CASE Restart
  BY <1>5 DEF Restart, NoticeInv
<1> QED
  BY <1>2, <1>3, <1>4, <1>5 DEF Checker

LEMMA NoticeStep == TypeOK /\ TypeOK' /\ NoticeInv /\ [Next]_vars => NoticeInv'
  BY NoticeServe, NoticeElsewhere DEF Next

LEMMA QuietInit == Init => QuietInv
  BY DEF Init, QuietInv, SparedInv, ClientInv, WithId

\* No flag is kept from the teachers: as long as no clear runs inside a frame that flags,
\* whoever else raises flags meanwhile, all flags in memory have been told of once nobody
\* is between raising flags and the notice of them.
THEOREM FlagsAreTold == Spec => []FlagsTold
<1>1. Init => ToldInv /\ NoticeInv
  BY DEF Init, ToldInv, NoticeInv
<1>2. TypeOK /\ NoticeInv /\ ToldInv => FlagsTold
  <2> SUFFICES ASSUME TypeOK, NoticeInv, ToldInv, cs.known, ~clearRaced, AllNotified
               PROVE  told = 1..cs.flags
    BY DEF FlagsTold
  <2>1. notices = {}
    BY DEF NoticeInv, AllNotified
  <2>2. Covered = told
    BY <2>1 DEF Covered
  <2>3. Covered \subseteq 1..cs.flags /\ 1..cs.flags \subseteq Covered
    BY DEF ToldInv, AllNotified
  <2> QED
    BY <2>2, <2>3
<1> QED
  BY <1>1, <1>2, ToldStep, NoticeStep, QuietInit, QuietStep, TypeInit, TypeStep, PTL DEF Spec

\* Steps that leave the flags in memory, the stored ones and those in snapshots as they
\* are, and send nobody away who is to take one.
LEMMA CurrentKept ==
  ASSUME TypeOK, CurrentInv, cs'.known => cs.known,
         UNCHANGED <<ToJSON, stats, checker, checkerSnap, clearer, clearerSnap>>,
         saveSpoiled => saveSpoiled', clearRaced => clearRaced',
         \A d \in Conn :
            /\ at[d] = "snap" => at'[d] = "snap"
            /\ at[d] = "compare" /\ local[d].before < cs.flags =>
                  \/ at'[d] = "snap"
                  \/ at'[d] = "compare" /\ local'[d].before = local[d].before
            /\ at[d] = "write" <=> at'[d] = "write"
            /\ at[d] = "write" => local'[d].snap = local[d].snap
  PROVE  CurrentInv'
<1> SUFFICES ASSUME cs'.known, ~saveSpoiled', ~clearRaced'
             PROVE  SnapDue' \/ WritesCurrent'
  BY DEF CurrentInv
<1>1. SnapDue \/ WritesCurrent
  BY DEF CurrentInv
<1>2. cs'.flags = cs.flags
  BY DEF ToJSON
<1>3. SnapDue => SnapDue'
  BY <1>2 DEF SnapDue
<1>4. InFlight' <=> InFlight
  BY DEF InFlight
<1>5. WritesCurrent => WritesCurrent'
  BY <1>4 DEF WritesCurrent
<1> QED
  BY <1>1, <1>3, <1>5

LEMMA CurrentDue ==
  ASSUME SnapDue'
  PROVE  CurrentInv'
  BY DEF CurrentInv

LEMMA CurrentServe ==
  ASSUME TypeOK, TypeOK', QuietInv, ToldInv, CurrentInv, NEW c \in Conn, Serve(c) \/ Peer(c)
  PROVE  CurrentInv'
<1>1. /\ cs \in CheatingState /\ cs.flags \in Nat /\ cs.era \in Nat
      /\ at \in [Conn -> Places] /\ local \in [Conn -> Locals]
      /\ \A d \in Conn : local[d] \in Locals /\ local[d].before \in Nat
  BY DEF TypeOK, CheatingState, Locals
<1>2. ASSUME NEW to, NEW l, Goto(c, to, l), to # "write", at[c] \notin {"snap", "compare", "write"},
             UNCHANGED <<ToJSON, stats, checker, checkerSnap, clearer, clearerSnap>>,
             cs'.known = cs.known, saveSpoiled' = saveSpoiled, clearRaced' = clearRaced
      PROVE  CurrentInv'
  <2>1. at' = [at EXCEPT ![c] = to] /\ \A d \in Conn \ {c} : local'[d] = local[d]
    BY <1>1, <1>2 DEF Goto
  <2> QED
    BY <1>1, <1>2, <2>1, CurrentKept
<1>3. CASE \/ AddClient(c) \/ LoginRefused(c) \/ LoginStatus(c)
           \/ LoginUnfinished(c) \/ LoginAlone(c)
           \/ EventRefused(c) \/ EventAdmitted(c)
  <2>1. UNCHANGED <<cs, ToJSON, stats, checker, checkerSnap, clearer, clearerSnap, saveSpoiled, clearRaced>>
    BY <1>3, MovesSame DEF dbVars, otherVars, historyVars, ToJSON
  <2>2. PICK from \in Places, to \in Places :
          Move(c, from, to) /\ from \notin {"snap", "compare", "write"} /\ to # "write"
    BY <1>3 DEF AddClient, LoginRefused, LoginStatus, LoginUnfinished, LoginAlone,
                EventRefused, EventAdmitted, Places
  <2> QED
    BY <1>2, <2>1, <2>2 DEF Move
<1>4. CASE LoginName(c) \/ ReadError(c) \/ RemoveClient(c)
  <2>1. UNCHANGED <<cs, ToJSON, stats, checker, checkerSnap, clearer, clearerSnap, saveSpoiled, clearRaced>>
    BY <1>4 DEF LoginName, ReadError, RemoveClient, dbVars, otherVars, historyVars, ToJSON
  <2>2. /\ \/ Goto(c, "named", local[c]) \/ Goto(c, "leaving", NoLocals)
           \/ Goto(c, "closed", NoLocals)
        /\ at[c] \notin {"snap", "compare", "write"}
    BY <1>4 DEF LoginName, ReadError, RemoveClient
  <2> QED
    BY <1>2, <2>1, <2>2
<1>5. CASE LoginBind(c)
  <2>1. at'[c] = "snap"
    BY <1>1, <1>5 DEF LoginBind, Goto
  <2> QED
    BY <2>1, CurrentDue DEF SnapDue
<1>6. CASE EventInsert(c)
  <2>1. /\ at[c] = "insert" /\ Goto(c, "update", [local[c] EXCEPT !.before = cs.flags])
        /\ UNCHANGED <<stats, checker, checkerSnap, clearer, clearerSnap, saveSpoiled, clearRaced>>
    BY <1>6 DEF EventInsert, otherVars
  <2>2. ToJSON' = ToJSON /\ cs'.known = cs.known
    BY <1>1, <1>6 DEF EventInsert, CheatingState, ToJSON
  <2> QED
    BY <1>2, <2>1, <2>2
<1>7. CASE EventUpdate(c)
  <2>1. /\ at[c] = "update" /\ at' = [at EXCEPT ![c] = "compare"] /\ UNCHANGED local
        /\ UNCHANGED <<stats, checker, checkerSnap, clearer, clearerSnap, saveSpoiled, clearRaced>>
    BY <1>1, <1>7 DEF EventUpdate, Goto, dbVars, otherVars, historyVars
  <2>2. cs' = [cs EXCEPT !.fresh = TRUE] \/ cs' = cs \/ \E n \in 1..2 : cs' = [cs EXCEPT !.flags = @ + n]
    BY <1>7 DEF EventUpdate
  <2>3. CASE cs' = [cs EXCEPT !.fresh = TRUE] \/ cs' = cs
    <3>1. ToJSON' = ToJSON /\ cs'.known = cs.known
      BY <1>1, <2>3 DEF CheatingState, ToJSON
    <3>2. Goto(c, "compare", local[c])
      BY <1>7 DEF EventUpdate
    <3> QED
      BY <1>2, <2>1, <3>1, <3>2
  <2>4. CASE \E n \in 1..2 : cs' = [cs EXCEPT !.flags = @ + n]
    <3>1. cs'.known = cs.known /\ cs'.flags > cs.flags /\ cs'.flags \in Nat
      BY <1>1, <2>4 DEF CheatingState
    <3>2. SUFFICES ASSUME cs.known, ~clearRaced
                   PROVE  SnapDue'
      BY <2>1, <3>1 DEF CurrentInv
    <3>3. local[c].before <= cs.flags
      BY <2>1, <3>2 DEF ToldInv, Flagging
    <3>4. at'[c] = "compare" /\ local'[c].before < cs'.flags
      BY <1>1, <2>1, <3>1, <3>3
    <3> QED
      BY <3>4 DEF SnapDue
  <2> QED
    BY <2>2, <2>3, <2>4
<1>8. CASE EventCompare(c)
  <2>1. /\ at[c] = "compare"
        /\ Goto(c, IF cs.flags > local[c].before THEN "snap" ELSE "read", [local[c] EXCEPT !.then = "tell"])
        /\ UNCHANGED <<cs, stats, checker, checkerSnap, clearer, clearerSnap, saveSpoiled, clearRaced>>
    BY <1>8 DEF EventCompare, dbVars, otherVars, historyVars
  <2>2. \A d \in Conn \ {c} : at'[d] = at[d] /\ local'[d] = local[d]
    BY <1>1, <2>1 DEF Goto
  <2>3. CASE cs.flags > local[c].before
    <3>1. at'[c] = "snap"
      BY <1>1, <2>1, <2>3 DEF Goto
    <3> QED
      BY <3>1, CurrentDue DEF SnapDue
  <2>4. CASE ~(cs.flags > local[c].before)
    <3>1. at'[c] = "read" /\ ~(local[c].before < cs.flags)
      BY <1>1, <2>1, <2>4 DEF Goto
    <3>2. ToJSON' = ToJSON
      BY <2>1 DEF ToJSON
    <3> QED
      BY <2>1, <2>2, <3>1, <3>2, CurrentKept
  <2> QED
    BY <2>3, <2>4
<1>9. CASE Snap(c)
  <2>1. /\ at[c] = "snap" /\ at' = [at EXCEPT ![c] = "write"]
        /\ local' = [local EXCEPT ![c] = [local[c] EXCEPT !.snap = ToJSON]]
        /\ saveSpoiled' = (saveSpoiled \/ InFlight)
        /\ UNCHANGED <<cs, stats, checker, checkerSnap, clearer, clearerSnap>>
    BY <1>9 DEF Snap, Goto, dbVars, otherVars
  <2>2. SUFFICES ASSUME ~InFlight
                 PROVE  WritesCurrent'
    BY <2>1 DEF CurrentInv
  <2>3. ToJSON' = ToJSON /\ local'[c].snap = ToJSON /\ at'[c] = "write"
    BY <1>1, <2>1 DEF ToJSON, Locals
  <2>4. \A d \in Conn : at'[d] = "write" => d = c
    BY <1>1, <2>1, <2>2 DEF InFlight
  <2>5. checker # "write" /\ clearer \notin {"write", "reset"}
    BY <2>2 DEF InFlight
  <2> QED
    BY <2>1, <2>3, <2>4, <2>5 DEF WritesCurrent, InFlight
<1>10. CASE Write(c)
  <2>1. /\ at[c] = "write" /\ Store(local[c].snap)
        /\ UNCHANGED <<cs, checker, checkerSnap, clearer, clearerSnap, clearRaced>>
    BY <1>10 DEF Write, otherVars
  <2>2. PICK to, l : Goto(c, to, l) /\ to # "write"
    <3>1. local[c].then \in {"dispatch", "read", "tell"}
      BY <1>1 DEF Locals
    <3>2. \/ Goto(c, "read", NoLocals) \/ Goto(c, "leaving", NoLocals)
          \/ /\ local[c].then # "tell"
             /\ Goto(c, local[c].then, [NoLocals EXCEPT !.req = local[c].req])
      BY <1>10 DEF Write, NotifyFlags
    <3> QED
      BY <3>1, <3>2
  <2>3. at' = [at EXCEPT ![c] = to] /\ \A d \in Conn \ {c} : local'[d] = local[d]
    BY <1>1, <2>2 DEF Goto
  <2>4. SUFFICES ASSUME cs.known, ~saveSpoiled', ~clearRaced
                 PROVE  SnapDue' \/ WritesCurrent'
    BY <2>1 DEF CurrentInv
  <2>5. ~saveSpoiled /\ stats' = local[c].snap
    BY <2>1, <2>4 DEF Store
  <2>6. ToJSON' = ToJSON
    BY <2>1 DEF ToJSON
  <2>7. SnapDue => SnapDue'
    BY <1>1, <2>1, <2>3 DEF SnapDue
  <2>8. WritesCurrent => WritesCurrent'
    BY <1>1, <2>1, <2>2, <2>3, <2>5, <2>6 DEF WritesCurrent, InFlight
  <2> QED
    BY <2>4, <2>5, <2>7, <2>8 DEF CurrentInv
<1>11. CASE \E kind \in Kinds : Receive(c, kind)
  <2>1. PICK kind \in Kinds : Receive(c, kind)
    BY <1>11
  <2>2. /\ at[c] = "read"
        /\ UNCHANGED <<stats, checker, checkerSnap, clearer, clearerSnap, saveSpoiled, clearRaced>>
    BY <2>1 DEF Receive, dbVars, otherVars
  <2>3. CASE Goto(c, "dispatch", [NoLocals EXCEPT !.req = kind]) /\ UNCHANGED cs
    <3>1. ToJSON' = ToJSON
      BY <2>3 DEF ToJSON
    <3> QED
      BY <1>2, <2>2, <2>3, <3>1
  <2>4. CASE Goto(c, "snap", [NoLocals EXCEPT !.req = kind, !.then = "dispatch"])
    <3>1. at'[c] = "snap"
      BY <1>1, <2>4 DEF Goto
    <3> QED
      BY <3>1, CurrentDue DEF SnapDue
  <2> QED
    BY <2>1, <2>3, <2>4 DEF Receive
<1> QED
  BY <1>3, <1>4, <1>5, <1>6, <1>7, <1>8, <1>9, <1>10, <1>11 DEF Serve, Peer

LEMMA CurrentElsewhere ==
  ASSUME TypeOK, TypeOK', CurrentInv,
         GoStale \/ Checker \/ Teacher \/ ClearSave \/ Expiry \/ NotifyEnd \/ Restart
  PROVE  CurrentInv'
<1>1. cs \in CheatingState /\ cs.flags \in Nat /\ cs.era \in Nat
  BY DEF TypeOK, CheatingState
<1>2. CASE \/ GoStale \/ Expiry \/ NotifyEnd
           \/ \E s \in {"pending", "running", "finished"} : UpdateRunStatus(s)
  <2>1. UNCHANGED <<at, local, stats, checker, checkerSnap, clearer, clearerSnap, saveSpoiled, clearRaced>>
    BY <1>2 DEF GoStale, Expiry, ExpiryQuery, ExpiryClose, NotifyEnd,
                UpdateRunStatus, dbVars, goVars, otherVars, historyVars
  <2>2. ToJSON' = ToJSON /\ cs'.known = cs.known
    BY <1>1, <1>2 DEF GoStale, Expiry, ExpiryQuery, ExpiryClose,
                      NotifyEnd, notifyRunEnded, UpdateRunStatus, CheatingState, ToJSON
  <2> QED
    BY <2>1, <2>2, CurrentKept
<1>3. CASE CheckerFlag
  BY <1>3, CurrentDue DEF CheckerFlag, SnapDue
<1>4. CASE CheckerSave /\ checker = "snap"
  <2>1. /\ checker' = "write" /\ checkerSnap' = ToJSON
        /\ saveSpoiled' = (saveSpoiled \/ InFlight)
        /\ UNCHANGED <<at, local, cs, stats, clearer, clearerSnap>>
    BY <1>4 DEF CheckerSave, goVars
  <2>2. SUFFICES ASSUME ~InFlight
                 PROVE  WritesCurrent'
    BY <2>1 DEF CurrentInv
  <2> QED
    BY <2>1, <2>2 DEF WritesCurrent, InFlight, ToJSON
<1>5. CASE CheckerSave /\ checker = "write"
  <2>1. /\ checker' = "idle" /\ Store(checkerSnap)
        /\ UNCHANGED <<at, local, cs, clearer, clearerSnap, clearRaced>>
    BY <1>5 DEF CheckerSave, goVars
  <2>2. SUFFICES ASSUME cs.known, ~saveSpoiled', ~clearRaced
                 PROVE  SnapDue' \/ WritesCurrent'
    BY <2>1 DEF CurrentInv
  <2>3. ~saveSpoiled /\ stats' = checkerSnap /\ ToJSON' = ToJSON
    BY <2>1, <2>2 DEF Store, ToJSON
  <2>4. SnapDue => SnapDue'
    BY <1>5, <2>1 DEF SnapDue
  <2>5. WritesCurrent => WritesCurrent'
    BY <1>5, <2>1, <2>3 DEF WritesCurrent, InFlight
  <2> QED
    BY <2>2, <2>3, <2>4, <2>5 DEF CurrentInv
<1>6. CASE ClearFlags /\ cs.known
  BY <1>6, CurrentDue DEF ClearFlags, SnapDue
<1>7. CASE ClearFlags /\ ~cs.known
  BY <1>7 DEF ClearFlags, CurrentInv
<1>8. CASE ClearSave /\ clearer = "snap"
  <2>1. /\ clearer' = "write" /\ clearerSnap' = ToJSON
        /\ saveSpoiled' = (saveSpoiled \/ InFlight)
        /\ UNCHANGED <<at, local, cs, stats, checker, checkerSnap>>
    BY <1>8 DEF ClearSave, goVars
  <2>2. SUFFICES ASSUME ~InFlight
                 PROVE  WritesCurrent'
    BY <2>1 DEF CurrentInv
  <2> QED
    BY <2>1, <2>2 DEF WritesCurrent, InFlight, ToJSON
<1>9. CASE ClearSave /\ clearer \in {"write", "reset"}
  <2>1. /\ clearer' = "idle" /\ Store(clearerSnap)
        /\ UNCHANGED <<at, local, cs, checker, checkerSnap, clearRaced>>
    BY <1>9 DEF ClearSave, goVars
  <2>2. SUFFICES ASSUME cs.known, ~saveSpoiled', ~clearRaced
                 PROVE  SnapDue' \/ WritesCurrent'
    BY <2>1 DEF CurrentInv
  <2>3. ~saveSpoiled /\ stats' = clearerSnap /\ ToJSON' = ToJSON
    BY <2>1, <2>2 DEF Store, ToJSON
  <2>4. SnapDue => SnapDue'
    BY <1>9, <2>1 DEF SnapDue
  <2>5. WritesCurrent => WritesCurrent'
    BY <1>9, <2>1, <2>3 DEF WritesCurrent, InFlight
  <2> QED
    BY <2>2, <2>3, <2>4, <2>5 DEF CurrentInv
<1>10. CASE Restart
  BY <1>1, <1>10 DEF Restart, CheatingState, CurrentInv
<1> QED
  BY <1>2, <1>3, <1>4, <1>5, <1>6, <1>7, <1>8, <1>9, <1>10 DEF Checker, CheckerSave, Teacher, ClearSave

LEMMA CurrentStep ==
  TypeOK /\ TypeOK' /\ QuietInv /\ ToldInv /\ CurrentInv /\ [Next]_vars => CurrentInv'
<1> SUFFICES ASSUME TypeOK, TypeOK', QuietInv, ToldInv, CurrentInv, [Next]_vars
             PROVE  CurrentInv'
  OBVIOUS
<1>1. CASE UNCHANGED vars
  BY <1>1, CurrentKept DEF vars, dbVars, goVars, otherVars, historyVars, ToJSON
<1> QED
  BY <1>1, CurrentServe, CurrentElsewhere DEF Next

\* What the teachers' pages load is what the backend holds: however the saves of frames,
\* of the heartbeat checker and of clears follow each other, once nobody is still to save
\* the database has the flags in memory, unless two saves overlapped, one failed, or a
\* clear ran inside a frame that flags.
THEOREM StatsAreCurrent == Spec => []StatsCurrent
<1>1. Init => ToldInv /\ NoticeInv /\ CurrentInv
  BY DEF Init, ToldInv, NoticeInv, CurrentInv
<1>2. TypeOK /\ CurrentInv => StatsCurrent
  <2> SUFFICES ASSUME TypeOK, CurrentInv, cs.known, ~saveSpoiled, ~clearRaced, ~Saving
               PROVE  stats = ToJSON
    BY DEF StatsCurrent
  <2>1. ~SnapDue /\ ~InFlight
    BY DEF TypeOK, Saving, SnapDue, InFlight
  <2> QED
    BY <2>1 DEF CurrentInv, WritesCurrent
<1> QED
  BY <1>1, <1>2, CurrentStep, ToldStep, NoticeStep, QuietInit, QuietStep, TypeInit, TypeStep, PTL DEF Spec
=============================================================================
