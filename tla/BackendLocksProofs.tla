------------------------- MODULE BackendLocksProofs -------------------------
(***************************************************************************)
(* Proofs about BackendLocks, for any number of sessions, students and     *)
(* goroutines: no circle of waits, no lock left behind, no write after     *)
(* close.                                                                  *)
(*                                                                         *)
(* What a goroutine holds is read off what it has still to do: its todo is *)
(* a path from what it holds now to holding nothing, each instruction of   *)
(* which is one it may execute with what it holds by then.  Paths compose, *)
(* so each script of the code is dealt with once.                          *)
(***************************************************************************)
EXTENDS BackendLocks, SequenceTheorems, TLAPS

\* A lock is outer or inner; who waits for an outer one holds none, and who holds an inner
\* one waits for none.
Outer == {ClientsMu, CheatingMu}
NoLock == <<"none">>

\* What a goroutine holds: a lock it reads under, one it has for itself, the clients that
\* the loop it is in may still visit, and how far the life of its own connection is.
HeldStates ==
    [reads : Outer \cup {NoLock}, writes : Locks \cup {NoLock},
     scope : SUBSET Sessions, life : {"out", "in", "closed"}]

\* Goroutine g may execute x holding h, and holds k then.  A loop and the search for other
\* sessions count as executed when the script they stand for is.
StepOK(g, x, h, k) ==
    \/ /\ x.do = "rlock" /\ x.on \in Outer
       /\ h.reads = NoLock /\ h.writes = NoLock
       /\ k = [h EXCEPT !.reads = x.on]
    \/ /\ x.do = "runlock" /\ x.on \in Outer
       /\ h.reads = x.on /\ h.writes = NoLock /\ h.scope = {}
       /\ k = [h EXCEPT !.reads = NoLock]
    \/ /\ x.do = "lock" /\ x.on \in Locks
       /\ h.writes = NoLock /\ (x.on \in Outer => h.reads = NoLock)
       /\ k = [h EXCEPT !.writes = x.on]
    \/ /\ x.do = "unlock" /\ x.on \in Locks
       /\ h.writes = x.on
       /\ k = [h EXCEPT !.writes = NoLock]
    \/ /\ x.do = "write" /\ h.writes = SendMu(x.on)
       /\ (x.on = g /\ h.life # "closed") \/ x.on \in h.scope
       /\ k = h
    \/ /\ x.do = "range"
       /\ h.reads = ClientsMu /\ h.writes = NoLock /\ h.scope = {}
       /\ k = h
    \/ /\ x.do \in {"teachers", "run"} /\ x.on \subseteq h.scope
       /\ h.reads = ClientsMu /\ h.writes = NoLock
       /\ k = [h EXCEPT !.scope = {}]
    \/ /\ x.do = "find" /\ g \in Sessions \ Teachers
       /\ h.reads = ClientsMu /\ h.writes = NoLock /\ h.scope = {} /\ h.life = "in"
       /\ k = [h EXCEPT !.reads = NoLock]
    \/ x.do = "login" /\ g \in Sessions /\ k = h
    \/ /\ x.do = "add" /\ g \in Sessions /\ h.writes = ClientsMu /\ h.life = "out"
       /\ k = [h EXCEPT !.life = "in"]
    \/ /\ x.do = "remove" /\ g \in Sessions /\ h.writes = ClientsMu /\ h.life = "in"
       /\ k = [h EXCEPT !.life = "out"]
    \/ /\ x.do = "close" /\ g \in Sessions /\ h.life = "out"
       /\ k = [h EXCEPT !.life = "closed"]

Path(g, h, s, k) ==
    /\ s \in Seq(Instructions)
    /\ \E a \in [0 .. Len(s) -> HeldStates] :
        /\ a[0] = h /\ a[Len(s)] = k
        /\ \A i \in 1 .. Len(s) : StepOK(g, s[i], a[i - 1], a[i])

\* With nothing left to do, nothing is held.
Nothing(h) == h.reads = NoLock /\ h.writes = NoLock /\ h.scope = {}
End(h) == Nothing(h) /\ h.life # "out"

Runs(g, h, s) == \E k \in HeldStates : Path(g, h, s, k) /\ End(k)

-----------------------------------------------------------------------------
(* Paths.                                                                  *)

LEMMA LocksApart ==
    /\ ClientsMu # CheatingMu /\ ClientsMu \in Locks /\ CheatingMu \in Locks
    /\ \A c \in Sessions : SendMu(c) \in Locks /\ SendMu(c) \notin Outer
    /\ \A p \in People : StateMu(p) \in Locks /\ StateMu(p) \notin Outer
    /\ NoLock \notin Locks
<1>1. ClientsMu # CheatingMu /\ ClientsMu \in Locks /\ CheatingMu \in Locks
  BY DEF ClientsMu, CheatingMu, Locks
<1>2. ASSUME NEW c \in Sessions
      PROVE  SendMu(c) \in Locks /\ SendMu(c) \notin Outer
  BY DEF SendMu, Locks, Outer, ClientsMu, CheatingMu
<1>3. ASSUME NEW p \in People
      PROVE  StateMu(p) \in Locks /\ StateMu(p) \notin Outer
  BY DEF StateMu, Locks, Outer, ClientsMu, CheatingMu
<1>4. NoLock \notin Locks
  BY DEF NoLock, Locks, SendMu, StateMu, ClientsMu, CheatingMu
<1> QED
  BY <1>1, <1>2, <1>3, <1>4

LEMMA PathEmpty ==
  ASSUME NEW g, NEW h \in HeldStates
  PROVE  Path(g, h, <<>>, h)
<1>1. <<>> \in Seq(Instructions) /\ Len(<<>>) = 0
  BY EmptySeq
<1> DEFINE a == [i \in 0 .. 0 |-> h]
<1>2. a \in [0 .. 0 -> HeldStates] /\ a[0] = h
  OBVIOUS
<1> HIDE DEF a
<1>3. \A i \in 1 .. 0 : StepOK(g, <<>>[i], a[i - 1], a[i])
  OBVIOUS
<1> QED
  BY <1>1, <1>2, <1>3 DEF Path

LEMMA PathNil ==
  ASSUME NEW g, NEW h, NEW k, Path(g, h, <<>>, k)
  PROVE  h = k
  BY EmptySeq DEF Path

LEMMA PathOne ==
  ASSUME NEW g, NEW x \in Instructions, NEW h \in HeldStates, NEW k \in HeldStates,
         StepOK(g, x, h, k)
  PROVE  Path(g, h, <<x>>, k)
<1>1. <<x>> \in Seq(Instructions) /\ Len(<<x>>) = 1 /\ <<x>>[1] = x
  OBVIOUS
<1> DEFINE a == [i \in 0 .. 1 |-> IF i = 0 THEN h ELSE k]
<1>2. a \in [0 .. 1 -> HeldStates] /\ a[0] = h /\ a[1] = k
  OBVIOUS
<1> HIDE DEF a
<1>3. \A i \in 1 .. Len(<<x>>) : StepOK(g, <<x>>[i], a[i - 1], a[i])
  <2> SUFFICES ASSUME NEW i \in 1 .. 1
               PROVE  StepOK(g, <<x>>[i], a[i - 1], a[i])
    BY <1>1
  <2>1. i = 1 /\ i - 1 = 0
    OBVIOUS
  <2> QED
    BY <1>1, <1>2, <2>1
<1> QED
  BY <1>1, <1>2, <1>3 DEF Path

LEMMA PathConcat ==
  ASSUME NEW g, NEW h, NEW j, NEW k, NEW s, NEW t, Path(g, h, s, j), Path(g, j, t, k)
  PROVE  Path(g, h, s \o t, k)
<1>1. s \in Seq(Instructions) /\ t \in Seq(Instructions)
  BY DEF Path
<1>2. /\ s \o t \in Seq(Instructions) /\ Len(s) \in Nat /\ Len(t) \in Nat
      /\ Len(s \o t) = Len(s) + Len(t)
      /\ \A i \in 1 .. Len(s) + Len(t) : (s \o t)[i] = IF i <= Len(s) THEN s[i] ELSE t[i - Len(s)]
  BY <1>1, ConcatProperties, LenProperties
<1>3. PICK a \in [0 .. Len(s) -> HeldStates] :
        /\ a[0] = h /\ a[Len(s)] = j
        /\ \A i \in 1 .. Len(s) : StepOK(g, s[i], a[i - 1], a[i])
  BY DEF Path
<1>4. PICK b \in [0 .. Len(t) -> HeldStates] :
        /\ b[0] = j /\ b[Len(t)] = k
        /\ \A i \in 1 .. Len(t) : StepOK(g, t[i], b[i - 1], b[i])
  BY DEF Path
<1> DEFINE n == Len(s)
           m == Len(t)
           e == [i \in 0 .. n + m |-> IF i <= n THEN a[i] ELSE b[i - n]]
<1>5. n \in Nat /\ m \in Nat
  BY <1>2
<1>6. /\ \A i \in 0 .. n : e[i] = a[i]
      /\ \A i \in n .. n + m : e[i] = b[i - n]
  BY <1>3, <1>4, <1>5
<1>7. e \in [0 .. n + m -> HeldStates]
  BY <1>3, <1>4, <1>5
<1> HIDE DEF e
<1>8. e[0] = h /\ e[n + m] = k
  <2>1. (n + m) - n = m
    BY <1>5
  <2> QED
    BY <1>3, <1>4, <1>5, <1>6, <2>1
<1>9. ASSUME NEW i \in 1 .. n + m
      PROVE  StepOK(g, (s \o t)[i], e[i - 1], e[i])
  <2>1. CASE i <= n
    <3>1. e[i - 1] = a[i - 1] /\ e[i] = a[i] /\ (s \o t)[i] = s[i]
      BY <1>2, <1>5, <1>6, <2>1
    <3> QED
      BY <1>3, <1>5, <2>1, <3>1
  <2>2. CASE ~(i <= n)
    <3>1. i - n \in 1 .. m /\ (i - 1) - n = (i - n) - 1
      BY <1>5, <2>2
    <3>2. (s \o t)[i] = t[i - n]
      BY <1>2, <1>5, <2>2
    <3>3. i - 1 \in n .. n + m /\ i \in n .. n + m
      BY <1>5, <2>2
    <3>4. e[i - 1] = b[(i - n) - 1] /\ e[i] = b[i - n]
      BY <1>6, <3>1, <3>3
    <3> QED
      BY <1>4, <3>1, <3>2, <3>4
  <2> QED
    BY <2>1, <2>2
<1> QED
  BY <1>2, <1>7, <1>8, <1>9 DEF Path

LEMMA PathStep ==
  ASSUME NEW g, NEW h, NEW s, NEW k, Path(g, h, s, k), s # <<>>
  PROVE  /\ Head(s) \in Instructions /\ Tail(s) \in Seq(Instructions)
         /\ \E j \in HeldStates : StepOK(g, Head(s), h, j) /\ Path(g, j, Tail(s), k)
<1>1. s \in Seq(Instructions)
  BY DEF Path
<1>2. /\ Head(s) \in Instructions /\ Tail(s) \in Seq(Instructions) /\ Head(s) = s[1]
      /\ Len(Tail(s)) = Len(s) - 1 /\ Len(s) \in Nat \ {0}
      /\ \A i \in 1 .. Len(Tail(s)) : Tail(s)[i] = s[i + 1]
  BY <1>1, HeadTailProperties, EmptySeq
<1>3. PICK a \in [0 .. Len(s) -> HeldStates] :
        /\ a[0] = h /\ a[Len(s)] = k
        /\ \A i \in 1 .. Len(s) : StepOK(g, s[i], a[i - 1], a[i])
  BY DEF Path
<1> DEFINE n == Len(s) - 1
           b == [i \in 0 .. n |-> a[i + 1]]
<1>4. n \in Nat /\ n + 1 = Len(s)
  BY <1>2
<1>5. b \in [0 .. n -> HeldStates] /\ b[0] = a[1] /\ b[n] = a[Len(s)]
  BY <1>3, <1>4
<1>6. ASSUME NEW i \in 1 .. n
      PROVE  StepOK(g, Tail(s)[i], b[i - 1], b[i])
  <2>1. b[i - 1] = a[(i + 1) - 1] /\ b[i] = a[i + 1] /\ i + 1 \in 1 .. Len(s)
    BY <1>4
  <2> QED
    BY <1>2, <1>3, <2>1
<1> HIDE DEF b
<1>7. a[1] \in HeldStates /\ StepOK(g, Head(s), h, a[1])
  <2>1. 1 \in 1 .. Len(s) /\ 1 - 1 = 0
    BY <1>2
  <2>2. StepOK(g, s[1], a[1 - 1], a[1])
    BY <1>3, <2>1
  <2> QED
    BY <1>2, <1>3, <2>1, <2>2
<1>8. Path(g, a[1], Tail(s), k)
  BY <1>2, <1>3, <1>5, <1>6 DEF Path
<1> QED
  BY <1>2, <1>7, <1>8

-----------------------------------------------------------------------------
(* The scripts of the code as paths.                                       *)

LEMMA InstructionPath ==
  ASSUME NEW g, NEW do, NEW on, [do |-> do, on |-> on] \in Instructions,
         NEW h \in HeldStates, NEW k \in HeldStates,
         StepOK(g, [do |-> do, on |-> on], h, k)
  PROVE  Path(g, h, Instruction(do, on), k)
  BY PathOne DEF Instruction

LEMMA LockPath ==
  ASSUME NEW g, NEW l \in Locks, NEW h \in HeldStates,
         h.writes = NoLock, l \in Outer => h.reads = NoLock
  PROVE  LET k == [h EXCEPT !.writes = l]
         IN  k \in HeldStates /\ Path(g, h, Lock(l), k) /\ Path(g, k, Unlock(l), h)
<1> DEFINE k == [h EXCEPT !.writes = l]
<1>1. k \in HeldStates /\ k.writes = l
  BY DEF HeldStates
<1>2. h = [k EXCEPT !.writes = NoLock]
  BY DEF HeldStates
<1>3. /\ [do |-> "lock", on |-> l] \in Instructions
      /\ [do |-> "unlock", on |-> l] \in Instructions
  BY DEF Instructions
<1>4. StepOK(g, [do |-> "lock", on |-> l], h, k)
  BY DEF StepOK
<1> HIDE DEF k
<1>5. StepOK(g, [do |-> "unlock", on |-> l], k, h)
  BY <1>1, <1>2 DEF StepOK
<1> QED
  BY <1>1, <1>3, <1>4, <1>5, InstructionPath DEF Lock, Unlock, k

LEMMA RLockPath ==
  ASSUME NEW g, NEW l \in Outer, NEW h \in HeldStates, Nothing(h)
  PROVE  LET k == [h EXCEPT !.reads = l]
         IN  k \in HeldStates /\ Path(g, h, RLock(l), k) /\ Path(g, k, RUnlock(l), h)
<1> DEFINE k == [h EXCEPT !.reads = l]
<1>1. k \in HeldStates /\ k.reads = l /\ k.writes = NoLock /\ k.scope = {}
  BY DEF HeldStates, Nothing
<1>2. h = [k EXCEPT !.reads = NoLock]
  BY DEF HeldStates, Nothing
<1>3. /\ [do |-> "rlock", on |-> l] \in Instructions
      /\ [do |-> "runlock", on |-> l] \in Instructions
  BY LocksApart DEF Instructions, Outer
<1>4. StepOK(g, [do |-> "rlock", on |-> l], h, k)
  BY DEF StepOK, Nothing
<1> HIDE DEF k
<1>5. StepOK(g, [do |-> "runlock", on |-> l], k, h)
  BY <1>1, <1>2 DEF StepOK
<1> QED
  BY <1>1, <1>3, <1>4, <1>5, InstructionPath DEF RLock, RUnlock, k

LEMMA SectionPath ==
  ASSUME NEW g, NEW l \in Locks, NEW h \in HeldStates,
         h.writes = NoLock, l \in Outer => h.reads = NoLock
  PROVE  Path(g, h, Section(l), h)
  BY LockPath, PathConcat DEF Section

LEMMA SendToPath ==
  ASSUME NEW g, NEW c \in Sessions, NEW h \in HeldStates, h.writes = NoLock,
         (c = g /\ h.life # "closed") \/ c \in h.scope
  PROVE  Path(g, h, SendTo(c), h)
<1> DEFINE k == [h EXCEPT !.writes = SendMu(c)]
<1>1. SendMu(c) \in Locks /\ SendMu(c) \notin Outer
  BY LocksApart
<1>2. k \in HeldStates /\ Path(g, h, Lock(SendMu(c)), k) /\ Path(g, k, Unlock(SendMu(c)), h)
  BY <1>1, LockPath
<1>3. k.writes = SendMu(c) /\ k.life = h.life /\ k.scope = h.scope
  BY DEF HeldStates
<1>4. [do |-> "write", on |-> c] \in Instructions
  BY DEF Instructions
<1> HIDE DEF k
<1>5. StepOK(g, [do |-> "write", on |-> c], k, k)
  BY <1>3 DEF StepOK
<1>6. Path(g, k, Instruction("write", c), k)
  BY <1>2, <1>4, <1>5, InstructionPath
<1> QED
  BY <1>2, <1>6, PathConcat DEF SendTo

LEMMA RangePath ==
  ASSUME NEW g, NEW whom \in {"teachers", "run"}, NEW h \in HeldStates, Nothing(h)
  PROVE  Path(g, h, RLock(ClientsMu) \o Instruction("range", whom) \o RUnlock(ClientsMu), h)
<1> DEFINE k == [h EXCEPT !.reads = ClientsMu]
<1>1. ClientsMu \in Outer
  BY DEF Outer
<1>2. k \in HeldStates /\ Path(g, h, RLock(ClientsMu), k) /\ Path(g, k, RUnlock(ClientsMu), h)
  BY <1>1, RLockPath
<1>3. k.reads = ClientsMu /\ k.writes = NoLock /\ k.scope = {}
  BY <1>1 DEF HeldStates, Nothing
<1>4. [do |-> "range", on |-> whom] \in Instructions
  BY DEF Instructions
<1> HIDE DEF k
<1>5. StepOK(g, [do |-> "range", on |-> whom], k, k)
  BY <1>3 DEF StepOK
<1>6. Path(g, k, Instruction("range", whom), k)
  BY <1>2, <1>4, <1>5, InstructionPath
<1> QED
  BY <1>2, <1>6, PathConcat

LEMMA NoticePaths ==
  ASSUME NEW g, NEW h \in HeldStates, Nothing(h)
  PROVE  /\ Path(g, h, NotifyTeachers, h)
         /\ Path(g, h, NotifyRunEnded, h)
         /\ \A p \in People : Path(g, h, NotifyTeachersFlag(p), h)
         /\ Path(g, h, RLock(CheatingMu) \o RUnlock(CheatingMu), h)
<1>1. Path(g, h, NotifyTeachers, h)
  BY RangePath DEF NotifyTeachers
<1>2. Path(g, h, NotifyRunEnded, h)
  BY RangePath DEF NotifyRunEnded
<1> DEFINE k == [h EXCEPT !.reads = CheatingMu]
<1>3. k \in HeldStates /\ Path(g, h, RLock(CheatingMu), k) /\ Path(g, k, RUnlock(CheatingMu), h)
  BY RLockPath DEF Outer
<1>4. k.writes = NoLock
  BY DEF HeldStates, Nothing
<1> HIDE DEF k
<1>5. ASSUME NEW p \in People
      PROVE  Path(g, h, NotifyTeachersFlag(p), h)
  <2>1. Path(g, k, Section(StateMu(p)), k)
    BY <1>3, <1>4, LocksApart, SectionPath
  <2>2. Path(g, h, RLock(CheatingMu) \o Section(StateMu(p)), k)
    BY <1>3, <2>1, PathConcat
  <2>3. Path(g, h, RLock(CheatingMu) \o Section(StateMu(p)) \o RUnlock(CheatingMu), h)
    BY <1>3, <2>2, PathConcat
  <2> QED
    BY <1>1, <2>3, PathConcat DEF NotifyTeachersFlag
<1>6. Path(g, h, RLock(CheatingMu) \o RUnlock(CheatingMu), h)
  BY <1>3, PathConcat
<1> QED
  BY <1>1, <1>2, <1>5, <1>6

LEMMA StudentPerson ==
  ASSUME NEW c \in Sessions, c \notin Teachers
  PROVE  /\ Person[c] \in People /\ StateMu(Person[c]) \in Locks
         /\ StateMu(Person[c]) \notin Outer
  BY SessionsAssumption, LocksApart

LEMMA VisitPath ==
  ASSUME NEW g, NEW h \in HeldStates, NEW c \in Sessions, NEW whom,
         c \in h.scope, h.writes = NoLock
  PROVE  Path(g, h, Visit(c, whom), h)
<1>1. Path(g, h, <<>>, h)
  BY PathEmpty
<1>2. Path(g, h, SendTo(c), h)
  BY SendToPath
<1> DEFINE after == IF whom = "run" /\ c \notin Teachers THEN Section(StateMu(Person[c])) ELSE <<>>
<1>3. Path(g, h, after, h)
  BY <1>1, StudentPerson, SectionPath
<1>4. Path(g, h, SendTo(c) \o after, h)
  BY <1>2, <1>3, PathConcat
<1> QED
  BY <1>1, <1>4 DEF Visit

LEMMA FoundPaths ==
  ASSUME NEW c \in Sessions \ Teachers, NEW h \in HeldStates,
         h.reads = ClientsMu, h.writes = NoLock, h.scope = {}, h.life = "in"
  PROVE  LET k == [h EXCEPT !.reads = NoLock]
         IN  /\ k \in HeldStates
             /\ Path(c, h, Refused(c), k)
             /\ Path(c, h, Accepted(c), k)
<1> DEFINE k == [h EXCEPT !.reads = NoLock]
           s == Section(StateMu(Person[c]))
<1>1. k \in HeldStates /\ Nothing(k) /\ k.life = "in"
  BY DEF HeldStates, Nothing
<1>2. h = [k EXCEPT !.reads = ClientsMu]
  BY DEF HeldStates
<1> HIDE DEF k
<1>3. Path(c, h, RUnlock(ClientsMu), k)
  BY <1>1, <1>2, RLockPath DEF Outer
<1>4. Path(c, k, SendTo(c), k)
  BY <1>1, SendToPath DEF Nothing
<1>5. Path(c, h, Refused(c), k)
  BY <1>3, <1>4, PathConcat DEF Refused
<1>6. Path(c, k, Instruction("login", c), k)
  <2>1. [do |-> "login", on |-> c] \in Instructions
    BY DEF Instructions
  <2>2. StepOK(c, [do |-> "login", on |-> c], k, k)
    BY DEF StepOK
  <2> QED
    BY <1>1, <2>1, <2>2, InstructionPath
<1>7. Path(c, k, Section(CheatingMu), k) /\ Path(c, k, s, k)
  BY <1>1, LocksApart, StudentPerson, SectionPath DEF Nothing
<1>8. Path(c, k, NotifyTeachers, k)
  BY <1>1, NoticePaths
<1> HIDE DEF s
<1>9. Path(c, h, Accepted(c), k)
  <2>1. Path(c, h, RUnlock(ClientsMu) \o Instruction("login", c), k)
    BY <1>3, <1>6, PathConcat
  <2>2. Path(c, h, RUnlock(ClientsMu) \o Instruction("login", c) \o Section(CheatingMu), k)
    BY <1>7, <2>1, PathConcat
  <2>3. Path(c, h, RUnlock(ClientsMu) \o Instruction("login", c) \o Section(CheatingMu) \o s, k)
    BY <1>7, <2>2, PathConcat
  <2>4. Path(c, h, RUnlock(ClientsMu) \o Instruction("login", c) \o Section(CheatingMu) \o s
                    \o NotifyTeachers, k)
    BY <1>8, <2>3, PathConcat
  <2>5. Path(c, h, RUnlock(ClientsMu) \o Instruction("login", c) \o Section(CheatingMu) \o s
                    \o NotifyTeachers \o SendTo(c), k)
    BY <1>4, <2>4, PathConcat
  <2> DEFINE start == IF c \in loggedIn THEN <<>> ELSE s
  <2>6. Path(c, k, start, k)
    BY <1>1, <1>7, PathEmpty
  <2> HIDE DEF start
  <2>7. Path(c, h, RUnlock(ClientsMu) \o Instruction("login", c) \o Section(CheatingMu) \o s
                    \o NotifyTeachers \o SendTo(c) \o start, k)
    BY <2>5, <2>6, PathConcat
  <2> QED
    BY <2>7 DEF Accepted, s, start
<1> QED
  BY <1>1, <1>5, <1>9 DEF k

LEMMA FindOthersPath ==
  ASSUME NEW c \in Sessions \ Teachers, NEW h \in HeldStates, Nothing(h), h.life = "in"
  PROVE  Path(c, h, FindOthers(c), h)
<1> DEFINE k == [h EXCEPT !.reads = ClientsMu]
<1>1. k \in HeldStates /\ Path(c, h, RLock(ClientsMu), k)
  BY RLockPath DEF Outer
<1>2. /\ k.reads = ClientsMu /\ k.writes = NoLock /\ k.scope = {} /\ k.life = "in"
      /\ h = [k EXCEPT !.reads = NoLock]
  BY DEF HeldStates, Nothing
<1> HIDE DEF k
<1>3. [do |-> "find", on |-> c] \in Instructions
  BY DEF Instructions
<1>4. StepOK(c, [do |-> "find", on |-> c], k, h)
  BY <1>2 DEF StepOK
<1>5. Path(c, k, Instruction("find", c), h)
  BY <1>1, <1>3, <1>4, InstructionPath
<1> QED
  BY <1>1, <1>5, PathConcat DEF FindOthers

LEMMA FramePath ==
  ASSUME NEW c \in Sessions \ Teachers, NEW h \in HeldStates, Nothing(h), h.life = "in",
         NEW script \in Frames(c)
  PROVE  Path(c, h, script, h)
<1> DEFINE check == Section(StateMu(Person[c]))
           flag == check \o NotifyTeachersFlag(Person[c])
           event == check \o NotifyTeachers \o SendTo(c)
<1>1. script \in {check \o SendTo(c), event, flag \o SendTo(c), flag \o event, flag \o flag \o event,
                  check \o FindOthers(c)}
  BY DEF Frames
<1>2. Path(c, h, check, h)
  BY StudentPerson, SectionPath DEF Nothing
<1>3. Path(c, h, SendTo(c), h) /\ Path(c, h, NotifyTeachers, h) /\ Path(c, h, FindOthers(c), h)
  BY SendToPath, NoticePaths, FindOthersPath DEF Nothing
<1>4. Path(c, h, NotifyTeachersFlag(Person[c]), h)
  BY StudentPerson, NoticePaths
<1> HIDE DEF check
<1>5. Path(c, h, flag, h)
  BY <1>2, <1>4, PathConcat
<1>6. Path(c, h, check \o NotifyTeachers, h)
  BY <1>2, <1>3, PathConcat
<1>7. Path(c, h, event, h)
  BY <1>3, <1>6, PathConcat
<1> HIDE DEF flag, event
<1>8. Path(c, h, flag \o flag, h)
  BY <1>5, PathConcat
<1>9. Path(c, h, flag \o flag \o event, h) /\ Path(c, h, flag \o event, h) /\ Path(c, h, flag \o SendTo(c), h)
  BY <1>3, <1>5, <1>7, <1>8, PathConcat
<1>10. Path(c, h, check \o SendTo(c), h) /\ Path(c, h, check \o FindOthers(c), h)
  BY <1>2, <1>3, PathConcat
<1> QED
  BY <1>1, <1>7, <1>9, <1>10

LEMMA RequestPath ==
  ASSUME NEW c \in Sessions, NEW h \in HeldStates, Nothing(h), h.life = "in",
         NEW script \in Requests(c)
  PROVE  Path(c, h, script, h)
<1>1. Path(c, h, SendTo(c), h)
  BY SendToPath DEF Nothing
<1>2. CASE c \in Teachers
  <2>1. [do |-> "login", on |-> c] \in Instructions
    BY DEF Instructions
  <2>2. StepOK(c, [do |-> "login", on |-> c], h, h)
    BY DEF StepOK
  <2>3. Path(c, h, Instruction("login", c), h)
    BY <2>1, <2>2, InstructionPath
  <2>4. Path(c, h, Instruction("login", c) \o SendTo(c), h)
    BY <1>1, <2>3, PathConcat
  <2> QED
    BY <1>1, <1>2, <2>4 DEF Requests
<1>3. CASE c \notin Teachers /\ c \in loggedIn
  BY <1>3, FramePath DEF Requests
<1>4. CASE c \notin Teachers /\ c \notin loggedIn
  BY <1>1, <1>4, FindOthersPath DEF Requests
<1> QED
  BY <1>2, <1>3, <1>4

LEMMA ConnectPath ==
  ASSUME NEW c \in Sessions, NEW h \in HeldStates, Nothing(h), h.life = "out"
  PROVE  Path(c, h, Lock(ClientsMu) \o Instruction("add", c) \o Unlock(ClientsMu),
              [h EXCEPT !.life = "in"])
<1> DEFINE h1 == [h EXCEPT !.writes = ClientsMu]
           k == [h EXCEPT !.life = "in"]
           k1 == [k EXCEPT !.writes = ClientsMu]
<1>1. ClientsMu \in Locks
  BY LocksApart
<1>2. h1 \in HeldStates /\ Path(c, h, Lock(ClientsMu), h1)
  BY <1>1, LockPath DEF Nothing
<1>3. k \in HeldStates /\ Nothing(k)
  BY DEF HeldStates, Nothing
<1>4. /\ h1.writes = ClientsMu /\ h1.life = "out"
      /\ k1 = [h1 EXCEPT !.life = "in"]
  BY DEF HeldStates
<1> HIDE DEF k
<1>5. k1 \in HeldStates /\ Path(c, k1, Unlock(ClientsMu), k)
  BY <1>1, <1>3, LockPath DEF Nothing
<1> HIDE DEF h1, k1
<1>6. Path(c, h1, Instruction("add", c), k1)
  <2>1. [do |-> "add", on |-> c] \in Instructions
    BY DEF Instructions
  <2>2. StepOK(c, [do |-> "add", on |-> c], h1, k1)
    BY <1>4 DEF StepOK
  <2> QED
    BY <1>2, <1>5, <2>1, <2>2, InstructionPath
<1> QED
  BY <1>2, <1>5, <1>6, PathConcat DEF k

LEMMA LeavingPath ==
  ASSUME NEW c \in Sessions, NEW h \in HeldStates, Nothing(h), h.life = "in"
  PROVE  Path(c, h, Leaving(c), [h EXCEPT !.life = "closed"])
<1> DEFINE h1 == [h EXCEPT !.writes = ClientsMu]
           k == [h EXCEPT !.life = "out"]
           k1 == [k EXCEPT !.writes = ClientsMu]
           e == [h EXCEPT !.life = "closed"]
<1>1. ClientsMu \in Locks
  BY LocksApart
<1>2. h1 \in HeldStates /\ Path(c, h, Lock(ClientsMu), h1)
  BY <1>1, LockPath DEF Nothing
<1>3. k \in HeldStates /\ Nothing(k) /\ k.life = "out" /\ e \in HeldStates /\ e = [k EXCEPT !.life = "closed"]
  BY DEF HeldStates, Nothing
<1>4. /\ h1.writes = ClientsMu /\ h1.life = "in"
      /\ k1 = [h1 EXCEPT !.life = "out"]
  BY DEF HeldStates
<1> HIDE DEF k, e
<1>5. k1 \in HeldStates /\ Path(c, k1, Unlock(ClientsMu), k)
  BY <1>1, <1>3, LockPath DEF Nothing
<1> HIDE DEF h1, k1
<1>6. Path(c, h1, Instruction("remove", c), k1)
  <2>1. [do |-> "remove", on |-> c] \in Instructions
    BY DEF Instructions
  <2>2. StepOK(c, [do |-> "remove", on |-> c], h1, k1)
    BY <1>4 DEF StepOK
  <2> QED
    BY <1>2, <1>5, <2>1, <2>2, InstructionPath
<1>7. Path(c, k, Instruction("close", c), e)
  <2>1. [do |-> "close", on |-> c] \in Instructions
    BY DEF Instructions
  <2>2. StepOK(c, [do |-> "close", on |-> c], k, e)
    BY <1>3 DEF StepOK
  <2> QED
    BY <1>3, <2>1, <2>2, InstructionPath
<1>8. Path(c, h, Lock(ClientsMu) \o Instruction("remove", c), k1)
  BY <1>2, <1>6, PathConcat
<1>9. Path(c, h, Lock(ClientsMu) \o Instruction("remove", c) \o Unlock(ClientsMu), k)
  BY <1>5, <1>8, PathConcat
<1> QED
  BY <1>7, <1>9, PathConcat DEF Leaving, e
LEMMA CheckPath ==
  ASSUME NEW d, NEW h \in HeldStates, Nothing(h), NEW p \in People, NEW check \in CheckState(p)
  PROVE  Path(d, h, RLock(CheatingMu) \o RUnlock(CheatingMu) \o check, h)
<1> DEFINE s == Section(StateMu(p))
<1>1. Path(d, h, s, h)
  BY LocksApart, SectionPath DEF Nothing
<1>2. Path(d, h, NotifyTeachersFlag(p), h) /\ Path(d, h, NotifyTeachers, h)
  BY NoticePaths
<1>3. check \in {s, s \o s \o NotifyTeachersFlag(p) \o NotifyTeachers}
  BY DEF CheckState
<1> HIDE DEF s
<1>4. Path(d, h, s \o s, h)
  BY <1>1, PathConcat
<1>5. Path(d, h, s \o s \o NotifyTeachersFlag(p), h)
  BY <1>2, <1>4, PathConcat
<1>6. Path(d, h, s \o s \o NotifyTeachersFlag(p) \o NotifyTeachers, h)
  BY <1>2, <1>5, PathConcat
<1>7. Path(d, h, check, h)
  BY <1>1, <1>3, <1>6
<1> QED
  BY <1>7, NoticePaths, PathConcat

LEMMA ClearPath ==
  ASSUME NEW d, NEW h \in HeldStates, Nothing(h), NEW p \in People
  PROVE  Path(d, h, RLock(CheatingMu) \o RUnlock(CheatingMu) \o Section(StateMu(p)) \o Section(StateMu(p)), h)
<1> DEFINE find == RLock(CheatingMu) \o RUnlock(CheatingMu)
           s == Section(StateMu(p))
<1>1. Path(d, h, find, h)
  BY NoticePaths
<1>2. Path(d, h, s, h)
  BY LocksApart, SectionPath DEF Nothing
<1> HIDE DEF find, s
<1>3. Path(d, h, find \o s, h)
  BY <1>1, <1>2, PathConcat
<1> QED
  BY <1>2, <1>3, PathConcat DEF find, s

-----------------------------------------------------------------------------
(* The inductive invariant.                                                *)

\* What each goroutine has to do ends with nothing held.
Finishing(held) == \A g \in Goroutines : Runs(g, held[g], todo[g])

\* The locks belong to those who hold them.
Owning(held) ==
    \A g \in Goroutines, l \in Locks :
        /\ g \in readers[l] <=> held[g].reads = l
        /\ writer[l] = g <=> held[g].writes = l

\* Who is in a loop keeps what it may visit in the map.
Looping(held) ==
    \A g \in Goroutines :
        /\ held[g].scope \subseteq clients
        /\ held[g].scope # {} => held[g].reads = ClientsMu

Living(held) ==
    \A c \in Sessions :
        /\ held[c].life = "in" <=> c \in clients
        /\ held[c].life = "closed" <=> link[c] = "off"

Fits(held) ==
    /\ held \in [Goroutines -> HeldStates]
    /\ Finishing(held) /\ Owning(held) /\ Looping(held) /\ Living(held)

\* Goroutine g is about to take l: do is "lock" or "rlock".
At(g, do, l) == todo[g] # <<>> /\ Head(todo[g]) = [do |-> do, on |-> l]

Queues ==
    \A l \in Locks :
        /\ writer[l] # None => readers[l] = {}
        /\ pending[l] # None => writer[l] = None /\ l \in Outer /\ At(pending[l], "lock", l)
        /\ \A g \in waiting[l] : At(g, "rlock", l)
        /\ waiting[l] # {} => ~Free(l)

LockInv == TypeOK /\ Queues /\ \E held \in [Goroutines -> HeldStates] : Fits(held)

LEMMA Executes ==
  ASSUME NEW held, Fits(held), NEW g \in Goroutines, todo[g] # <<>>
  PROVE  /\ Head(todo[g]) \in Instructions /\ Tail(todo[g]) \in Seq(Instructions)
         /\ \E j \in HeldStates : StepOK(g, Head(todo[g]), held[g], j) /\ Runs(g, j, Tail(todo[g]))
<1>1. PICK k \in HeldStates : Path(g, held[g], todo[g], k) /\ End(k)
  BY DEF Fits, Finishing, Runs
<1>2. held[g] \in HeldStates
  BY DEF Fits
<1> QED
  BY <1>1, <1>2, PathStep DEF Runs

\* A script and what is to be done after it.
LEMMA RunsAfter ==
  ASSUME NEW g, NEW h, NEW j, NEW s, NEW t, Path(g, h, s, j), Runs(g, j, t)
  PROVE  Runs(g, h, s \o t)
  BY PathConcat DEF Runs

LEMMA RunsIsSeq ==
  ASSUME NEW g, NEW h, NEW s, Runs(g, h, s)
  PROVE  s \in Seq(Instructions)
  BY DEF Runs, Path

LEMMA IdleState ==
  ASSUME NEW held, Fits(held), NEW g \in Goroutines, todo[g] = <<>>
  PROVE  held[g] \in HeldStates /\ Nothing(held[g]) /\ held[g].life # "out"
<1>1. PICK k \in HeldStates : Path(g, held[g], <<>>, k) /\ End(k)
  BY DEF Fits, Finishing, Runs
<1>2. held[g] = k
  BY <1>1, PathNil
<1> QED
  BY <1>1, <1>2 DEF End

\* A goroutine that is at no lock leaves the queues as they are when it moves on.
LEMMA QueuesKept ==
  ASSUME TypeOK, Queues, NEW g \in Goroutines, NEW s,
         todo[g] # <<>> => Head(todo[g]).do \notin {"lock", "rlock"},
         todo' = [todo EXCEPT ![g] = s], UNCHANGED lockVars
  PROVE  Queues'
<1>1. \A h \in Goroutines : h # g => todo'[h] = todo[h]
  BY DEF TypeOK
<1>2. \A l : ~At(g, "lock", l) /\ ~At(g, "rlock", l)
  BY DEF At
<1>3. \A l \in Locks : pending[l] # None => pending[l] \in Goroutines /\ pending[l] # g
  BY <1>2 DEF TypeOK, Queues
<1>4. \A l \in Locks : \A h \in waiting[l] : h \in Goroutines /\ h # g
  BY <1>2 DEF TypeOK, Queues
<1>5. \A h \in Goroutines : \A do, l : h # g => (At(h, do, l)' <=> At(h, do, l))
  BY <1>1 DEF At
<1>6. /\ writer' = writer /\ readers' = readers /\ pending' = pending /\ waiting' = waiting
      /\ \A l : Free(l)' <=> Free(l)
  BY DEF lockVars, Free
<1> SUFFICES ASSUME NEW l \in Locks
             PROVE  (/\ writer[l] # None => readers[l] = {}
                     /\ pending[l] # None => writer[l] = None /\ l \in Outer /\ At(pending[l], "lock", l)
                     /\ \A h \in waiting[l] : At(h, "rlock", l)
                     /\ waiting[l] # {} => ~Free(l))'
  BY DEF Queues
<1>7. /\ writer[l] # None => readers[l] = {}
      /\ pending[l] # None => writer[l] = None /\ l \in Outer /\ At(pending[l], "lock", l)
      /\ \A h \in waiting[l] : At(h, "rlock", l)
      /\ waiting[l] # {} => ~Free(l)
  BY DEF Queues
<1>8. (pending[l] # None => At(pending[l], "lock", l))'
  BY <1>1, <1>3, <1>6, <1>7 DEF At
<1>9. (\A h \in waiting[l] : At(h, "rlock", l))'
  BY <1>1, <1>4, <1>6, <1>7 DEF At
<1> QED
  BY <1>6, <1>7, <1>8, <1>9
LEMMA InitLocks == Init => LockInv
<1> SUFFICES ASSUME Init
             PROVE  LockInv
  OBVIOUS
<1>1. TypeOK
  BY RoomAssumption, EmptySeq DEF Init, TypeOK
<1>2. Queues
  BY DEF Init, Queues
<1> DEFINE h == [reads |-> NoLock, writes |-> NoLock, scope |-> {}, life |-> "closed"]
           held == [g \in Goroutines |-> h]
<1>3. h \in HeldStates /\ End(h)
  BY DEF HeldStates, End, Nothing
<1>4. /\ h.reads = NoLock /\ h.writes = NoLock /\ h.scope = {} /\ h.life = "closed"
  OBVIOUS
<1> HIDE DEF h
<1>5. \A g : Runs(g, h, <<>>)
  BY <1>3, PathEmpty DEF Runs
<1>6. /\ held \in [Goroutines -> HeldStates]
      /\ \A g \in Goroutines : held[g] = h
  BY <1>3
<1> HIDE DEF held
<1>7. Finishing(held)
  BY <1>5, <1>6 DEF Finishing, Init
<1>8. Owning(held)
  BY <1>4, <1>6, LocksApart, NoneAssumption DEF Owning, Init, Goroutines
<1>9. Looping(held) /\ Living(held)
  BY <1>4, <1>6 DEF Looping, Living, Init, Goroutines
<1> QED
  BY <1>1, <1>2, <1>6, <1>7, <1>8, <1>9 DEF LockInv, Fits

\* Goroutine g holds j now and has s to do.
LEMMA Moves ==
  ASSUME NEW held, Fits(held), NEW g \in Goroutines, NEW j \in HeldStates, NEW s, Runs(g, j, s),
         todo \in [Goroutines -> Seq(Instructions)]
  PROVE  LET held2 == [held EXCEPT ![g] = j]
             todo2 == [todo EXCEPT ![g] = s]
         IN  /\ held2 \in [Goroutines -> HeldStates]
             /\ held2[g] = j /\ \A h \in Goroutines : h # g => held2[h] = held[h]
             /\ todo2 \in [Goroutines -> Seq(Instructions)]
             /\ \A h \in Goroutines : Runs(h, held2[h], todo2[h])
<1>1. held \in [Goroutines -> HeldStates] /\ \A h \in Goroutines : Runs(h, held[h], todo[h])
  BY DEF Fits, Finishing
<1>2. s \in Seq(Instructions)
  BY RunsIsSeq
<1> QED
  BY <1>1, <1>2

\* A step that leaves the locks alone.
LEMMA Quietly ==
  ASSUME LockInv, NEW held, Fits(held), NEW g \in Goroutines, NEW j \in HeldStates, NEW s, Runs(g, j, s),
         j.reads = held[g].reads, j.writes = held[g].writes,
         todo[g] # <<>> => Head(todo[g]).do \notin {"lock", "rlock"},
         todo' = [todo EXCEPT ![g] = s], UNCHANGED lockVars,
         (/\ clients \subseteq Sessions /\ loggedIn \subseteq Sessions
          /\ link \in [Sessions -> {"off", "up", "broken"}]
          /\ room \in [Sessions -> 0 .. Room])',
         Looping([held EXCEPT ![g] = j])', Living([held EXCEPT ![g] = j])'
  PROVE  LockInv'
<1> DEFINE held2 == [held EXCEPT ![g] = j]
<1>1. todo \in [Goroutines -> Seq(Instructions)]
  BY DEF LockInv, TypeOK
<1>2. /\ held2 \in [Goroutines -> HeldStates]
      /\ held2[g] = j /\ \A h \in Goroutines : h # g => held2[h] = held[h]
      /\ todo' \in [Goroutines -> Seq(Instructions)]
      /\ \A h \in Goroutines : Runs(h, held2[h], todo'[h])
  BY <1>1, Moves
<1>3. TypeOK'
  BY <1>2 DEF LockInv, TypeOK, lockVars
<1>4. Queues'
  BY QueuesKept DEF LockInv
<1>5. Looping(held2)' /\ Living(held2)'
  OBVIOUS
<1> HIDE DEF held2
<1>6. Finishing(held2)'
  BY <1>2 DEF Finishing
<1>7. Owning(held2)'
  BY <1>2 DEF Fits, Owning, lockVars
<1>8. Fits(held2)'
  BY <1>2, <1>5, <1>6, <1>7 DEF Fits
<1> QED
  BY <1>2, <1>3, <1>4, <1>8 DEF LockInv
\* What the holders of a lock are, for an invariant's use.
LEMMA Holders ==
  ASSUME LockInv, NEW held, Fits(held), NEW g \in Goroutines
  PROVE  /\ held[g] \in HeldStates
         /\ \A l \in Locks : /\ g \in readers[l] <=> held[g].reads = l
                             /\ writer[l] = g <=> held[g].writes = l
         /\ held[g].scope \subseteq clients
         /\ held[g].scope # {} => held[g].reads = ClientsMu
  BY DEF LockInv, Fits, Owning, Looping

LEMMA RLockKeeps == ASSUME LockInv, NEW g \in Goroutines, StepRLock(g) PROVE LockInv'
<1> DEFINE x == Head(todo[g])
<1>1. TypeOK /\ Queues
  BY DEF LockInv
<1>2. PICK held : Fits(held)
  BY DEF LockInv
<1>3. todo[g] # <<>> /\ x.do = "rlock"
  BY DEF StepRLock, Next1
<1>4. /\ x \in Instructions /\ Tail(todo[g]) \in Seq(Instructions)
      /\ \E j \in HeldStates : StepOK(g, x, held[g], j) /\ Runs(g, j, Tail(todo[g]))
  BY <1>2, <1>3, Executes
<1>5. PICK j \in HeldStates : StepOK(g, x, held[g], j) /\ Runs(g, j, Tail(todo[g]))
  BY <1>4
<1> HIDE DEF x
<1>6. PICK l : l = x.on
  OBVIOUS
<1>7. /\ l \in Outer /\ l \in Locks /\ x = [do |-> "rlock", on |-> l]
      /\ held[g].reads = NoLock /\ held[g].writes = NoLock /\ j = [held[g] EXCEPT !.reads = l]
  <2>1. l \in Outer /\ held[g].reads = NoLock /\ held[g].writes = NoLock /\ j = [held[g] EXCEPT !.reads = l]
    BY <1>3, <1>5, <1>6 DEF StepOK
  <2>2. l \in Locks
    BY <2>1, LocksApart DEF Outer
  <2>3. x = [do |-> "rlock", on |-> l]
    BY <1>3, <1>4, <1>6 DEF Instructions
  <2> QED
    BY <2>1, <2>2, <2>3
<1>8. /\ UNCHANGED <<writer, pending, sessionVars>> /\ At(g, "rlock", l) /\ On(g) = l
      /\ \A m : ~At(g, "lock", m)
  BY <1>3, <1>6, <1>7 DEF StepRLock, x, At, On
<1>9. CASE /\ Free(l) /\ readers' = [readers EXCEPT ![l] = @ \cup {g}]
           /\ todo' = [todo EXCEPT ![g] = Tail(todo[g])] /\ UNCHANGED waiting
  <2> DEFINE held2 == [held EXCEPT ![g] = j]
             rest == [todo EXCEPT ![g] = Tail(todo[g])]
  <2>a. todo \in [Goroutines -> Seq(Instructions)] /\ todo' = rest
    BY <1>1, <1>9 DEF TypeOK
  <2>b. /\ held2 \in [Goroutines -> HeldStates]
        /\ held2[g] = j /\ \A h \in Goroutines : h # g => held2[h] = held[h]
        /\ rest \in [Goroutines -> Seq(Instructions)]
        /\ \A h \in Goroutines : Runs(h, held2[h], rest[h])
    BY <1>2, <1>5, <2>a, Moves
  <2> HIDE DEF rest
  <2>1. /\ held2 \in [Goroutines -> HeldStates]
        /\ held2[g] = j /\ \A h \in Goroutines : h # g => held2[h] = held[h]
        /\ todo' \in [Goroutines -> Seq(Instructions)]
        /\ \A h \in Goroutines : Runs(h, held2[h], todo'[h])
    BY <2>a, <2>b
  <2>2. TypeOK'
    <3>1. readers' \in [Locks -> SUBSET Goroutines]
      BY <1>1, <1>9 DEF TypeOK
    <3> QED
      BY <1>1, <1>8, <1>9, <2>1, <3>1 DEF TypeOK, sessionVars
  <2>3. j.reads = l /\ j.writes = NoLock /\ j.scope = held[g].scope /\ j.life = held[g].life
    BY <1>2, <1>7, Holders DEF HeldStates
  <2> HIDE DEF held2
  <2>4. Finishing(held2)'
    BY <2>1 DEF Finishing
  <2>5. Owning(held2)'
    <3>1. /\ \A m \in Locks : m # l => readers'[m] = readers[m]
          /\ readers'[l] = readers[l] \cup {g} /\ writer' = writer
      BY <1>1, <1>7, <1>8, <1>9 DEF TypeOK
    <3>2. \A m \in Locks : m # NoLock
      BY LocksApart
    <3> SUFFICES ASSUME NEW h \in Goroutines, NEW m \in Locks
                 PROVE  /\ h \in readers'[m] <=> held2[h].reads = m
                        /\ writer'[m] = h <=> held2[h].writes = m
      BY DEF Owning
    <3>3. /\ h \in readers[m] <=> held[h].reads = m
          /\ writer[m] = h <=> held[h].writes = m
      BY <1>2, Holders
    <3>4. CASE h = g
      BY <1>7, <2>1, <2>3, <3>1, <3>2, <3>3, <3>4
    <3>5. CASE h # g
      BY <2>1, <3>1, <3>3, <3>5
    <3> QED
      BY <3>4, <3>5
  <2>6. Looping(held2)' /\ Living(held2)'
    <3>1. held[g].scope = {}
      BY <1>2, <1>7, Holders DEF NoLock, ClientsMu
    <3> QED
      BY <1>2, <1>8, <2>1, <2>3, <3>1 DEF Fits, Looping, Living, sessionVars, Goroutines
  <2>7. Queues'
    <3>1. /\ \A m \in Locks : m # l => readers'[m] = readers[m]
          /\ writer' = writer /\ pending' = pending /\ waiting' = waiting
          /\ \A m : Free(m)' <=> Free(m)
      BY <1>1, <1>7, <1>8, <1>9 DEF TypeOK, Free
    <3>2. writer[l] = None /\ waiting[l] = {}
      BY <1>1, <1>7, <1>9 DEF Queues, Free
    <3>3. \A h \in Goroutines : h # g => todo'[h] = todo[h]
      BY <1>1, <1>9 DEF TypeOK
    <3>4. \A m \in Locks : At(g, "rlock", m) => m = l
      BY <1>8 DEF At
    <3> SUFFICES ASSUME NEW m \in Locks
                 PROVE  (/\ writer[m] # None => readers[m] = {}
                         /\ pending[m] # None => writer[m] = None /\ m \in Outer /\ At(pending[m], "lock", m)
                         /\ \A h \in waiting[m] : At(h, "rlock", m)
                         /\ waiting[m] # {} => ~Free(m))'
      BY DEF Queues
    <3>5. /\ writer[m] # None => readers[m] = {}
          /\ pending[m] # None => writer[m] = None /\ m \in Outer /\ At(pending[m], "lock", m)
          /\ \A h \in waiting[m] : At(h, "rlock", m)
          /\ waiting[m] # {} => ~Free(m)
      BY <1>1 DEF Queues
    <3>6. (pending[m] # None => At(pending[m], "lock", m))'
      <4>1. pending[m] # None => pending[m] \in Goroutines /\ pending[m] # g
        BY <1>1, <1>8, <3>5 DEF TypeOK
      <4> QED
        BY <3>1, <3>3, <3>5, <4>1 DEF At
    <3>7. (\A h \in waiting[m] : At(h, "rlock", m))'
      <4>1. \A h \in waiting[m] : h \in Goroutines /\ h # g
        BY <1>1, <3>2, <3>4, <3>5 DEF TypeOK
      <4> QED
        BY <3>1, <3>3, <3>5, <4>1 DEF At
    <3> QED
      BY <3>1, <3>2, <3>5, <3>6, <3>7
  <2> QED
    BY <2>1, <2>2, <2>4, <2>5, <2>6, <2>7 DEF LockInv, Fits
<1>10. CASE ~Free(l) /\ waiting' = [waiting EXCEPT ![l] = @ \cup {g}] /\ UNCHANGED <<readers, todo>>
  <2>1. TypeOK'
    BY <1>1, <1>8, <1>10 DEF TypeOK, sessionVars
  <2>2. Fits(held)'
    BY <1>2, <1>8, <1>10 DEF Fits, Finishing, Owning, Looping, Living, sessionVars
  <2>3. Queues'
    <3>1. /\ \A m \in Locks : m # l => waiting'[m] = waiting[m]
          /\ waiting'[l] = waiting[l] \cup {g}
      BY <1>1, <1>7, <1>10 DEF TypeOK
    <3>2. /\ \A h, do, m : At(h, do, m)' <=> At(h, do, m)
          /\ \A m : Free(m)' <=> Free(m)
          /\ writer' = writer /\ pending' = pending /\ readers' = readers /\ todo' = todo
      BY <1>8, <1>10 DEF At, Free
    <3> SUFFICES ASSUME NEW m \in Locks
                 PROVE  (/\ writer[m] # None => readers[m] = {}
                         /\ pending[m] # None => writer[m] = None /\ m \in Outer /\ At(pending[m], "lock", m)
                         /\ \A h \in waiting[m] : At(h, "rlock", m)
                         /\ waiting[m] # {} => ~Free(m))'
      BY DEF Queues
    <3>3. /\ writer[m] # None => readers[m] = {}
          /\ pending[m] # None => writer[m] = None /\ m \in Outer /\ At(pending[m], "lock", m)
          /\ \A h \in waiting[m] : At(h, "rlock", m)
          /\ waiting[m] # {} => ~Free(m)
      BY <1>1 DEF Queues
    <3>4. (pending[m] # None => At(pending[m], "lock", m))'
      BY <3>2, <3>3 DEF At
    <3>5. \A h \in waiting'[m] : At(h, "rlock", m)'
      BY <1>8, <3>1, <3>2, <3>3
    <3> QED
      BY <1>10, <3>1, <3>2, <3>3, <3>4, <3>5
  <2> QED
    BY <1>2, <2>1, <2>2, <2>3 DEF LockInv, Fits
<1>11. \/ /\ Free(l) /\ readers' = [readers EXCEPT ![l] = @ \cup {g}]
          /\ todo' = [todo EXCEPT ![g] = Tail(todo[g])] /\ UNCHANGED waiting
       \/ ~Free(l) /\ waiting' = [waiting EXCEPT ![l] = @ \cup {g}] /\ UNCHANGED <<readers, todo>>
  BY <1>8 DEF StepRLock, Rest
<1> QED
  BY <1>9, <1>10, <1>11
LEMMA RUnlockKeeps == ASSUME LockInv, NEW g \in Goroutines, StepRUnlock(g) PROVE LockInv'
<1> DEFINE x == Head(todo[g])
<1>1. TypeOK /\ Queues
  BY DEF LockInv
<1>2. PICK held : Fits(held)
  BY DEF LockInv
<1>3. todo[g] # <<>> /\ x.do = "runlock"
  BY DEF StepRUnlock, Next1
<1>4. /\ x \in Instructions /\ Tail(todo[g]) \in Seq(Instructions)
      /\ \E j \in HeldStates : StepOK(g, x, held[g], j) /\ Runs(g, j, Tail(todo[g]))
  BY <1>2, <1>3, Executes
<1>5. PICK j \in HeldStates : StepOK(g, x, held[g], j) /\ Runs(g, j, Tail(todo[g]))
  BY <1>4
<1> HIDE DEF x
<1>6. PICK l : l = x.on
  OBVIOUS
<1>7. /\ l \in Outer /\ held[g].reads = l /\ held[g].writes = NoLock /\ held[g].scope = {}
      /\ j = [held[g] EXCEPT !.reads = NoLock]
  BY <1>3, <1>5, <1>6 DEF StepOK
<1>8. l \in Locks
  BY <1>7, LocksApart DEF Outer
<1>9. j.reads = NoLock /\ j.writes = NoLock /\ j.scope = {} /\ j.life = held[g].life
  BY <1>2, <1>7, Holders DEF HeldStates
<1>10. /\ UNCHANGED <<writer, pending, waiting, sessionVars>>
       /\ readers' = [readers EXCEPT ![l] = @ \ {g}]
       /\ todo' = [todo EXCEPT ![g] = Tail(todo[g])]
  BY <1>6 DEF StepRUnlock, Rest, On, x
<1>11. \A m : ~At(g, "lock", m) /\ ~At(g, "rlock", m)
  BY <1>3 DEF x, At
<1> DEFINE held2 == [held EXCEPT ![g] = j]
           rest == [todo EXCEPT ![g] = Tail(todo[g])]
<1>a. todo \in [Goroutines -> Seq(Instructions)] /\ todo' = rest
  BY <1>1, <1>10 DEF TypeOK
<1>b. /\ held2 \in [Goroutines -> HeldStates]
      /\ held2[g] = j /\ \A h \in Goroutines : h # g => held2[h] = held[h]
      /\ rest \in [Goroutines -> Seq(Instructions)]
      /\ \A h \in Goroutines : Runs(h, held2[h], rest[h])
  BY <1>2, <1>5, <1>a, Moves
<1> HIDE DEF rest
<1>12. /\ held2 \in [Goroutines -> HeldStates]
       /\ held2[g] = j /\ \A h \in Goroutines : h # g => held2[h] = held[h]
       /\ todo' \in [Goroutines -> Seq(Instructions)]
       /\ \A h \in Goroutines : Runs(h, held2[h], todo'[h])
  BY <1>a, <1>b
<1> HIDE DEF held2
<1>13. TypeOK'
  BY <1>1, <1>8, <1>10, <1>12 DEF TypeOK, sessionVars
<1>14. Finishing(held2)'
  BY <1>12 DEF Finishing
<1>15. /\ \A m \in Locks : m # l => readers'[m] = readers[m]
       /\ readers'[l] = readers[l] \ {g}
  BY <1>1, <1>8, <1>10 DEF TypeOK
<1>16. Owning(held2)'
  <2> SUFFICES ASSUME NEW h \in Goroutines, NEW m \in Locks
               PROVE  /\ h \in readers'[m] <=> held2[h].reads = m
                      /\ writer'[m] = h <=> held2[h].writes = m
    BY DEF Owning
  <2>1. /\ h \in readers[m] <=> held[h].reads = m
        /\ writer[m] = h <=> held[h].writes = m
    BY <1>2, Holders
  <2>2. m # NoLock
    BY LocksApart
  <2>3. CASE h = g
    BY <1>7, <1>9, <1>10, <1>12, <1>15, <2>1, <2>2, <2>3
  <2>4. CASE h # g
    BY <1>10, <1>12, <1>15, <2>1, <2>4
  <2> QED
    BY <2>3, <2>4
<1>17. Looping(held2)' /\ Living(held2)'
  BY <1>2, <1>9, <1>10, <1>12 DEF Fits, Looping, Living, sessionVars, Goroutines
<1>18. Queues'
  <2>1. /\ writer' = writer /\ pending' = pending /\ waiting' = waiting
        /\ \A m : Free(m)' <=> Free(m)
    BY <1>10 DEF Free
  <2>2. \A h \in Goroutines : h # g => todo'[h] = todo[h]
    BY <1>1, <1>10 DEF TypeOK
  <2> SUFFICES ASSUME NEW m \in Locks
               PROVE  (/\ writer[m] # None => readers[m] = {}
                       /\ pending[m] # None => writer[m] = None /\ m \in Outer /\ At(pending[m], "lock", m)
                       /\ \A h \in waiting[m] : At(h, "rlock", m)
                       /\ waiting[m] # {} => ~Free(m))'
    BY DEF Queues
  <2>3. /\ writer[m] # None => readers[m] = {}
        /\ pending[m] # None => writer[m] = None /\ m \in Outer /\ At(pending[m], "lock", m)
        /\ \A h \in waiting[m] : At(h, "rlock", m)
        /\ waiting[m] # {} => ~Free(m)
    BY <1>1 DEF Queues
  <2>4. (pending[m] # None => At(pending[m], "lock", m))'
    <3>1. pending[m] # None => pending[m] \in Goroutines /\ pending[m] # g
      BY <1>1, <1>11, <2>3 DEF TypeOK
    <3> QED
      BY <2>1, <2>2, <2>3, <3>1 DEF At
  <2>5. (\A h \in waiting[m] : At(h, "rlock", m))'
    <3>1. \A h \in waiting[m] : h \in Goroutines /\ h # g
      BY <1>1, <1>11, <2>3 DEF TypeOK
    <3> QED
      BY <2>1, <2>2, <2>3, <3>1 DEF At
  <2> QED
    BY <1>15, <2>1, <2>3, <2>4, <2>5
<1> QED
  BY <1>12, <1>13, <1>14, <1>16, <1>17, <1>18 DEF LockInv, Fits

LEMMA LockKeeps == ASSUME LockInv, NEW g \in Goroutines, StepLock(g) PROVE LockInv'
<1> DEFINE x == Head(todo[g])
<1>1. TypeOK /\ Queues
  BY DEF LockInv
<1>2. PICK held : Fits(held)
  BY DEF LockInv
<1>3. todo[g] # <<>> /\ x.do = "lock"
  BY DEF StepLock, Next1
<1>4. /\ x \in Instructions /\ Tail(todo[g]) \in Seq(Instructions)
      /\ \E j \in HeldStates : StepOK(g, x, held[g], j) /\ Runs(g, j, Tail(todo[g]))
  BY <1>2, <1>3, Executes
<1>5. PICK j \in HeldStates : StepOK(g, x, held[g], j) /\ Runs(g, j, Tail(todo[g]))
  BY <1>4
<1> HIDE DEF x
<1>6. PICK l : l = x.on
  OBVIOUS
<1>7. /\ l \in Locks /\ held[g].writes = NoLock /\ (l \in Outer => held[g].reads = NoLock)
      /\ j = [held[g] EXCEPT !.writes = l]
  BY <1>3, <1>5, <1>6 DEF StepOK
<1>8. j.reads = held[g].reads /\ j.writes = l /\ j.scope = held[g].scope /\ j.life = held[g].life
  BY <1>2, <1>7, Holders DEF HeldStates
<1>9. x = [do |-> "lock", on |-> l]
  BY <1>3, <1>4, <1>6 DEF Instructions
<1>10. /\ UNCHANGED <<readers, waiting, sessionVars>> /\ At(g, "lock", l)
       /\ \A m : ~At(g, "rlock", m)
       /\ \A m : At(g, "lock", m) => m = l
  BY <1>3, <1>9 DEF StepLock, x, At
<1>11. \/ /\ readers[l] = {} /\ (Free(l) \/ (writer[l] = None /\ pending[l] = g))
          /\ writer' = [writer EXCEPT ![l] = g] /\ pending' = [pending EXCEPT ![l] = None]
          /\ todo' = [todo EXCEPT ![g] = Tail(todo[g])]
       \/ /\ readers[l] # {} /\ Free(l)
          /\ pending' = [pending EXCEPT ![l] = g] /\ UNCHANGED <<writer, todo>>
  BY <1>6 DEF StepLock, Rest, On, x
<1>12. CASE /\ readers[l] = {} /\ (Free(l) \/ (writer[l] = None /\ pending[l] = g))
            /\ writer' = [writer EXCEPT ![l] = g] /\ pending' = [pending EXCEPT ![l] = None]
            /\ todo' = [todo EXCEPT ![g] = Tail(todo[g])]
  <2> DEFINE held2 == [held EXCEPT ![g] = j]
  <2>8. todo \in [Goroutines -> Seq(Instructions)] /\ todo' = [todo EXCEPT ![g] = Tail(todo[g])]
    BY <1>1, <1>12 DEF TypeOK
  <2> DEFINE rest == [todo EXCEPT ![g] = Tail(todo[g])]
  <2>9. /\ held2 \in [Goroutines -> HeldStates]
        /\ held2[g] = j /\ \A h \in Goroutines : h # g => held2[h] = held[h]
        /\ rest \in [Goroutines -> Seq(Instructions)]
        /\ \A h \in Goroutines : Runs(h, held2[h], rest[h])
    BY <1>2, <1>5, <2>8, Moves
  <2> HIDE DEF rest
  <2>1. /\ held2 \in [Goroutines -> HeldStates]
        /\ held2[g] = j /\ \A h \in Goroutines : h # g => held2[h] = held[h]
        /\ todo' \in [Goroutines -> Seq(Instructions)]
        /\ \A h \in Goroutines : Runs(h, held2[h], todo'[h])
    BY <2>8, <2>9 DEF rest
  <2> HIDE DEF held2
  <2>2. TypeOK'
    BY <1>1, <1>10, <1>12, <2>1 DEF TypeOK, sessionVars
  <2>3. Finishing(held2)'
    BY <2>1 DEF Finishing
  <2>4. /\ \A m \in Locks : m # l => writer'[m] = writer[m] /\ pending'[m] = pending[m]
        /\ writer'[l] = g /\ pending'[l] = None /\ readers' = readers /\ waiting' = waiting
        /\ writer[l] = None /\ g # None
    BY <1>1, <1>7, <1>10, <1>12, NoneAssumption DEF TypeOK, Free, Goroutines
  <2>5. Owning(held2)'
    <3> SUFFICES ASSUME NEW h \in Goroutines, NEW m \in Locks
                 PROVE  /\ h \in readers'[m] <=> held2[h].reads = m
                        /\ writer'[m] = h <=> held2[h].writes = m
      BY DEF Owning
    <3>1. /\ h \in readers[m] <=> held[h].reads = m
          /\ writer[m] = h <=> held[h].writes = m
      BY <1>2, Holders
    <3>2. m # NoLock /\ h # None
      BY LocksApart, NoneAssumption DEF Goroutines
    <3>3. CASE h = g
      <4>1. h \in readers'[m] <=> held2[h].reads = m
        BY <1>7, <1>8, <2>1, <2>4, <3>1, <3>2, <3>3
      <4>2. writer'[m] = h <=> held2[h].writes = m
        BY <1>7, <1>8, <2>1, <2>4, <3>1, <3>2, <3>3
      <4> QED
        BY <4>1, <4>2
    <3>4. CASE h # g
      BY <2>1, <2>4, <3>1, <3>2, <3>4
    <3> QED
      BY <3>3, <3>4
  <2>6. Looping(held2)' /\ Living(held2)'
    <3>1. UNCHANGED <<clients, link>>
      BY <1>10 DEF sessionVars
    <3>2. Looping(held2)'
      BY <1>2, <1>8, <2>1, <3>1 DEF Fits, Looping
    <3>3. Living(held2)'
      BY <1>2, <1>8, <2>1, <3>1 DEF Fits, Living, Goroutines
    <3> QED
      BY <3>2, <3>3
  <2>7. Queues'
    <3>1. \A h \in Goroutines : h # g => todo'[h] = todo[h]
      BY <1>1, <1>12 DEF TypeOK
    <3> SUFFICES ASSUME NEW m \in Locks
                 PROVE  (/\ writer[m] # None => readers[m] = {}
                         /\ pending[m] # None => writer[m] = None /\ m \in Outer /\ At(pending[m], "lock", m)
                         /\ \A h \in waiting[m] : At(h, "rlock", m)
                         /\ waiting[m] # {} => ~Free(m))'
      BY DEF Queues
    <3>2. /\ writer[m] # None => readers[m] = {}
          /\ pending[m] # None => writer[m] = None /\ m \in Outer /\ At(pending[m], "lock", m)
          /\ \A h \in waiting[m] : At(h, "rlock", m)
          /\ waiting[m] # {} => ~Free(m)
      BY <1>1 DEF Queues
    <3>3. (pending[m] # None => writer[m] = None /\ m \in Outer /\ At(pending[m], "lock", m))'
      <4>1. CASE m = l
        BY <2>4, <4>1
      <4>2. CASE m # l
        <5>1. pending[m] # None => pending[m] \in Goroutines /\ pending[m] # g
          BY <1>1, <1>10, <3>2, <4>2 DEF TypeOK
        <5> QED
          BY <2>4, <3>1, <3>2, <4>2, <5>1 DEF At
      <4> QED
        BY <4>1, <4>2
    <3>4. (\A h \in waiting[m] : At(h, "rlock", m))'
      <4>1. \A h \in waiting[m] : h \in Goroutines /\ h # g
        BY <1>1, <1>10, <3>2 DEF TypeOK
      <4> QED
        BY <2>4, <3>1, <3>2, <4>1 DEF At
    <3>5. (writer[m] # None => readers[m] = {})' /\ (waiting[m] # {} => ~Free(m))'
      BY <1>12, <2>4, <3>2 DEF Free
    <3> QED
      BY <3>3, <3>4, <3>5
  <2> QED
    BY <2>1, <2>2, <2>3, <2>5, <2>6, <2>7 DEF LockInv, Fits
<1>13. CASE /\ readers[l] # {} /\ Free(l)
            /\ pending' = [pending EXCEPT ![l] = g] /\ UNCHANGED <<writer, todo>>
  <2>1. TypeOK'
    BY <1>1, <1>10, <1>13 DEF TypeOK, sessionVars
  <2>2. Fits(held)'
    BY <1>2, <1>10, <1>13 DEF Fits, Finishing, Owning, Looping, Living, sessionVars
  <2>3. l \in Outer
    <3>1. PICK h \in Goroutines : h \in readers[l]
      BY <1>1, <1>7, <1>13 DEF TypeOK
    <3>2. held[h].reads = l /\ held[h] \in HeldStates
      BY <1>2, <1>7, <3>1, Holders
    <3> QED
      BY <1>7, <3>2, LocksApart DEF HeldStates
  <2>4. Queues'
    <3>1. /\ \A m \in Locks : m # l => pending'[m] = pending[m]
          /\ pending'[l] = g /\ writer' = writer /\ readers' = readers /\ waiting' = waiting
          /\ writer[l] = None
          /\ \A h, do, m : At(h, do, m)' <=> At(h, do, m)
          /\ g # None
      BY <1>1, <1>7, <1>10, <1>13, NoneAssumption DEF TypeOK, Free, At, Goroutines
    <3> SUFFICES ASSUME NEW m \in Locks
                 PROVE  (/\ writer[m] # None => readers[m] = {}
                         /\ pending[m] # None => writer[m] = None /\ m \in Outer /\ At(pending[m], "lock", m)
                         /\ \A h \in waiting[m] : At(h, "rlock", m)
                         /\ waiting[m] # {} => ~Free(m))'
      BY DEF Queues
    <3>2. /\ writer[m] # None => readers[m] = {}
          /\ pending[m] # None => writer[m] = None /\ m \in Outer /\ At(pending[m], "lock", m)
          /\ \A h \in waiting[m] : At(h, "rlock", m)
          /\ waiting[m] # {} => ~Free(m)
      BY <1>1 DEF Queues
    <3>3. (pending[m] # None => writer[m] = None /\ m \in Outer /\ At(pending[m], "lock", m))'
      <4>1. CASE m = l
        BY <1>10, <1>13, <2>3, <3>1, <4>1 DEF At
      <4>2. CASE m # l
        BY <1>13, <3>1, <3>2, <4>2 DEF At
      <4> QED
        BY <4>1, <4>2
    <3>4. (waiting[m] # {} => ~Free(m))'
      BY <3>1, <3>2 DEF Free
    <3> QED
      BY <3>1, <3>2, <3>3, <3>4
  <2> QED
    BY <1>2, <2>1, <2>2, <2>4 DEF LockInv, Fits
<1> QED
  BY <1>11, <1>12, <1>13
\* The readers that waited go on with the lock.
LEMMA UnlockKeeps == ASSUME LockInv, NEW g \in Goroutines, StepUnlock(g) PROVE LockInv'
<1> DEFINE x == Head(todo[g])
<1>1. TypeOK /\ Queues
  BY DEF LockInv
<1>2. PICK held : Fits(held)
  BY DEF LockInv
<1>3. todo[g] # <<>> /\ x.do = "unlock"
  BY DEF StepUnlock, Next1
<1>4. /\ x \in Instructions /\ Tail(todo[g]) \in Seq(Instructions)
      /\ \E j \in HeldStates : StepOK(g, x, held[g], j) /\ Runs(g, j, Tail(todo[g]))
  BY <1>2, <1>3, Executes
<1>5. PICK j \in HeldStates : StepOK(g, x, held[g], j) /\ Runs(g, j, Tail(todo[g]))
  BY <1>4
<1> HIDE DEF x
<1>6. PICK l : l = x.on
  OBVIOUS
<1>7. l \in Locks /\ held[g].writes = l /\ j = [held[g] EXCEPT !.writes = NoLock]
  BY <1>3, <1>5, <1>6 DEF StepOK
<1>8. j.reads = held[g].reads /\ j.writes = NoLock /\ j.scope = held[g].scope /\ j.life = held[g].life
  BY <1>2, <1>7, Holders DEF HeldStates
<1>9. \A m : ~At(g, "lock", m) /\ ~At(g, "rlock", m)
  BY <1>3 DEF x, At
<1>10. PICK W : W = waiting[l]
  OBVIOUS
<1>11. /\ UNCHANGED <<pending, sessionVars>>
       /\ writer' = [writer EXCEPT ![l] = None] /\ readers' = [readers EXCEPT ![l] = W]
       /\ waiting' = [waiting EXCEPT ![l] = {}]
       /\ todo' = [h \in Goroutines |-> IF h = g \/ h \in W THEN Tail(todo[h]) ELSE todo[h]]
  BY <1>6, <1>10 DEF StepUnlock, On, x
<1>12. /\ writer[l] = g /\ g # None /\ readers[l] = {} /\ pending[l] = None
       /\ W \subseteq Goroutines /\ g \notin W /\ \A h \in W : At(h, "rlock", l)
  <2>1. writer[l] = g /\ g # None
    BY <1>2, <1>7, Holders, NoneAssumption DEF Goroutines
  <2>2. readers[l] = {} /\ pending[l] = None /\ \A h \in W : At(h, "rlock", l)
    BY <1>1, <1>7, <1>10, <2>1 DEF Queues
  <2>3. W \subseteq Goroutines
    BY <1>1, <1>7, <1>10 DEF TypeOK
  <2> QED
    BY <1>9, <2>1, <2>2, <2>3
<1>13. ASSUME NEW h \in W
       PROVE  /\ l \in Outer /\ held[h].reads = NoLock /\ held[h].writes = NoLock
              /\ [held[h] EXCEPT !.reads = l] \in HeldStates
              /\ Runs(h, [held[h] EXCEPT !.reads = l], Tail(todo[h]))
  <2>1. h \in Goroutines /\ todo[h] # <<>> /\ Head(todo[h]) = [do |-> "rlock", on |-> l]
    BY <1>12 DEF At
  <2>2. PICK i \in HeldStates : StepOK(h, Head(todo[h]), held[h], i) /\ Runs(h, i, Tail(todo[h]))
    BY <1>2, <2>1, Executes
  <2>3. /\ l \in Outer /\ held[h].reads = NoLock /\ held[h].writes = NoLock
        /\ i = [held[h] EXCEPT !.reads = l]
    <3>1. PICK y : y = Head(todo[h])
      OBVIOUS
    <3>2. y.do = "rlock" /\ y.on = l /\ StepOK(h, y, held[h], i)
      BY <2>1, <2>2, <3>1
    <3> QED
      BY <3>2 DEF StepOK
  <2> QED
    BY <2>2, <2>3
<1>14. /\ held \in [Goroutines -> HeldStates]
       /\ \A h \in Goroutines : Runs(h, held[h], todo[h])
  BY <1>2 DEF Fits, Finishing
<1> DEFINE held2 == [h \in Goroutines |-> IF h = g THEN j
                                          ELSE IF h \in W THEN [held[h] EXCEPT !.reads = l] ELSE held[h]]
<1>15. held2 \in [Goroutines -> HeldStates]
  BY <1>13, <1>14
<1>16. /\ held2[g] = j
       /\ \A h \in W : held2[h] = [held[h] EXCEPT !.reads = l]
       /\ \A h \in Goroutines : h # g /\ h \notin W => held2[h] = held[h]
  BY <1>12
<1>17. \A h \in W : /\ held2[h].reads = l /\ held2[h].writes = NoLock
                    /\ held2[h].scope = held[h].scope /\ held2[h].life = held[h].life
  BY <1>12, <1>13, <1>14, <1>16 DEF HeldStates
<1> HIDE DEF held2
<1>18. /\ \A h \in Goroutines : h # g /\ h \notin W => todo'[h] = todo[h]
       /\ \A h \in Goroutines : h = g \/ h \in W => todo'[h] = Tail(todo[h])
  BY <1>11
<1>19. \A h \in Goroutines : Runs(h, held2[h], todo'[h])
  <2> SUFFICES ASSUME NEW h \in Goroutines
               PROVE  Runs(h, held2[h], todo'[h])
    OBVIOUS
  <2>1. CASE h = g
    BY <1>5, <1>16, <1>18, <2>1
  <2>2. CASE h \in W
    BY <1>13, <1>16, <1>18, <2>2
  <2>3. CASE h # g /\ h \notin W
    BY <1>14, <1>16, <1>18, <2>3
  <2> QED
    BY <2>1, <2>2, <2>3
<1>20. TypeOK'
  <2>1. \A h \in Goroutines : todo'[h] \in Seq(Instructions)
    BY <1>19, RunsIsSeq
  <2>2. todo' \in [Goroutines -> Seq(Instructions)]
    BY <1>11, <2>1
  <2> QED
    BY <1>1, <1>7, <1>11, <1>12, <2>2 DEF TypeOK, sessionVars
<1>21. /\ \A m \in Locks : m # l => writer'[m] = writer[m] /\ readers'[m] = readers[m] /\ waiting'[m] = waiting[m]
       /\ writer'[l] = None /\ readers'[l] = W /\ waiting'[l] = {} /\ pending' = pending
  BY <1>1, <1>7, <1>11 DEF TypeOK
<1>22. Finishing(held2)'
  BY <1>19 DEF Finishing
<1>23. Owning(held2)'
  <2> SUFFICES ASSUME NEW h \in Goroutines, NEW m \in Locks
               PROVE  /\ h \in readers'[m] <=> held2[h].reads = m
                      /\ writer'[m] = h <=> held2[h].writes = m
    BY DEF Owning
  <2>1. /\ h \in readers[m] <=> held[h].reads = m
        /\ writer[m] = h <=> held[h].writes = m
    BY <1>2, Holders
  <2>2. m # NoLock /\ h # None
    BY LocksApart, NoneAssumption DEF Goroutines
  <2>3. CASE h = g
    BY <1>7, <1>8, <1>12, <1>16, <1>21, <2>1, <2>2, <2>3
  <2>4. CASE h \in W
    BY <1>12, <1>13, <1>17, <1>21, <2>1, <2>2, <2>4
  <2>5. CASE h # g /\ h \notin W
    BY <1>12, <1>16, <1>21, <2>1, <2>2, <2>5
  <2> QED
    BY <2>3, <2>4, <2>5
<1>24. Looping(held2)'
  <2>1. ASSUME NEW h \in W
        PROVE  held[h].scope = {}
    <3>1. h \in Goroutines
      BY <1>12
    <3>2. held[h].scope # {} => held[h].reads = ClientsMu
      BY <1>2, <3>1, Holders
    <3> QED
      BY <1>13, <3>2, LocksApart
  <2>2. clients' = clients
    BY <1>11 DEF sessionVars
  <2> SUFFICES ASSUME NEW h \in Goroutines
               PROVE  held2[h].scope \subseteq clients' /\ (held2[h].scope # {} => held2[h].reads = ClientsMu)
    BY DEF Looping
  <2>3. held[h].scope \subseteq clients /\ (held[h].scope # {} => held[h].reads = ClientsMu)
    BY <1>2, Holders
  <2> QED
    BY <1>8, <1>16, <1>17, <2>1, <2>2, <2>3
<1>25. Living(held2)'
  <2>1. \A h \in Goroutines : held2[h].life = held[h].life
    BY <1>8, <1>16, <1>17
  <2> QED
    BY <1>2, <1>11, <2>1 DEF Fits, Living, sessionVars, Goroutines
<1>26. Queues'
  <2> SUFFICES ASSUME NEW m \in Locks
               PROVE  (/\ writer[m] # None => readers[m] = {}
                       /\ pending[m] # None => writer[m] = None /\ m \in Outer /\ At(pending[m], "lock", m)
                       /\ \A h \in waiting[m] : At(h, "rlock", m)
                       /\ waiting[m] # {} => ~Free(m))'
    BY DEF Queues
  <2>1. /\ writer[m] # None => readers[m] = {}
        /\ pending[m] # None => writer[m] = None /\ m \in Outer /\ At(pending[m], "lock", m)
        /\ \A h \in waiting[m] : At(h, "rlock", m)
        /\ waiting[m] # {} => ~Free(m)
    BY <1>1 DEF Queues
  <2>2. CASE m = l
    BY <1>12, <1>21, <2>2
  <2>3. CASE m # l
    <3>1. (pending[m] # None => At(pending[m], "lock", m))'
      <4>1. pending[m] # None => pending[m] \in Goroutines /\ pending[m] # g /\ pending[m] \notin W
        BY <1>1, <1>9, <1>12, <2>1 DEF TypeOK, At
      <4> QED
        BY <1>18, <1>21, <2>1, <4>1 DEF At
    <3>2. (\A h \in waiting[m] : At(h, "rlock", m))'
      <4>1. \A h \in waiting[m] : h \in Goroutines /\ h # g /\ h \notin W
        BY <1>1, <1>9, <1>12, <2>1, <2>3 DEF TypeOK, At
      <4> QED
        BY <1>18, <1>21, <2>1, <2>3, <4>1 DEF At
    <3>3. Free(m)' <=> Free(m)
      BY <1>21, <2>3 DEF Free
    <3> QED
      BY <1>21, <2>1, <2>3, <3>1, <3>2, <3>3
  <2> QED
    BY <2>2, <2>3
<1> QED
  BY <1>15, <1>20, <1>22, <1>23, <1>24, <1>25, <1>26 DEF LockInv, Fits
-----------------------------------------------------------------------------
(* The other instructions change no lock.                                  *)

LEMMA WriteKeeps == ASSUME LockInv, NEW g \in Goroutines, StepWrite(g) PROVE LockInv'
<1> DEFINE x == Head(todo[g])
<1>1. TypeOK /\ Queues
  BY DEF LockInv
<1>2. PICK held : Fits(held)
  BY DEF LockInv
<1>3. todo[g] # <<>> /\ x.do = "write"
  BY DEF StepWrite, Next1
<1>4. /\ x \in Instructions
      /\ \E j \in HeldStates : StepOK(g, x, held[g], j) /\ Runs(g, j, Tail(todo[g]))
  BY <1>2, <1>3, Executes
<1>5. PICK j \in HeldStates : StepOK(g, x, held[g], j) /\ Runs(g, j, Tail(todo[g]))
  BY <1>4
<1> HIDE DEF x
<1>6. j = held[g]
  BY <1>3, <1>5 DEF StepOK
<1>7. x.on \in Sessions /\ x.do \notin {"lock", "rlock"}
  BY <1>3, <1>4 DEF Instructions
<1>8. /\ todo' = [todo EXCEPT ![g] = Tail(todo[g])] /\ UNCHANGED <<lockVars, clients, loggedIn, link>>
      /\ room' \in [Sessions -> 0 .. Room]
  <2>1. \/ room[x.on] > 0 /\ room' = [room EXCEPT ![x.on] = @ - 1]
        \/ UNCHANGED room
    BY DEF StepWrite, On, x
  <2>2. room \in [Sessions -> 0 .. Room] /\ Room \in Nat
    BY <1>1, RoomAssumption DEF TypeOK
  <2>3. room' \in [Sessions -> 0 .. Room]
    BY <1>7, <2>1, <2>2
  <2> QED
    BY <2>3 DEF StepWrite, Rest
<1>9. [held EXCEPT ![g] = j] = held
  BY <1>2, <1>6 DEF Fits
<1>10. Looping([held EXCEPT ![g] = j])' /\ Living([held EXCEPT ![g] = j])'
  BY <1>2, <1>8, <1>9 DEF Fits, Looping, Living
<1>11. Head(todo[g]).do \notin {"lock", "rlock"}
  BY <1>7 DEF x
<1>12. (/\ clients \subseteq Sessions /\ loggedIn \subseteq Sessions
        /\ link \in [Sessions -> {"off", "up", "broken"}]
        /\ room \in [Sessions -> 0 .. Room])'
  BY <1>1, <1>8 DEF TypeOK
<1>13. UNCHANGED lockVars
  BY <1>8
<1> QED
  BY <1>2, <1>5, <1>6, <1>8, <1>10, <1>11, <1>12, <1>13, Quietly
LEMMA RangeKeeps == ASSUME LockInv, NEW g \in Goroutines, StepRange(g) PROVE LockInv'
<1> DEFINE x == Head(todo[g])
<1>1. TypeOK /\ Queues
  BY DEF LockInv
<1>2. PICK held : Fits(held)
  BY DEF LockInv
<1>3. todo[g] # <<>> /\ x.do \in {"range", "teachers", "run"}
  BY DEF StepRange, Next1
<1>4. /\ x \in Instructions
      /\ \E j \in HeldStates : StepOK(g, x, held[g], j) /\ Runs(g, j, Tail(todo[g]))
  BY <1>2, <1>3, Executes
<1>5. PICK j \in HeldStates : StepOK(g, x, held[g], j) /\ Runs(g, j, Tail(todo[g]))
  BY <1>4
<1>6. Head(todo[g]).do \notin {"lock", "rlock"}
  BY <1>3
<1>7. UNCHANGED lockVars /\ UNCHANGED <<clients, loggedIn, link, room>>
  BY DEF StepRange, sessionVars
<1>8. (/\ clients \subseteq Sessions /\ loggedIn \subseteq Sessions
       /\ link \in [Sessions -> {"off", "up", "broken"}]
       /\ room \in [Sessions -> 0 .. Room])'
  BY <1>1, <1>7 DEF TypeOK
<1>9. \/ /\ x.do = "range"
         /\ todo' = [todo EXCEPT ![g] = Instruction(x.on, Visited(x.on)) \o Tail(todo[g])]
      \/ /\ x.do \in {"teachers", "run"} /\ x.on = {}
         /\ todo' = [todo EXCEPT ![g] = Tail(todo[g])]
      \/ /\ x.do \in {"teachers", "run"}
         /\ \E c \in x.on :
                todo' = [todo EXCEPT ![g] = (Visit(c, x.do) \o Instruction(x.do, x.on \ {c})) \o Tail(todo[g])]
  BY DEF StepRange, Next1, On, Rest, Instead
<1> HIDE DEF x
<1>10. held[g] \in HeldStates /\ held[g].scope \subseteq clients
  BY <1>2, Holders
\* What g holds changes at most in its scope.
<1>11. ASSUME NEW i \in HeldStates, NEW s, Runs(g, i, s), todo' = [todo EXCEPT ![g] = s],
              i.reads = held[g].reads, i.writes = held[g].writes, i.life = held[g].life,
              i.scope \subseteq clients, i.scope # {} => i.reads = ClientsMu
       PROVE  LockInv'
  <2> DEFINE held2 == [held EXCEPT ![g] = i]
  <2>1. held2[g] = i /\ \A h \in Goroutines : h # g => held2[h] = held[h]
    BY <1>2 DEF Fits
  <2> HIDE DEF held2
  <2>2. Looping(held2)'
    BY <1>2, <1>7, <1>11, <2>1 DEF Fits, Looping
  <2>3. Living(held2)'
    BY <1>2, <1>7, <1>11, <2>1 DEF Fits, Living, Goroutines
  <2> USE DEF held2
  <2> QED
    BY <1>2, <1>6, <1>7, <1>8, <1>11, <2>2, <2>3, Quietly
<1>12. CASE /\ x.do = "range"
            /\ todo' = [todo EXCEPT ![g] = Instruction(x.on, Visited(x.on)) \o Tail(todo[g])]
  <2>1. PICK w, V : w = x.on /\ V = Visited(x.on)
    OBVIOUS
  <2>2. w \in {"teachers", "run"}
    BY <1>4, <1>12, <2>1 DEF Instructions
  <2>3. V \subseteq clients /\ V \in SUBSET Sessions
    BY <1>1, <2>1 DEF Visited, TypeOK
  <2>4. /\ held[g].reads = ClientsMu /\ held[g].writes = NoLock /\ held[g].scope = {}
        /\ j = held[g]
    BY <1>5, <1>12 DEF StepOK
  <2> DEFINE i == [held[g] EXCEPT !.scope = V]
  <2>5. i \in HeldStates /\ i.reads = held[g].reads /\ i.writes = held[g].writes /\ i.life = held[g].life /\ i.scope = V
    BY <1>10, <2>3 DEF HeldStates
  <2>6. held[g] = [i EXCEPT !.scope = {}]
    BY <1>10, <2>4 DEF HeldStates
  <2>7. [do |-> w, on |-> V] \in Instructions
    BY <2>2, <2>3 DEF Instructions
  <2> HIDE DEF i
  <2>8. StepOK(g, [do |-> w, on |-> V], i, held[g])
    BY <2>2, <2>4, <2>5, <2>6 DEF StepOK
  <2>9. Path(g, i, Instruction(w, V), held[g])
    BY <1>10, <2>5, <2>7, <2>8, InstructionPath
  <2>10. Runs(g, i, Instruction(w, V) \o Tail(todo[g]))
    BY <1>5, <2>4, <2>9, RunsAfter
  <2>11. todo' = [todo EXCEPT ![g] = Instruction(w, V) \o Tail(todo[g])]
    BY <1>12, <2>1
  <2> QED
    BY <1>11, <2>3, <2>4, <2>5, <2>10, <2>11
<1>13. CASE /\ x.do \in {"teachers", "run"} /\ x.on = {}
            /\ todo' = [todo EXCEPT ![g] = Tail(todo[g])]
  <2>1. j = [held[g] EXCEPT !.scope = {}]
    BY <1>5, <1>13 DEF StepOK
  <2>2. j.reads = held[g].reads /\ j.writes = held[g].writes /\ j.life = held[g].life /\ j.scope = {}
    BY <1>10, <2>1 DEF HeldStates
  <2> QED
    BY <1>5, <1>11, <1>13, <2>2
<1>14. ASSUME x.do \in {"teachers", "run"}, NEW c \in x.on,
              todo' = [todo EXCEPT ![g] = (Visit(c, x.do) \o Instruction(x.do, x.on \ {c})) \o Tail(todo[g])]
       PROVE  LockInv'
  <2>1. /\ x.on \subseteq held[g].scope /\ held[g].reads = ClientsMu /\ held[g].writes = NoLock
        /\ j = [held[g] EXCEPT !.scope = {}]
    BY <1>5, <1>14 DEF StepOK
  <2>2. c \in Sessions /\ x.on \ {c} \in SUBSET Sessions
    BY <1>1, <1>10, <2>1 DEF TypeOK
  <2>3. Path(g, held[g], Visit(c, x.do), held[g])
    BY <1>10, <2>1, <2>2, VisitPath
  <2>4. [do |-> x.do, on |-> x.on \ {c}] \in Instructions
    BY <1>14, <2>2 DEF Instructions
  <2>5. StepOK(g, [do |-> x.do, on |-> x.on \ {c}], held[g], j)
    BY <1>14, <2>1 DEF StepOK
  <2>6. Path(g, held[g], Instruction(x.do, x.on \ {c}), j)
    BY <1>5, <1>10, <2>4, <2>5, InstructionPath
  <2>7. Path(g, held[g], Visit(c, x.do) \o Instruction(x.do, x.on \ {c}), j)
    BY <2>3, <2>6, PathConcat
  <2>8. Runs(g, held[g], (Visit(c, x.do) \o Instruction(x.do, x.on \ {c})) \o Tail(todo[g]))
    BY <1>5, <2>7, RunsAfter
  <2> QED
    BY <1>10, <1>11, <1>14, <2>1, <2>8
<1> QED
  BY <1>9, <1>12, <1>13, <1>14

\* The other sessions are looked for under the read lock, and the script goes on under it.
LEMMA FindKeeps == ASSUME LockInv, NEW g \in Goroutines, StepFind(g) PROVE LockInv'
<1> DEFINE x == Head(todo[g])
<1>1. TypeOK /\ Queues
  BY DEF LockInv
<1>2. PICK held : Fits(held)
  BY DEF LockInv
<1>3. todo[g] # <<>> /\ x.do = "find"
  BY DEF StepFind, Next1
<1>4. PICK j \in HeldStates : StepOK(g, x, held[g], j) /\ Runs(g, j, Tail(todo[g]))
  BY <1>2, <1>3, Executes
<1>5. Head(todo[g]).do \notin {"lock", "rlock"}
  BY <1>3
<1> HIDE DEF x
<1>6. /\ g \in Sessions \ Teachers
      /\ held[g].reads = ClientsMu /\ held[g].writes = NoLock /\ held[g].scope = {} /\ held[g].life = "in"
      /\ j = [held[g] EXCEPT !.reads = NoLock]
  BY <1>3, <1>4 DEF StepOK
<1>7. held[g] \in HeldStates
  BY <1>2, Holders
<1>8. Path(g, held[g], Refused(g), j) /\ Path(g, held[g], Accepted(g), j)
  BY <1>6, <1>7, FoundPaths
<1>9. PICK s : s \in {Refused(g), Accepted(g)} /\ todo' = [todo EXCEPT ![g] = s \o Tail(todo[g])]
  BY DEF StepFind, Instead
<1>10. Runs(g, held[g], s \o Tail(todo[g]))
  BY <1>4, <1>8, <1>9, RunsAfter
<1>11. UNCHANGED lockVars /\ UNCHANGED <<clients, loggedIn, link, room>>
  BY DEF StepFind, sessionVars
<1>12. (/\ clients \subseteq Sessions /\ loggedIn \subseteq Sessions
        /\ link \in [Sessions -> {"off", "up", "broken"}]
        /\ room \in [Sessions -> 0 .. Room])'
  BY <1>1, <1>11 DEF TypeOK
<1>13. PICK i : i = held[g]
  OBVIOUS
<1>14. [held EXCEPT ![g] = i] = held
  BY <1>2, <1>13 DEF Fits
<1>15. Looping([held EXCEPT ![g] = i])' /\ Living([held EXCEPT ![g] = i])'
  BY <1>2, <1>11, <1>14 DEF Fits, Looping, Living
<1> QED
  BY <1>2, <1>5, <1>7, <1>9, <1>10, <1>11, <1>12, <1>13, <1>15, Quietly
LEMMA LoginKeeps == ASSUME LockInv, NEW g \in Sessions, StepLogin(g) PROVE LockInv'
<1> DEFINE x == Head(todo[g])
<1>1. TypeOK /\ Queues /\ g \in Goroutines
  BY DEF LockInv, Goroutines
<1>2. PICK held : Fits(held)
  BY DEF LockInv
<1>3. todo[g] # <<>> /\ x.do = "login"
  BY DEF StepLogin, Next1
<1>4. PICK j \in HeldStates : StepOK(g, x, held[g], j) /\ Runs(g, j, Tail(todo[g]))
  BY <1>1, <1>2, <1>3, Executes
<1>5. Head(todo[g]).do \notin {"lock", "rlock"}
  BY <1>3
<1> HIDE DEF x
<1>6. held[g] \in HeldStates
  BY <1>1, <1>2, Holders
<1>7. todo' = [todo EXCEPT ![g] = Tail(todo[g])] /\ UNCHANGED lockVars
  BY DEF StepLogin, Rest
<1>8. (/\ clients \subseteq Sessions /\ loggedIn \subseteq Sessions
       /\ link \in [Sessions -> {"off", "up", "broken"}]
       /\ room \in [Sessions -> 0 .. Room])'
  BY <1>1 DEF TypeOK, StepLogin
<1>9. j = held[g]
  BY <1>3, <1>4 DEF StepOK
<1>10. clients' = clients /\ link' = link /\ [held EXCEPT ![g] = j] = held
  BY <1>2, <1>9 DEF StepLogin, Fits
<1>11. Looping([held EXCEPT ![g] = j])' /\ Living([held EXCEPT ![g] = j])'
  BY <1>2, <1>10 DEF Fits, Looping, Living
<1> QED
  BY <1>1, <1>2, <1>4, <1>5, <1>7, <1>8, <1>9, <1>11, Quietly

LEMMA AddKeeps == ASSUME LockInv, NEW g \in Sessions, StepAdd(g) PROVE LockInv'
<1> DEFINE x == Head(todo[g])
<1>1. TypeOK /\ Queues /\ g \in Goroutines
  BY DEF LockInv, Goroutines
<1>2. PICK held : Fits(held)
  BY DEF LockInv
<1>3. todo[g] # <<>> /\ x.do = "add"
  BY DEF StepAdd, Next1
<1>4. PICK j \in HeldStates : StepOK(g, x, held[g], j) /\ Runs(g, j, Tail(todo[g]))
  BY <1>1, <1>2, <1>3, Executes
<1>5. Head(todo[g]).do \notin {"lock", "rlock"}
  BY <1>3
<1> HIDE DEF x
<1>6. held[g] \in HeldStates
  BY <1>1, <1>2, Holders
<1>7. todo' = [todo EXCEPT ![g] = Tail(todo[g])] /\ UNCHANGED lockVars
  BY DEF StepAdd, Rest
<1>8. (/\ clients \subseteq Sessions /\ loggedIn \subseteq Sessions
       /\ link \in [Sessions -> {"off", "up", "broken"}]
       /\ room \in [Sessions -> 0 .. Room])'
  BY <1>1 DEF TypeOK, StepAdd
<1>9. /\ j.reads = held[g].reads /\ j.writes = held[g].writes /\ j.scope = held[g].scope
      /\ held[g].life = "out" /\ j.life = "in"
  <2>1. held[g].life = "out" /\ j = [held[g] EXCEPT !.life = "in"]
    BY <1>3, <1>4 DEF StepOK
  <2> QED
    BY <1>6, <2>1 DEF HeldStates
<1>10. clients' = clients \cup {g} /\ link' = link
  BY DEF StepAdd
<1> DEFINE held2 == [held EXCEPT ![g] = j]
<1>11. held2[g] = j /\ \A h \in Goroutines : h # g => held2[h] = held[h]
  BY <1>1, <1>2 DEF Fits
<1> HIDE DEF held2
<1>12. Looping(held2)'
  BY <1>2, <1>9, <1>10, <1>11 DEF Fits, Looping
<1>13. Living(held2)'
  BY <1>1, <1>2, <1>9, <1>10, <1>11 DEF Fits, Living, Goroutines
<1> USE DEF held2
<1> QED
  BY <1>1, <1>2, <1>4, <1>5, <1>7, <1>8, <1>9, <1>12, <1>13, Quietly

\* Who leaves the map has it for itself, so that nobody is in a loop over it.
LEMMA RemoveKeeps == ASSUME LockInv, NEW g \in Sessions, StepRemove(g) PROVE LockInv'
<1> DEFINE x == Head(todo[g])
<1>1. TypeOK /\ Queues /\ g \in Goroutines
  BY DEF LockInv, Goroutines
<1>2. PICK held : Fits(held)
  BY DEF LockInv
<1>3. todo[g] # <<>> /\ x.do = "remove"
  BY DEF StepRemove, Next1
<1>4. PICK j \in HeldStates : StepOK(g, x, held[g], j) /\ Runs(g, j, Tail(todo[g]))
  BY <1>1, <1>2, <1>3, Executes
<1>5. Head(todo[g]).do \notin {"lock", "rlock"}
  BY <1>3
<1> HIDE DEF x
<1>6. held[g] \in HeldStates
  BY <1>1, <1>2, Holders
<1>7. todo' = [todo EXCEPT ![g] = Tail(todo[g])] /\ UNCHANGED lockVars
  BY DEF StepRemove, Rest
<1>8. (/\ clients \subseteq Sessions /\ loggedIn \subseteq Sessions
       /\ link \in [Sessions -> {"off", "up", "broken"}]
       /\ room \in [Sessions -> 0 .. Room])'
  BY <1>1 DEF TypeOK, StepRemove
<1>9. /\ j.reads = held[g].reads /\ j.writes = held[g].writes /\ j.scope = held[g].scope
      /\ held[g].writes = ClientsMu /\ held[g].life = "in" /\ j.life = "out"
  <2>1. held[g].writes = ClientsMu /\ held[g].life = "in" /\ j = [held[g] EXCEPT !.life = "out"]
    BY <1>3, <1>4 DEF StepOK
  <2> QED
    BY <1>6, <2>1 DEF HeldStates
<1>10. clients' = clients \ {g} /\ link' = link
  BY DEF StepRemove
<1>11. \A h \in Goroutines : held[h].scope = {}
  <2>1. ClientsMu \in Locks /\ writer[ClientsMu] = g /\ g # None
    BY <1>1, <1>2, <1>9, LocksApart, Holders, NoneAssumption DEF Goroutines
  <2>2. readers[ClientsMu] = {}
    BY <1>1, <2>1 DEF Queues
  <2> SUFFICES ASSUME NEW h \in Goroutines
               PROVE  held[h].scope = {}
    OBVIOUS
  <2>3. h \in readers[ClientsMu] <=> held[h].reads = ClientsMu
    BY <1>2, <2>1, Holders
  <2>4. held[h].scope # {} => held[h].reads = ClientsMu
    BY <1>2, Holders
  <2> QED
    BY <2>2, <2>3, <2>4
<1> DEFINE held2 == [held EXCEPT ![g] = j]
<1>12. held2[g] = j /\ \A h \in Goroutines : h # g => held2[h] = held[h]
  BY <1>1, <1>2 DEF Fits
<1> HIDE DEF held2
<1>13. Looping(held2)'
  BY <1>1, <1>9, <1>11, <1>12 DEF Looping
<1>14. Living(held2)'
  BY <1>1, <1>2, <1>9, <1>10, <1>12 DEF Fits, Living, Goroutines
<1> USE DEF held2
<1> QED
  BY <1>1, <1>2, <1>4, <1>5, <1>7, <1>8, <1>9, <1>13, <1>14, Quietly

LEMMA CloseKeeps == ASSUME LockInv, NEW g \in Sessions, StepClose(g) PROVE LockInv'
<1> DEFINE x == Head(todo[g])
<1>1. TypeOK /\ Queues /\ g \in Goroutines
  BY DEF LockInv, Goroutines
<1>2. PICK held : Fits(held)
  BY DEF LockInv
<1>3. todo[g] # <<>> /\ x.do = "close"
  BY DEF StepClose, Next1
<1>4. PICK j \in HeldStates : StepOK(g, x, held[g], j) /\ Runs(g, j, Tail(todo[g]))
  BY <1>1, <1>2, <1>3, Executes
<1>5. Head(todo[g]).do \notin {"lock", "rlock"}
  BY <1>3
<1> HIDE DEF x
<1>6. held[g] \in HeldStates
  BY <1>1, <1>2, Holders
<1>7. todo' = [todo EXCEPT ![g] = Tail(todo[g])] /\ UNCHANGED lockVars
  BY DEF StepClose, Rest
<1>8. (/\ clients \subseteq Sessions /\ loggedIn \subseteq Sessions
       /\ link \in [Sessions -> {"off", "up", "broken"}]
       /\ room \in [Sessions -> 0 .. Room])'
  BY <1>1 DEF TypeOK, StepClose
<1>9. /\ j.reads = held[g].reads /\ j.writes = held[g].writes /\ j.scope = held[g].scope
      /\ held[g].life = "out" /\ j.life = "closed"
  <2>1. held[g].life = "out" /\ j = [held[g] EXCEPT !.life = "closed"]
    BY <1>3, <1>4 DEF StepOK
  <2> QED
    BY <1>6, <2>1 DEF HeldStates
<1>10. clients' = clients /\ link' = [link EXCEPT ![g] = "off"]
  BY DEF StepClose
<1>11. link'[g] = "off" /\ \A c \in Sessions : c # g => link'[c] = link[c]
  BY <1>1, <1>10 DEF TypeOK
<1> DEFINE held2 == [held EXCEPT ![g] = j]
<1>12. held2[g] = j /\ \A h \in Goroutines : h # g => held2[h] = held[h]
  BY <1>1, <1>2 DEF Fits
<1> HIDE DEF held2
<1>13. Looping(held2)'
  BY <1>2, <1>9, <1>10, <1>12 DEF Fits, Looping
<1>14. Living(held2)'
  BY <1>1, <1>2, <1>9, <1>10, <1>11, <1>12 DEF Fits, Living, Goroutines
<1> USE DEF held2
<1> QED
  BY <1>1, <1>2, <1>4, <1>5, <1>7, <1>8, <1>9, <1>13, <1>14, Quietly

LEMMA StepKeeps == ASSUME LockInv, NEW g \in Goroutines, Step(g) PROVE LockInv'
\* Only a session finds, logs in, enters, leaves or closes.
<1>1. ASSUME todo[g] # <<>>, Head(todo[g]).do \in {"login", "add", "remove", "close"}
      PROVE  g \in Sessions
  <2>1. PICK held : Fits(held)
    BY DEF LockInv
  <2>2. PICK j \in HeldStates : StepOK(g, Head(todo[g]), held[g], j)
    BY <1>1, <2>1, Executes
  <2>3. PICK x : x = Head(todo[g])
    OBVIOUS
  <2> QED
    BY <1>1, <2>2, <2>3 DEF StepOK
<1>2. StepLogin(g) \/ StepAdd(g) \/ StepRemove(g) \/ StepClose(g) => g \in Sessions
  BY <1>1 DEF StepLogin, StepAdd, StepRemove, StepClose, Next1
<1> QED
  BY <1>2, RLockKeeps, RUnlockKeeps, LockKeeps, UnlockKeeps, WriteKeeps, RangeKeeps, FindKeeps,
     LoginKeeps, AddKeeps, RemoveKeeps, CloseKeeps DEF Step
-----------------------------------------------------------------------------
(* Connections, requests, and the rounds of the checkers.                  *)

\* An idle goroutine begins a script that ends with nothing held.
LEMMA Begins ==
  ASSUME LockInv, NEW held, Fits(held), NEW g \in Goroutines, todo[g] = <<>>,
         NEW s, NEW k, Path(g, held[g], s, k), k \in HeldStates, End(k),
         todo' = [todo EXCEPT ![g] = s], UNCHANGED <<lockVars, sessionVars>>
  PROVE  LockInv'
<1>1. PICK j : j = held[g]
  OBVIOUS
<1>2. j \in HeldStates /\ j.reads = held[g].reads /\ j.writes = held[g].writes
  BY <1>1, Holders
<1>3. [held EXCEPT ![g] = j] = held
  BY <1>1 DEF Fits
<1>4. Runs(g, j, s)
  BY <1>1 DEF Runs
<1>5. UNCHANGED lockVars /\ UNCHANGED <<clients, loggedIn, link, room>>
  BY DEF sessionVars
<1>6. (/\ clients \subseteq Sessions /\ loggedIn \subseteq Sessions
       /\ link \in [Sessions -> {"off", "up", "broken"}]
       /\ room \in [Sessions -> 0 .. Room])'
  BY <1>5 DEF LockInv, TypeOK
<1>7. Looping([held EXCEPT ![g] = j])' /\ Living([held EXCEPT ![g] = j])'
  BY <1>3, <1>5 DEF Fits, Looping, Living
<1> QED
  BY <1>2, <1>4, <1>5, <1>6, <1>7, Quietly

\* An idle connection that is open is in the map.
LEMMA IdleSession ==
  ASSUME LockInv, NEW held, Fits(held), NEW c \in Sessions, todo[c] = <<>>
  PROVE  /\ c \in Goroutines /\ held[c] \in HeldStates /\ Nothing(held[c])
         /\ link[c] # "off" => held[c].life = "in"
         /\ link[c] = "off" => held[c].life = "closed"
<1>1. c \in Goroutines
  BY DEF Goroutines
<1>2. held[c] \in HeldStates /\ Nothing(held[c]) /\ held[c].life # "out"
  BY <1>1, IdleState
<1>3. held[c].life \in {"out", "in", "closed"}
  BY <1>2 DEF HeldStates
<1>4. held[c].life = "closed" <=> link[c] = "off"
  BY DEF Fits, Living
<1> QED
  BY <1>1, <1>2, <1>3, <1>4

LEMMA ConnectKeeps == ASSUME LockInv, NEW c \in Sessions, Connect(c) PROVE LockInv'
<1>1. TypeOK /\ c \in Goroutines
  BY DEF LockInv, Goroutines
<1>2. PICK held : Fits(held)
  BY DEF LockInv
<1>3. todo[c] = <<>> /\ link[c] = "off"
  BY DEF Connect
<1>4. held[c] \in HeldStates /\ Nothing(held[c]) /\ held[c].life = "closed"
  BY <1>2, <1>3, IdleSession
<1> DEFINE script == Lock(ClientsMu) \o Instruction("add", c) \o Unlock(ClientsMu)
           j == [held[c] EXCEPT !.life = "out"]
           k == [j EXCEPT !.life = "in"]
<1>5. /\ j \in HeldStates /\ Nothing(j) /\ j.life = "out" /\ k \in HeldStates /\ End(k)
      /\ j.reads = held[c].reads /\ j.writes = held[c].writes /\ j.scope = held[c].scope
  BY <1>4 DEF HeldStates, Nothing, End
<1> HIDE DEF j
<1>6. Runs(c, j, script)
  BY <1>5, ConnectPath DEF Runs
<1>7. /\ todo' = [todo EXCEPT ![c] = script] /\ UNCHANGED lockVars
      /\ clients' = clients /\ link' = [link EXCEPT ![c] = "up"]
  BY DEF Connect
<1> HIDE DEF script
<1>8. (/\ clients \subseteq Sessions /\ loggedIn \subseteq Sessions
       /\ link \in [Sessions -> {"off", "up", "broken"}]
       /\ room \in [Sessions -> 0 .. Room])'
  BY <1>1, RoomAssumption DEF TypeOK, Connect
<1>9. link'[c] = "up" /\ \A d \in Sessions : d # c => link'[d] = link[d]
  BY <1>1, <1>7 DEF TypeOK
<1> DEFINE held2 == [held EXCEPT ![c] = j]
<1>10. held2[c] = j /\ \A h \in Goroutines : h # c => held2[h] = held[h]
  BY <1>1, <1>2 DEF Fits
<1> HIDE DEF held2
<1>11. Looping(held2)'
  BY <1>2, <1>5, <1>7, <1>10 DEF Fits, Looping
<1>12. Living(held2)'
  <2>1. \A d \in Sessions : /\ held[d].life = "in" <=> d \in clients
                            /\ held[d].life = "closed" <=> link[d] = "off"
    BY <1>2 DEF Fits, Living
  <2> QED
    BY <1>1, <1>4, <1>5, <1>7, <1>9, <1>10, <2>1 DEF Living, Goroutines
<1> USE DEF held2
<1> QED
  BY <1>1, <1>2, <1>3, <1>5, <1>6, <1>7, <1>8, <1>11, <1>12, Quietly

LEMMA ReceiveKeeps == ASSUME LockInv, NEW c \in Sessions, Receive(c) PROVE LockInv'
<1>1. PICK held : Fits(held)
  BY DEF LockInv
<1>2. todo[c] = <<>> /\ link[c] = "up" /\ UNCHANGED <<lockVars, sessionVars>>
  BY DEF Receive
<1>3. PICK s \in Requests(c) : todo' = [todo EXCEPT ![c] = s]
  BY DEF Receive
<1>4. c \in Goroutines /\ held[c] \in HeldStates /\ Nothing(held[c]) /\ held[c].life = "in"
  BY <1>1, <1>2, IdleSession
<1>5. Path(c, held[c], s, held[c]) /\ End(held[c])
  BY <1>4, RequestPath DEF End
<1> QED
  BY <1>1, <1>2, <1>3, <1>4, <1>5, Begins

LEMMA LeaveKeeps == ASSUME LockInv, NEW c \in Sessions, Leave(c) PROVE LockInv'
<1>1. PICK held : Fits(held)
  BY DEF LockInv
<1>2. todo[c] = <<>> /\ link[c] = "broken" /\ UNCHANGED <<lockVars, sessionVars>>
  BY DEF Leave
<1>3. PICK s : /\ s \in {NotifyTeachers, <<>>}
              /\ todo' = [todo EXCEPT ![c] = s \o Leaving(c)]
  BY DEF Leave
<1>4. c \in Goroutines /\ held[c] \in HeldStates /\ Nothing(held[c]) /\ held[c].life = "in"
  BY <1>1, <1>2, IdleSession
<1>5. Path(c, held[c], s, held[c])
  BY <1>3, <1>4, NoticePaths, PathEmpty
<1> DEFINE k == [held[c] EXCEPT !.life = "closed"]
<1>6. k \in HeldStates /\ End(k)
  BY <1>4 DEF HeldStates, Nothing, End
<1>7. Path(c, held[c], Leaving(c), k)
  BY <1>4, LeavingPath
<1> HIDE DEF k
<1>8. Path(c, held[c], s \o Leaving(c), k)
  BY <1>5, <1>7, PathConcat
<1> QED
  BY <1>1, <1>2, <1>3, <1>4, <1>6, <1>8, Begins

\* What happens to a connection without its goroutine: it breaks, or its client stops
\* reading, goes on or reads.
LEMMA LinkKeeps ==
  ASSUME LockInv, NEW c \in Sessions, Break(c) \/ Drain(c)
  PROVE  LockInv'
<1>1. TypeOK /\ Queues
  BY DEF LockInv
<1>2. PICK held : Fits(held)
  BY DEF LockInv
<1>3. UNCHANGED <<todo, lockVars, clients, loggedIn>>
  BY DEF Break, Drain
<1>4. link' \in [Sessions -> {"off", "up", "broken"}]
  BY <1>1 DEF TypeOK, Break, Drain
<1>5. room' \in [Sessions -> 0 .. Room]
  <2>1. \/ room' = room
        \/ room[c] < Room /\ room' = [room EXCEPT ![c] = @ + 1]
    BY DEF Break, Drain
  <2>2. room \in [Sessions -> 0 .. Room] /\ Room \in Nat
    BY <1>1, RoomAssumption DEF TypeOK
  <2> QED
    BY <2>1, <2>2
<1>6. \A d \in Sessions : link'[d] = "off" <=> link[d] = "off"
  BY <1>1 DEF TypeOK, Break, Drain
<1>7. TypeOK'
  BY <1>1, <1>3, <1>4, <1>5 DEF TypeOK, lockVars
<1>8. Queues'
  BY <1>1, <1>3 DEF Queues, At, Free, lockVars
<1>9. Fits(held)'
  BY <1>2, <1>3, <1>6 DEF Fits, Finishing, Owning, Looping, Living, lockVars
<1> QED
  BY <1>2, <1>7, <1>8, <1>9 DEF LockInv, Fits

LEMMA DaemonKeeps ==
  ASSUME LockInv, NEW d \in Daemons, Heartbeat(d) \/ RunEnd(d) \/ ClearFlags(d)
  PROVE  LockInv'
<1>1. PICK held : Fits(held)
  BY DEF LockInv
<1>2. todo[d] = <<>> /\ UNCHANGED <<lockVars, sessionVars>> /\ d \in Goroutines
  BY DEF Heartbeat, RunEnd, ClearFlags, Goroutines
<1>3. held[d] \in HeldStates /\ Nothing(held[d]) /\ End(held[d])
  BY <1>1, <1>2, IdleState DEF End
<1>4. PICK s : Path(d, held[d], s, held[d]) /\ todo' = [todo EXCEPT ![d] = s]
  <2>1. CASE Heartbeat(d)
    <3>1. PICK p \in People : \E check \in CheckState(p) :
            todo' = [todo EXCEPT ![d] = RLock(CheatingMu) \o RUnlock(CheatingMu) \o check]
      BY <2>1 DEF Heartbeat
    <3>2. PICK check \in CheckState(p) :
            todo' = [todo EXCEPT ![d] = RLock(CheatingMu) \o RUnlock(CheatingMu) \o check]
      BY <3>1
    <3> QED
      BY <1>3, <3>2, CheckPath
  <2>2. CASE RunEnd(d)
    BY <1>3, <2>2, NoticePaths DEF RunEnd
  <2>3. CASE ClearFlags(d)
    <3> DEFINE find == RLock(CheatingMu) \o RUnlock(CheatingMu)
               clear(p) == find \o Section(StateMu(p)) \o Section(StateMu(p))
    <3>1. PICK s \in {find} \cup {clear(p) : p \in People} : todo' = [todo EXCEPT ![d] = s]
      BY <2>3 DEF ClearFlags
    <3>2. Path(d, held[d], find, held[d]) /\ \A p \in People : Path(d, held[d], clear(p), held[d])
      BY <1>3, NoticePaths, ClearPath
    <3> HIDE DEF find, clear
    <3> QED
      BY <3>1, <3>2
  <2> QED
    BY <2>1, <2>2, <2>3
<1> QED
  BY <1>1, <1>2, <1>3, <1>4, Begins

LEMMA NextKeeps == LockInv /\ [Next]_vars => LockInv'
<1> SUFFICES ASSUME LockInv, [Next]_vars
             PROVE  LockInv'
  OBVIOUS
<1>1. CASE \E g \in Goroutines : Step(g)
  BY <1>1, StepKeeps
<1>2. CASE \E c \in Sessions :
             Connect(c) \/ Receive(c) \/ Leave(c) \/ Break(c) \/ Drain(c)
  BY <1>2, ConnectKeeps, ReceiveKeeps, LeaveKeeps, LinkKeeps
<1>3. CASE \E d \in Daemons : Heartbeat(d) \/ RunEnd(d) \/ ClearFlags(d)
  BY <1>3, DaemonKeeps
<1>4. CASE UNCHANGED vars
  <2>1. UNCHANGED <<todo, lockVars, readers, writer, pending, waiting, clients, loggedIn, link, room>>
    BY <1>4 DEF vars, lockVars, sessionVars
  <2>2. TypeOK' /\ Queues'
    BY <2>1 DEF LockInv, TypeOK, Queues, At, Free
  <2>3. \A held : Fits(held) => Fits(held)'
    BY <2>1 DEF Fits, Finishing, Owning, Looping, Living
  <2> QED
    BY <2>2, <2>3 DEF LockInv
<1> QED
  BY <1>1, <1>2, <1>3, <1>4 DEF Next

LEMMA LocksInv == Spec => []LockInv
  BY InitLocks, NextKeeps, PTL DEF Spec
-----------------------------------------------------------------------------
(* What follows from it.                                                   *)

LEMMA WaitsOn ==
  ASSUME NEW g, NEW q \in WaitsFor(g)
  PROVE  /\ todo[g] # <<>> /\ Head(todo[g]).do \in {"rlock", "lock"}
         /\ \/ q = writer[On(g)] \/ q = pending[On(g)]
            \/ Head(todo[g]).do = "lock" /\ q \in readers[On(g)]
         /\ Head(todo[g]).do = "lock" /\ pending[On(g)] = g => q \in readers[On(g)]
<1>1. todo[g] # <<>>
  BY DEF WaitsFor
<1> DEFINE do == Head(todo[g]).do
           l == On(g)
<1>2. q \in CASE do = "rlock" /\ ~Free(l) -> {writer[l], pending[l]} \ {None}
              [] do = "lock" /\ pending[l] = g -> readers[l]
              [] do = "lock" /\ pending[l] # g -> (readers[l] \cup {writer[l], pending[l]}) \ {None}
              [] OTHER -> {}
  BY <1>1 DEF WaitsFor
<1> HIDE DEF do, l
<1>3. CASE do = "rlock" /\ ~Free(l)
  <2>1. q \in {writer[l], pending[l]} \ {None}
    BY <1>2, <1>3
  <2> QED
    BY <1>1, <1>3, <2>1 DEF do, l
<1>4. CASE do = "lock" /\ pending[l] = g
  <2>1. q \in readers[l]
    BY <1>2, <1>4
  <2> QED
    BY <1>1, <1>4, <2>1 DEF do, l
<1>5. CASE do = "lock" /\ pending[l] # g
  <2>1. q \in (readers[l] \cup {writer[l], pending[l]}) \ {None}
    BY <1>2, <1>5
  <2> QED
    BY <1>1, <1>5, <2>1 DEF do, l
<1>6. CASE ~(do = "rlock" /\ ~Free(l)) /\ do # "lock"
  <2>1. q \in {}
    BY <1>2, <1>6
  <2> QED
    BY <2>1
<1> QED
  BY <1>3, <1>4, <1>5, <1>6

\* Who is at a lock holds none for itself, and none at all when the lock is an outer one.
LEMMA AtLock ==
  ASSUME NEW held, Fits(held), NEW g \in Goroutines, todo[g] # <<>>, Head(todo[g]).do \in {"rlock", "lock"}
  PROVE  /\ On(g) \in Locks /\ held[g].writes = NoLock
         /\ Head(todo[g]).do = "rlock" => On(g) \in Outer
         /\ On(g) \in Outer => held[g].reads = NoLock
<1>1. PICK j \in HeldStates : StepOK(g, Head(todo[g]), held[g], j)
  BY Executes
<1>2. PICK x : x = Head(todo[g])
  OBVIOUS
<1>3. x.do \in {"rlock", "lock"} /\ StepOK(g, x, held[g], j) /\ On(g) = x.on
  BY <1>1, <1>2 DEF On
<1>4. /\ x.do = "lock" => x.on \in Locks /\ held[g].writes = NoLock /\ (x.on \in Outer => held[g].reads = NoLock)
      /\ x.do = "rlock" => x.on \in Outer /\ held[g].writes = NoLock /\ held[g].reads = NoLock
  BY <1>3 DEF StepOK
<1> QED
  BY <1>2, <1>3, <1>4, LocksApart DEF Outer

\* Take a set of goroutines each of which waits for one of the set.  None holds a lock for
\* itself, for who does waits for none; so none waits for an inner lock, which only such a
\* one can hold.  All are at outer locks then, and hold none: they can only wait for a
\* writer among them that waits for readers, and readers are not among them.
LEMMA LocksNoCircle == LockInv => NoCircularWait
<1> SUFFICES ASSUME LockInv, NEW G \in (SUBSET Goroutines) \ {{}}
             PROVE  \E g \in G : [h \in Goroutines |-> WaitsFor(h)][g] \cap G = {}
  BY Zenon DEF NoCircularWait
<1> SUFFICES ASSUME \A g \in G : WaitsFor(g) \cap G # {}
             PROVE  FALSE
  <2>1. \A g \in G : [h \in Goroutines |-> WaitsFor(h)][g] = WaitsFor(g)
    OBVIOUS
  <2> QED
    BY <2>1
<1>1. PICK held : Fits(held)
  BY DEF LockInv
<1>2. ASSUME NEW g \in G
      PROVE  \E q \in G : q \in WaitsFor(g)
  OBVIOUS
<1>3. ASSUME NEW g \in G
      PROVE  /\ todo[g] # <<>> /\ Head(todo[g]).do \in {"rlock", "lock"}
             /\ On(g) \in Locks /\ held[g].writes = NoLock
             /\ On(g) \in Outer => held[g].reads = NoLock
  <2>1. PICK q : q \in WaitsFor(g)
    BY <1>2
  <2> QED
    BY <1>1, <2>1, WaitsOn, AtLock
<1>4. ASSUME NEW g \in G, NEW l \in Locks
      PROVE  writer[l] # g
  BY <1>1, <1>3, Holders, LocksApart
<1>5. ASSUME NEW g \in G
      PROVE  On(g) \in Outer
  <2> SUFFICES ASSUME On(g) \notin Outer
               PROVE  FALSE
    OBVIOUS
  <2>1. PICK q \in G : q \in WaitsFor(g)
    BY <1>2
  <2>2. q # writer[On(g)]
    BY <1>3, <1>4
  <2>3. pending[On(g)] = None
    BY <1>3 DEF LockInv, Queues
  <2>4. q \notin readers[On(g)]
    BY <1>1, <1>3, LocksApart, Holders DEF HeldStates
  <2>5. q # None
    BY NoneAssumption DEF Goroutines
  <2> QED
    BY <2>1, <2>2, <2>3, <2>4, <2>5, WaitsOn
<1>6. ASSUME NEW g \in G, NEW l \in Locks
      PROVE  g \notin readers[l]
  BY <1>1, <1>3, <1>5, Holders, LocksApart
<1>7. PICK g \in G : g \in G
  <2>1. G # {}
    OBVIOUS
  <2>2. \E g \in G : g \in G
    BY <2>1
  <2> QED
    BY <2>2
<1>8. PICK q \in G : q \in WaitsFor(g)
  BY <1>2
<1>9. On(g) \in Locks /\ pending[On(g)] = q
  BY <1>3, <1>4, <1>6, <1>8, WaitsOn
<1>10. q # None
  BY NoneAssumption DEF Goroutines
<1>11. Head(todo[q]).do = "lock" /\ On(q) = On(g)
  <2>1. At(q, "lock", On(g))
    BY <1>9, <1>10 DEF LockInv, Queues
  <2>2. PICK l : l = On(g)
    OBVIOUS
  <2>3. Head(todo[q]) = [do |-> "lock", on |-> l]
    BY <2>1, <2>2 DEF At
  <2> QED
    BY <2>2, <2>3 DEF On
<1>12. PICK r \in G : r \in WaitsFor(q)
  BY <1>2
<1>13. r \in readers[On(g)]
  BY <1>9, <1>11, <1>12, WaitsOn
<1> QED
  BY <1>6, <1>9, <1>13

LEMMA LocksIdle == LockInv => IdleHoldsNothing
<1> SUFFICES ASSUME LockInv, NEW g \in Goroutines, todo[g] = <<>>, NEW l \in Locks
             PROVE  g \notin readers[l] \cup waiting[l] /\ g # writer[l]
  BY DEF IdleHoldsNothing
<1>1. PICK held : Fits(held)
  BY DEF LockInv
<1>2. held[g].reads = NoLock /\ held[g].writes = NoLock
  BY <1>1, IdleState DEF Nothing
<1>3. g \notin readers[l] /\ g # writer[l]
  BY <1>1, <1>2, Holders, LocksApart
<1>4. g \notin waiting[l]
  BY DEF LockInv, Queues, At
<1> QED
  BY <1>3, <1>4

LEMMA LocksWrite == LockInv => NoWriteAfterClose
<1> SUFFICES ASSUME LockInv, NEW g \in Goroutines, Next1(g, "write")
             PROVE  link[On(g)] # "off"
  BY DEF NoWriteAfterClose
<1>1. PICK held : Fits(held)
  BY DEF LockInv
<1>2. /\ Head(todo[g]) \in Instructions
      /\ \E j \in HeldStates : StepOK(g, Head(todo[g]), held[g], j)
  BY <1>1, Executes DEF Next1
<1>3. PICK j \in HeldStates : StepOK(g, Head(todo[g]), held[g], j)
  BY <1>2
<1>4. PICK x : x = Head(todo[g])
  OBVIOUS
<1>5. x \in Instructions /\ x.do = "write" /\ StepOK(g, x, held[g], j) /\ On(g) = x.on
  BY <1>2, <1>3, <1>4 DEF Next1, On
<1>6. x.on \in Sessions
  BY <1>5 DEF Instructions
<1>7. (x.on = g /\ held[g].life # "closed") \/ x.on \in held[g].scope
  BY <1>5 DEF StepOK
<1>8. held[g].scope \subseteq clients
  BY <1>1, Holders
<1>9. /\ held[x.on].life = "in" <=> x.on \in clients
      /\ held[x.on].life = "closed" <=> link[x.on] = "off"
  BY <1>1, <1>6 DEF Fits, Living
<1> QED
  BY <1>5, <1>7, <1>8, <1>9

-----------------------------------------------------------------------------
(* Theorems.                                                               *)

\* Every goroutine has only instructions of the backend to do, every lock is held and
\* waited for by goroutines, and a socket's buffers hold what fits in them.
THEOREM LocksTypeCorrect == Spec => []TypeOK
<1>1. LockInv => TypeOK
  BY DEF LockInv
<1> QED
  BY <1>1, LocksInv, PTL

\* However many sessions, students and checkers there are and however their notices and
\* logins interleave, goroutines do not wait for each other in a circle: the read locks
\* under which notices are written, the locks of the sockets and those of the states are
\* taken in an order that excludes it.
THEOREM NoDeadlock == Spec => []NoCircularWait
  BY LocksNoCircle, LocksInv, PTL

\* No path through a handler, a refusal or an early return included, leaves a lock taken.
THEOREM LocksReleased == Spec => []IdleHoldsNothing
  BY LocksIdle, LocksInv, PTL

\* A notice goes to a pointer taken from the map under the read lock, and a connection
\* leaves the map, under the write lock, before it is closed: nothing is written to it then.
THEOREM WritesBeforeClose == Spec => []NoWriteAfterClose
  BY LocksWrite, LocksInv, PTL
=============================================================================
