------------------------ MODULE TeacherMonitorProofs ------------------------
(***************************************************************************)
(* Proofs about TeacherMonitor, for any number of pages, flags and notices *)
(* on their way: what a settled page is owed is shown, is on its way to    *)
(* it, or is something a goroutine of the backend has still to tell.       *)
(***************************************************************************)
EXTENDS TeacherMonitor, SequenceTheorems, TLAPS

Tells(notice, n) == IF n = 0 THEN notice.what = "ended" ELSE notice.what = "flag" /\ n \in notice.ids

\* Instruction x is going to tell n: it is a notice of n, or it is about the flags f from
\* where they were counted on, and n is one of those.
Owed(x, f, n) ==
    \/ x.do = "tell" /\ Tells(x.notice, n)
    \/ x.do \in {"compare", "flags"} /\ \E k \in 1 .. Len(f) : x.before < k /\ f[k] = n

Kept(s, f, n) == \E x \in Range(s) : Owed(x, f, n)

Promised(n) == \E g \in Goroutines : Kept(todo[g], cs.flags, n)

\* Page record q shows n or is going to.
Shown(q, n) == IF n = 0 THEN q.ended ELSE \E i \in DOMAIN q.flags : n \in q.flags[i]

Seen(q, n) == Shown(q, n) \/ \E notice \in Range(q.inbox) : Tells(notice, n)

\* What counts flags comes last, so that nothing to be told is given up with it.
Last == {"event", "update", "compare", "flags"}
Shape(s) == \A i \in 1 .. Len(s) : s[i].do \in Last => i = Len(s)

Shapes == \A g \in Goroutines : Shape(todo[g])
Unsettled == \A p \in Pages : ~Settled(p) => since[p] = {}
Awaited == \A p \in Pages : \A n \in since[p] : Seen(page[p], n) \/ Promised(n)

MonitorInv == TypeOK /\ Shapes /\ Unsettled /\ Awaited

-----------------------------------------------------------------------------
(* Sequences of instructions.                                              *)

LEMMA RangeTail ==
  ASSUME NEW S, NEW s \in Seq(S), s # <<>>
  PROVE  /\ Head(s) \in S /\ Tail(s) \in Seq(S)
         /\ Range(s) = {Head(s)} \cup Range(Tail(s))
<1>1. /\ Head(s) \in S /\ Tail(s) \in Seq(S) /\ Head(s) = s[1]
      /\ Len(Tail(s)) = Len(s) - 1 /\ Len(s) \in Nat \ {0}
      /\ \A i \in 1 .. Len(Tail(s)) : Tail(s)[i] = s[i + 1]
  BY HeadTailProperties, EmptySeq
<1>2. /\ Range(s) = {s[i] : i \in 1 .. Len(s)}
      /\ Range(Tail(s)) = {Tail(s)[i] : i \in 1 .. Len(Tail(s))}
  <2>1. Range(s) = {s[i] : i \in 1 .. Len(s)}
    BY RangeEquality
  <2> DEFINE t == Tail(s)
  <2>2. t \in Seq(S)
    BY <1>1
  <2> HIDE DEF t
  <2>3. Range(t) = {t[i] : i \in 1 .. Len(t)}
    BY <2>2, RangeEquality
  <2> QED
    BY <2>1, <2>3 DEF t
<1>3. ASSUME NEW i \in 1 .. Len(s)
      PROVE  s[i] \in {Head(s)} \cup Range(Tail(s))
  <2>1. CASE i = 1
    BY <1>1, <2>1
  <2>2. CASE i # 1
    <3>1. i - 1 \in 1 .. Len(Tail(s)) /\ (i - 1) + 1 = i
      BY <1>1, <2>2
    <3>2. Tail(s)[i - 1] = s[i]
      BY <1>1, <3>1
    <3> QED
      BY <1>2, <3>1, <3>2
  <2> QED
    BY <2>1, <2>2
<1>4. ASSUME NEW i \in 1 .. Len(Tail(s))
      PROVE  Tail(s)[i] \in Range(s)
  <2>1. i + 1 \in 1 .. Len(s) /\ Tail(s)[i] = s[i + 1]
    BY <1>1
  <2> QED
    BY <1>2, <2>1
<1>5. Head(s) \in Range(s)
  BY <1>1, <1>2
<1> QED
  BY <1>1, <1>2, <1>3, <1>4, <1>5

LEMMA RangeOne ==
  ASSUME NEW S, NEW x \in S
  PROVE  <<x>> \in Seq(S) /\ Range(<<x>>) = {x} /\ Len(<<x>>) = 1
<1>1. <<x>> \in Seq(S) /\ Len(<<x>>) = 1 /\ <<x>>[1] = x
  OBVIOUS
<1>2. Range(<<x>>) = {<<x>>[i] : i \in 1 .. 1}
  BY <1>1, RangeEquality
<1> QED
  BY <1>1, <1>2

LEMMA RangeNone == Range(<<>>) = {} /\ \A S : <<>> \in Seq(S)
  BY EmptySeq DEF Range

\* The parts of a sequence that is longer by one.
LEMMA RangeAppend ==
  ASSUME NEW S, NEW s \in Seq(S), NEW x \in S
  PROVE  Append(s, x) \in Seq(S) /\ Range(Append(s, x)) = Range(s) \cup {x}
<1>1. Append(s, x) = s \o <<x>> /\ Append(s, x) \in Seq(S)
  BY AppendIsConcat, AppendProperties
<1>2. Range(s \o <<x>>) = Range(s) \cup Range(<<x>>)
  <2> DEFINE t == <<x>>
  <2>1. t \in Seq(S)
    BY RangeOne
  <2> HIDE DEF t
  <2>2. Range(s \o t) = Range(s) \cup Range(t)
    BY <2>1, RangeConcatenation
  <2> QED
    BY <2>2 DEF t
<1> QED
  BY <1>1, <1>2, RangeOne

LEMMA KeptTail ==
  ASSUME NEW s \in Seq(Instruction), s # <<>>, NEW f, NEW n, Kept(s, f, n)
  PROVE  Owed(Head(s), f, n) \/ Kept(Tail(s), f, n)
  BY RangeTail DEF Kept

LEMMA KeptConcat ==
  ASSUME NEW s \in Seq(Instruction), NEW t \in Seq(Instruction), NEW f, NEW n
  PROVE  s \o t \in Seq(Instruction) /\ (Kept(s \o t, f, n) <=> Kept(s, f, n) \/ Kept(t, f, n))
<1>1. s \o t \in Seq(Instruction)
  BY ConcatProperties
<1>2. Range(s \o t) = Range(s) \cup Range(t)
  BY RangeConcatenation
<1> QED
  BY <1>1, <1>2 DEF Kept

LEMMA KeptOne ==
  ASSUME NEW x \in Instruction, NEW f, NEW n
  PROVE  <<x>> \in Seq(Instruction) /\ (Kept(<<x>>, f, n) <=> Owed(x, f, n))
  BY RangeOne DEF Kept

LEMMA KeptNone == \A f, n : ~Kept(<<>>, f, n)
  BY RangeNone DEF Kept

\* More flags do not make less to be told.
LEMMA KeptLonger ==
  ASSUME NEW s, NEW f \in Seq(Flags), NEW f2 \in Seq(Flags), NEW n, Kept(s, f, n)
  PROVE  Kept(s, f \o f2, n)
<1>1. /\ Len(f \o f2) = Len(f) + Len(f2) /\ Len(f) \in Nat /\ Len(f2) \in Nat
      /\ \A i \in 1 .. Len(f) : (f \o f2)[i] = f[i]
  BY ConcatProperties, LenProperties
<1>2. \A k \in 1 .. Len(f) : k \in 1 .. Len(f \o f2)
  BY <1>1
<1> QED
  BY <1>1, <1>2 DEF Kept, Owed

LEMMA ShapeTail ==
  ASSUME NEW s \in Seq(Instruction), s # <<>>, Shape(s)
  PROVE  Shape(Tail(s)) /\ (Head(s).do \in Last => Tail(s) = <<>>)
<1>1. /\ Tail(s) \in Seq(Instruction) /\ Head(s) = s[1]
      /\ Len(Tail(s)) = Len(s) - 1 /\ Len(s) \in Nat \ {0}
      /\ \A i \in 1 .. Len(Tail(s)) : Tail(s)[i] = s[i + 1]
  BY HeadTailProperties, EmptySeq
<1>2. Shape(Tail(s))
  <2> SUFFICES ASSUME NEW i \in 1 .. Len(Tail(s)), Tail(s)[i].do \in Last
               PROVE  i = Len(Tail(s))
    BY DEF Shape
  <2>1. i + 1 \in 1 .. Len(s) /\ s[i + 1].do \in Last
    BY <1>1
  <2>2. i + 1 = Len(s)
    BY <2>1 DEF Shape
  <2>3. Len(Tail(s)) = Len(s) - 1 /\ Len(s) \in Nat
    BY <1>1
  <2> QED
    BY <2>2, <2>3
<1>3. ASSUME Head(s).do \in Last
      PROVE  Tail(s) = <<>>
  <2>3. 1 \in 1 .. Len(s) /\ s[1].do \in Last
    BY <1>1, <1>3
  <2>1. Len(s) = 1
    BY <2>3 DEF Shape
  <2>2. Len(Tail(s)) = 0
    BY <1>1, <2>1
  <2> QED
    BY <1>1, <2>2, EmptySeq
<1> QED
  BY <1>2, <1>3

LEMMA ShapeConcat ==
  ASSUME NEW s \in Seq(Instruction), NEW t \in Seq(Instruction),
         \A x \in Range(s) : x.do \notin Last, Shape(t)
  PROVE  Shape(s \o t)
<1>1. /\ Len(s \o t) = Len(s) + Len(t) /\ Len(s) \in Nat /\ Len(t) \in Nat
      /\ \A i \in 1 .. Len(s) + Len(t) : (s \o t)[i] = IF i <= Len(s) THEN s[i] ELSE t[i - Len(s)]
  BY ConcatProperties, LenProperties
<1> SUFFICES ASSUME NEW i \in 1 .. Len(s) + Len(t), (s \o t)[i].do \in Last
             PROVE  i = Len(s) + Len(t)
  BY <1>1 DEF Shape
<1>2. CASE i <= Len(s)
  <2>1. i \in 1 .. Len(s) /\ (s \o t)[i] = s[i]
    BY <1>1, <1>2
  <2>2. s[i] \in Range(s)
    BY <2>1, RangeEquality
  <2> QED
    BY <2>1, <2>2
<1>3. CASE ~(i <= Len(s))
  <2>1. i - Len(s) \in 1 .. Len(t) /\ (s \o t)[i] = t[i - Len(s)]
    BY <1>1, <1>3
  <2>2. i - Len(s) = Len(t)
    BY <2>1 DEF Shape
  <2> QED
    BY <1>1, <2>2
<1> QED
  BY <1>2, <1>3

LEMMA ShapeOne == (\A x : Shape(<<x>>)) /\ Shape(<<>>)
<1>1. \A x : Len(<<x>>) = 1
  OBVIOUS
<1>2. Len(<<>>) = 0
  BY EmptySeq
<1> QED
  BY <1>1, <1>2 DEF Shape

LEMMA ConcatNone == \A S : \A s \in Seq(S) : s \o <<>> = s /\ <<>> \o s = s
  BY ConcatEmptySeq
-----------------------------------------------------------------------------
(* Pages.                                                                  *)

LEMMA SeenMore ==
  ASSUME NEW q \in Page, NEW notice \in Notice
  PROVE  LET q2 == [q EXCEPT !.inbox = Append(@, notice)]
         IN  /\ q2 \in Page /\ q2.socket = q.socket /\ q2.request = q.request
             /\ \A n : Seen(q, n) \/ Tells(notice, n) => Seen(q2, n)
<1> DEFINE q2 == [q EXCEPT !.inbox = Append(@, notice)]
<1>1. q.inbox \in Seq(Notice)
  BY DEF Page
<1>2. /\ Append(q.inbox, notice) \in Seq(Notice)
      /\ Range(Append(q.inbox, notice)) = Range(q.inbox) \cup {notice}
  BY <1>1, RangeAppend
<1>3. /\ q2 \in Page /\ q2.socket = q.socket /\ q2.request = q.request
      /\ q2.inbox = Append(q.inbox, notice) /\ q2.flags = q.flags /\ q2.ended = q.ended
  BY <1>2 DEF Page
<1> HIDE DEF q2
<1>4. \A n : Seen(q, n) \/ Tells(notice, n) => Seen(q2, n)
  BY <1>2, <1>3 DEF Seen, Shown
<1> QED
  BY <1>3, <1>4 DEF q2

LEMMA SeenMerged ==
  ASSUME NEW q \in Page, q.inbox # <<>>
  PROVE  LET q2 == Merged([q EXCEPT !.inbox = Tail(@)], Head(q.inbox))
         IN  /\ q2 \in Page /\ q2.socket = q.socket /\ q2.request = q.request
             /\ \A n : Seen(q, n) => Seen(q2, n)
<1> DEFINE q1 == [q EXCEPT !.inbox = Tail(@)]
           notice == Head(q.inbox)
           q2 == Merged(q1, notice)
<1>1. q.inbox \in Seq(Notice)
  BY DEF Page
<1>2. /\ notice \in Notice /\ Tail(q.inbox) \in Seq(Notice)
      /\ Range(q.inbox) = {notice} \cup Range(Tail(q.inbox))
  BY <1>1, RangeTail
<1>3. /\ q1 \in Page /\ q1.socket = q.socket /\ q1.request = q.request
      /\ q1.inbox = Tail(q.inbox) /\ q1.flags = q.flags /\ q1.ended = q.ended
  BY <1>2 DEF Page
<1> HIDE DEF q1
<1>4. \A n : Seen(q, n) => Seen(q1, n) \/ Tells(notice, n)
  BY <1>2, <1>3 DEF Seen, Shown
<1> HIDE DEF notice
<1>5. CASE notice.what = "flag"
  <2>1. notice.ids \in SUBSET Flags /\ notice.what # "ended"
    BY <1>2, <1>5 DEF Notice
  <2>2. q2 = [q1 EXCEPT !.flags = Append(q1.flags, notice.ids)]
    BY <1>5 DEF Merged, WithFlag
  <2>3. q1.flags \in Seq(SUBSET Flags)
    BY <1>3 DEF Page
  <2>4. /\ Append(q1.flags, notice.ids) \in Seq(SUBSET Flags)
        /\ Len(Append(q1.flags, notice.ids)) = Len(q1.flags) + 1
        /\ \A i \in 1 .. Len(q1.flags) : Append(q1.flags, notice.ids)[i] = q1.flags[i]
        /\ Append(q1.flags, notice.ids)[Len(q1.flags) + 1] = notice.ids
        /\ Len(q1.flags) \in Nat
    BY <2>1, <2>3, AppendProperties, LenProperties
  <2>5. /\ q2 \in Page /\ q2.socket = q1.socket /\ q2.request = q1.request
        /\ q2.inbox = q1.inbox /\ q2.flags = Append(q1.flags, notice.ids) /\ q2.ended = q1.ended
    BY <1>3, <2>2, <2>4 DEF Page
  <2> HIDE DEF q2
  <2>6. DOMAIN q1.flags = 1 .. Len(q1.flags) /\ DOMAIN q2.flags = 1 .. Len(q1.flags) + 1
    BY <2>3, <2>4, <2>5, LenProperties
  <2>7. \A n : Shown(q1, n) => Shown(q2, n)
    BY <2>4, <2>5, <2>6 DEF Shown
  <2>8. \A n : Tells(notice, n) => Shown(q2, n)
    <3>1. Len(q1.flags) + 1 \in DOMAIN q2.flags /\ q2.flags[Len(q1.flags) + 1] = notice.ids
      BY <2>4, <2>5, <2>6
    <3> QED
      BY <1>5, <2>1, <3>1 DEF Shown, Tells
  <2>9. \A n : Seen(q, n) => Seen(q2, n)
    BY <1>4, <2>5, <2>7, <2>8 DEF Seen
  <2> QED
    BY <1>3, <2>5, <2>9 DEF q2, notice, q1
<1>6. CASE notice.what = "ended"
  <2>1. q2 = [q1 EXCEPT !.ended = TRUE]
    BY <1>6 DEF Merged, WithEnd
  <2>2. /\ q2 \in Page /\ q2.socket = q1.socket /\ q2.request = q1.request
        /\ q2.inbox = q1.inbox /\ q2.flags = q1.flags /\ q2.ended = TRUE
    BY <1>3, <2>1 DEF Page
  <2> HIDE DEF q2
  <2>3. \A n : Tells(notice, n) => n = 0
    BY <1>6 DEF Tells
  <2>4. \A n : Seen(q, n) => Seen(q2, n)
    BY <1>4, <2>2, <2>3 DEF Seen, Shown
  <2> QED
    BY <1>3, <2>2, <2>4 DEF q2, notice, q1
<1> QED
  BY <1>2, <1>5, <1>6 DEF Notice
-----------------------------------------------------------------------------
(* Steps of the backend.                                                   *)

BackendOK ==
    /\ status \in {"running", "finished"}
    /\ cs \in [flags : Seq(Flags), online : BOOLEAN, stale : BOOLEAN, finished : BOOLEAN]
    /\ saved \in Seq(Flags)
    /\ raised \in 0 .. MaxFlags
    /\ student \in {"out", "in", "finished"}

LEMMA TypeParts ==
  TypeOK <=> /\ BackendOK
             /\ todo \in [Goroutines -> Seq(Instruction)]
             /\ page \in [Pages -> Page]
             /\ since \in [Pages -> SUBSET (0 .. MaxFlags)]
  BY DEF TypeOK, BackendOK

LEMMA TodoKeeps ==
  ASSUME todo \in [Goroutines -> Seq(Instruction)], Shapes, NEW g \in Goroutines,
         NEW s \in Seq(Instruction), Shape(s)
  PROVE  LET t == [todo EXCEPT ![g] = s]
         IN  /\ t \in [Goroutines -> Seq(Instruction)]
             /\ \A h \in Goroutines : Shape(t[h])
  BY DEF Shapes

\* g has s to do now, and the flags are f.
LEMMA PromiseKeeps ==
  ASSUME todo \in [Goroutines -> Seq(Instruction)], NEW g \in Goroutines, NEW s, NEW f, NEW n,
         todo' = [todo EXCEPT ![g] = s], cs'.flags = f,
         \A h \in Goroutines : Kept(todo[h], cs.flags, n) => Kept(todo[h], f, n),
         Kept(todo[g], f, n) => Kept(s, f, n),
         Promised(n)
  PROVE  Promised(n)'
<1>1. PICK h \in Goroutines : Kept(todo[h], cs.flags, n)
  BY DEF Promised
<1>2. Kept(todo[h], f, n)
  BY <1>1
<1>3. Kept(todo'[h], f, n)
  BY <1>2
<1> QED
  BY <1>3 DEF Promised

LEMMA PromiseBegins ==
  ASSUME NEW g \in Goroutines, NEW s, NEW n, todo' = [todo EXCEPT ![g] = s],
         todo \in [Goroutines -> Seq(Instruction)], Kept(s, cs'.flags, n)
  PROVE  Promised(n)'
  BY DEF Promised

\* A step of g that concerns no page and leaves the flags.
LEMMA BackendStep ==
  ASSUME MonitorInv, NEW g \in Goroutines, NEW s \in Seq(Instruction), Shape(s),
         todo' = [todo EXCEPT ![g] = s], cs'.flags = cs.flags, UNCHANGED <<page, since>>,
         \A n : Kept(todo[g], cs.flags, n) => Kept(s, cs.flags, n),
         BackendOK'
  PROVE  MonitorInv'
<1>1. /\ todo \in [Goroutines -> Seq(Instruction)] /\ Shapes
      /\ page \in [Pages -> Page] /\ since \in [Pages -> SUBSET (0 .. MaxFlags)]
  BY DEF MonitorInv, TypeOK
<1>2. /\ todo' \in [Goroutines -> Seq(Instruction)]
      /\ \A h \in Goroutines : Shape(todo'[h])
  BY <1>1, TodoKeeps
<1>3. TypeOK'
  BY <1>1, <1>2 DEF BackendOK, TypeOK
<1>4. Shapes'
  BY <1>2 DEF Shapes
<1>5. Unsettled'
  BY DEF MonitorInv, Unsettled, Settled
<1>6. \A n : Promised(n) => Promised(n)'
  BY <1>1, PromiseKeeps
<1>7. Awaited'
  BY <1>6 DEF MonitorInv, Awaited
<1> QED
  BY <1>3, <1>4, <1>5, <1>7 DEF MonitorInv

\* What is at the head of a todo, and what comes after it.
LEMMA AtHead ==
  ASSUME MonitorInv, NEW g \in Goroutines, todo[g] # <<>>
  PROVE  /\ Head(todo[g]) \in Instruction /\ Tail(todo[g]) \in Seq(Instruction)
         /\ Shape(Tail(todo[g])) /\ (Head(todo[g]).do \in Last => Tail(todo[g]) = <<>>)
         /\ \A f, n : Kept(todo[g], f, n) => Owed(Head(todo[g]), f, n) \/ Kept(Tail(todo[g]), f, n)
<1>1. todo[g] \in Seq(Instruction) /\ Shape(todo[g])
  BY DEF MonitorInv, TypeOK, Shapes
<1> QED
  BY <1>1, RangeTail, ShapeTail, KeptTail

LEMMA SaveKeeps == ASSUME MonitorInv, NEW g \in Goroutines, StepSave(g) PROVE MonitorInv'
<1>1. todo[g] # <<>> /\ Head(todo[g]).do = "save"
  BY DEF StepSave, Next1
<1> DEFINE s == Tail(todo[g])
<1>2. /\ s \in Seq(Instruction) /\ Shape(s)
      /\ \A n : Kept(todo[g], cs.flags, n) => Kept(s, cs.flags, n)
  BY <1>1, AtHead DEF Owed
<1>3. todo' = [todo EXCEPT ![g] = s]
  BY <1>2, ConcatNone DEF StepSave, Instead
<1>4. BackendOK' /\ cs' = cs /\ UNCHANGED <<page, since>>
  BY DEF StepSave, MonitorInv, TypeOK, BackendOK
<1> HIDE DEF s
<1> QED
  BY <1>2, <1>3, <1>4, BackendStep

LEMMA EventKeeps == ASSUME MonitorInv, NEW g \in Goroutines, StepEvent(g) PROVE MonitorInv'
<1>1. todo[g] # <<>> /\ Head(todo[g]).do = "event"
  BY DEF StepEvent, Next1
<1>2. /\ Tail(todo[g]) = <<>> /\ \A n : ~Kept(todo[g], cs.flags, n)
  BY <1>1, AtHead, KeptNone DEF Owed, Last
<1>3. [do |-> "update", before |-> Len(cs.flags)] \in Instruction
  BY LenProperties DEF MonitorInv, TypeOK, Instruction
<1>4. PICK s \in Seq(Instruction) : Shape(s) /\ todo' = [todo EXCEPT ![g] = s]
  <2> DEFINE s == IF status = "running" /\ student = "in"
                  THEN <<[do |-> "update", before |-> Len(cs.flags)]>> ELSE <<>>
  <2>1. s \in Seq(Instruction) /\ Shape(s)
    BY <1>3, RangeOne, RangeNone, ShapeOne
  <2>2. todo' = [todo EXCEPT ![g] = s \o Tail(todo[g])]
    BY DEF StepEvent, Instead
  <2> HIDE DEF s
  <2> QED
    BY <1>2, <2>1, <2>2, ConcatNone
<1>5. BackendOK' /\ cs' = cs /\ UNCHANGED <<page, since>>
  BY DEF StepEvent, MonitorInv, TypeOK, BackendOK, studentVars
<1> QED
  BY <1>2, <1>4, <1>5, BackendStep

\* What follows the first b elements of a sequence (StepFlags' slice of flags).
LEMMA TailFrom == ASSUME NEW S, NEW q \in Seq(S), NEW b \in Nat, b <= Len(q)
                  PROVE  /\ SubSeq(q, b + 1, Len(q)) \in Seq(S)
                         /\ Len(SubSeq(q, b + 1, Len(q))) = Len(q) - b
                         /\ \A i \in 1 .. Len(SubSeq(q, b + 1, Len(q))) :
                               SubSeq(q, b + 1, Len(q))[i] = q[b + i]
<1>1. Len(q) \in Nat
  BY LenProperties
<1>2. \A i \in b + 1 .. Len(q) : q[i] \in S
  BY <1>1, ElementOfSeq
<1>3. b + 1 \in Int /\ Len(q) \in Int
  BY <1>1
<1>4. /\ SubSeq(q, b + 1, Len(q)) \in Seq(S)
      /\ Len(SubSeq(q, b + 1, Len(q))) = IF b + 1 <= Len(q) THEN Len(q) - (b + 1) + 1 ELSE 0
      /\ \A i \in 1 .. Len(q) - (b + 1) + 1 : SubSeq(q, b + 1, Len(q))[i] = q[(b + 1) + i - 1]
  <2> DEFINE m == b + 1
             n == Len(q)
  <2>1. m \in Int /\ n \in Int /\ \A i \in m .. n : q[i] \in S
    BY <1>2, <1>3
  <2> HIDE DEF m, n
  <2>2. /\ SubSeq(q, m, n) \in Seq(S)
        /\ Len(SubSeq(q, m, n)) = IF m <= n THEN n - m + 1 ELSE 0
        /\ \A i \in 1 .. n - m + 1 : SubSeq(q, m, n)[i] = q[m + i - 1]
    BY <2>1, SubSeqProperties
  <2> QED
    BY <2>2, Zenon DEF m, n
<1>5. Len(SubSeq(q, b + 1, Len(q))) = Len(q) - b
  BY <1>1, <1>4
<1>6. \A i \in 1 .. Len(q) - b : i \in 1 .. Len(q) - (b + 1) + 1 /\ (b + 1) + i - 1 = b + i
  BY <1>1
<1> QED
  BY <1>4, <1>5, <1>6, Zenon

\* The flags from before on are told now, each by a notice of its own.
LEMMA FlagsKeeps == ASSUME MonitorInv, NEW g \in Goroutines, StepFlags(g) PROVE MonitorInv'
<1>1. todo[g] # <<>> /\ Head(todo[g]).do = "flags"
  BY DEF StepFlags, Next1
<1>2. Tail(todo[g]) = <<>> /\ Head(todo[g]) \in Instruction
  BY <1>1, AtHead DEF Last
<1> DEFINE before == Head(todo[g]).before
           new == SubSeq(cs.flags, before + 1, Len(cs.flags))
           s == [i \in 1 .. Len(new) |-> Tell(FlagNotice({new[i]}))[1]]
<1>3. \/ before <= Len(cs.flags) /\ todo' = [todo EXCEPT ![g] = s \o Tail(todo[g])]
      \/ before > Len(cs.flags) /\ todo' = [todo EXCEPT ![g] = <<>>]
  BY DEF StepFlags, Instead
<1>4. before \in Nat
  BY <1>1, <1>2 DEF Instruction
<1>5. ASSUME NEW n, Kept(todo[g], cs.flags, n)
      PROVE  \E k \in 1 .. Len(cs.flags) : before < k /\ cs.flags[k] = n
  <2>1. Owed(Head(todo[g]), cs.flags, n)
    BY <1>1, <1>2, <1>5, AtHead, KeptNone
  <2> QED
    BY <1>1, <2>1 DEF Owed
<1>6. cs.flags \in Seq(Flags) /\ Len(cs.flags) \in Nat
  BY LenProperties DEF MonitorInv, TypeOK
<1>7. BackendOK' /\ cs' = cs /\ UNCHANGED <<page, since>>
  BY DEF StepFlags, MonitorInv, TypeOK, BackendOK
<1> HIDE DEF before, s
<1>8. CASE before > Len(cs.flags) /\ todo' = [todo EXCEPT ![g] = <<>>]
  <2>1. \A n : ~Kept(todo[g], cs.flags, n)
    BY <1>4, <1>5, <1>6, <1>8
  <2> QED
    BY <1>7, <1>8, <2>1, RangeNone, ShapeOne, BackendStep
<1>9. CASE before <= Len(cs.flags) /\ todo' = [todo EXCEPT ![g] = s \o Tail(todo[g])]
  <2>2. /\ new \in Seq(Flags) /\ Len(new) = Len(cs.flags) - before
        /\ \A i \in 1 .. Len(new) : new[i] = cs.flags[before + i]
    BY <1>4, <1>6, <1>9, TailFrom
  <2> HIDE DEF new
  <2>3. \A i \in 1 .. Len(new) : /\ s[i] = [do |-> "tell", notice |-> [what |-> "flag", ids |-> {new[i]}]]
                                /\ s[i] \in Instruction /\ s[i].do \notin Last
    <3> SUFFICES ASSUME NEW i \in 1 .. Len(new)
                 PROVE  /\ s[i] = [do |-> "tell", notice |-> [what |-> "flag", ids |-> {new[i]}]]
                        /\ s[i] \in Instruction /\ s[i].do \notin Last
      OBVIOUS
    <3>1. s[i] = [do |-> "tell", notice |-> [what |-> "flag", ids |-> {new[i]}]]
      BY DEF Tell, FlagNotice, s
    <3>2. {new[i]} \in SUBSET Flags
      BY <2>2, ElementOfSeq
    <3>3. [what |-> "flag", ids |-> {new[i]}] \in Notice
      BY <3>2 DEF Notice
    <3> QED
      BY <3>1, <3>3 DEF Instruction, Last
  <2>4. Len(new) \in Nat
    BY <2>2, LenProperties
  <2>5. s \in Seq(Instruction) /\ Len(s) = Len(new)
    <3>1. PICK m \in Nat : m = Len(new)
      BY <2>4
    <3>2. s \in [1 .. m -> Instruction]
      BY <2>3, <3>1 DEF s
    <3> QED
      BY <3>1, <3>2
  <2>6. Shape(s)
    BY <2>3, <2>5 DEF Shape
  <2>7. ASSUME NEW n, Kept(todo[g], cs.flags, n)
        PROVE  Kept(s, cs.flags, n)
    <3>1. PICK k \in 1 .. Len(cs.flags) : before < k /\ cs.flags[k] = n
      BY <1>5, <2>7
    <3>2. k - before \in 1 .. Len(new) /\ before + (k - before) = k
      BY <1>4, <1>6, <2>2, <3>1
    <3>3. new[k - before] = n
      BY <2>2, <3>1, <3>2
    <3>4. s[k - before] \in Range(s)
      BY <2>5, <3>2, RangeEquality
    <3>5. n # 0
      <4>1. cs.flags[k] \in Flags
        BY <1>6, <3>1, ElementOfSeq
      <4> QED
        BY <3>1, <4>1 DEF Flags
    <3>6. PICK x : x = s[k - before]
      OBVIOUS
    <3>7. x = [do |-> "tell", notice |-> [what |-> "flag", ids |-> {n}]]
      BY <2>3, <3>2, <3>3, <3>6
    <3>8. Owed(x, cs.flags, n)
      BY <3>5, <3>7 DEF Owed, Tells
    <3> QED
      BY <3>4, <3>6, <3>8 DEF Kept
  <2>8. todo' = [todo EXCEPT ![g] = s]
    BY <1>2, <1>9, <2>5, ConcatNone
  <2> QED
    BY <1>7, <2>5, <2>6, <2>7, <2>8, BackendStep
<1> QED
  BY <1>3, <1>8, <1>9
LEMMA LoginKeeps == ASSUME MonitorInv, Login PROVE MonitorInv'
<1>1. todo["session"] = <<>> /\ todo' = [todo EXCEPT !["session"] = Save] /\ "session" \in Goroutines
  BY DEF Login, Begin, Goroutines
<1>2. Save \in Seq(Instruction) /\ Shape(Save)
  BY RangeOne, ShapeOne DEF Save, Instruction
<1>3. BackendOK' /\ cs'.flags = cs.flags /\ UNCHANGED <<page, since>>
  BY DEF Login, MonitorInv, TypeOK, BackendOK
<1> QED
  BY <1>1, <1>2, <1>3, KeptNone, BackendStep

\* Steps that change neither what there is to do nor the flags, nor a page.
LEMMA IdleKeeps == ASSUME MonitorInv, Leave \/ GoStale PROVE MonitorInv'
<1>1. BackendOK' /\ cs'.flags = cs.flags /\ UNCHANGED <<todo, page, since>>
  BY DEF Leave, GoStale, MonitorInv, TypeOK, BackendOK
<1>2. TypeOK' /\ Shapes' /\ Unsettled'
  BY <1>1 DEF MonitorInv, BackendOK, TypeOK, Shapes, Unsettled, Settled
<1>3. \A n : Promised(n)' <=> Promised(n)
  BY <1>1 DEF Promised
<1>4. Awaited'
  BY <1>1, <1>3 DEF MonitorInv, Awaited
<1> QED
  BY <1>2, <1>4 DEF MonitorInv

LEMMA RaisedFlags ==
  ASSUME TypeOK, NEW n \in 1 .. 2, raised + n <= MaxFlags
  PROVE  /\ Raised(n) \in Seq(Flags) /\ Len(Raised(n)) = n
         /\ \A i \in 1 .. n : Raised(n)[i] = raised + i
         /\ Range(Raised(n)) = (raised + 1) .. (raised + n)
         /\ (raised + 1) .. (raised + n) \subseteq Flags
         /\ raised + n \in 0 .. MaxFlags
<1>1. raised \in Nat /\ MaxFlags \in Nat /\ n \in Nat
  BY BoundsAssumption DEF TypeOK
<1>2. \A i \in 1 .. n : raised + i \in Flags
  BY <1>1 DEF Flags
<1>3. Raised(n) \in [1 .. n -> Flags]
  BY <1>2 DEF Raised
<1>4. Raised(n) \in Seq(Flags) /\ Len(Raised(n)) = n
  BY <1>1, <1>3
<1>5. \A i \in 1 .. n : Raised(n)[i] = raised + i
  BY DEF Raised
<1>6. Range(Raised(n)) = {raised + i : i \in 1 .. n}
  BY <1>4, <1>5, RangeEquality
<1>7. {raised + i : i \in 1 .. n} = (raised + 1) .. (raised + n)
  <2>1. ASSUME NEW m \in (raised + 1) .. (raised + n)
        PROVE  m \in {raised + i : i \in 1 .. n}
    <3>1. m - raised \in 1 .. n /\ raised + (m - raised) = m
      BY <1>1
    <3> QED
      BY <3>1
  <2>2. \A i \in 1 .. n : raised + i \in (raised + 1) .. (raised + n)
    BY <1>1
  <2> QED
    BY <2>1, <2>2
<1>8. (raised + 1) .. (raised + n) \subseteq Flags /\ raised + n \in 0 .. MaxFlags
  BY <1>1 DEF Flags
<1> QED
  BY <1>4, <1>5, <1>6, <1>7, <1>8

\* Flags are raised, and g is going to tell them unless they are not awaited.
LEMMA RaiseStep ==
  ASSUME MonitorInv, NEW g \in Goroutines, NEW s \in Seq(Instruction), Shape(s),
         NEW n \in 1 .. 2, NEW before, Raise(n, before),
         NEW f, f = cs.flags \o Raised(n), cs'.flags = f,
         todo' = [todo EXCEPT ![g] = s], UNCHANGED page, BackendOK',
         \A m : Kept(todo[g], f, m) => Kept(s, f, m),
         before <= Len(cs.flags) => \A m \in (raised + 1) .. (raised + n) : Kept(s, f, m)
  PROVE  MonitorInv'
<1>1. /\ todo \in [Goroutines -> Seq(Instruction)] /\ Shapes /\ TypeOK
      /\ page \in [Pages -> Page] /\ since \in [Pages -> SUBSET (0 .. MaxFlags)]
      /\ cs.flags \in Seq(Flags)
  BY DEF MonitorInv, TypeOK
<1> DEFINE ids == (raised + 1) .. (raised + n)
<1>2. /\ Raised(n) \in Seq(Flags) /\ ids \subseteq Flags
  BY <1>1, RaisedFlags DEF Raise
<1>3. since' = [p \in Pages |-> IF Settled(p) /\ before <= Len(cs.flags) THEN since[p] \cup ids ELSE since[p]]
  BY DEF Raise
<1>4. Flags \subseteq 0 .. MaxFlags
  BY BoundsAssumption DEF Flags
<1> HIDE DEF ids
<1>5. since' \in [Pages -> SUBSET (0 .. MaxFlags)]
  BY <1>1, <1>2, <1>3, <1>4
<1>6. /\ todo' \in [Goroutines -> Seq(Instruction)]
      /\ \A h \in Goroutines : Shape(todo'[h])
  BY <1>1, TodoKeeps
<1>7. TypeOK' /\ Shapes'
  BY <1>1, <1>5, <1>6 DEF BackendOK, TypeOK, Shapes
<1>8. \A p \in Pages : Settled(p)' <=> Settled(p)
  BY DEF Settled
<1>9. Unsettled'
  BY <1>3, <1>8 DEF MonitorInv, Unsettled
<1>10. \A m : \A h \in Goroutines : Kept(todo[h], cs.flags, m) => Kept(todo[h], f, m)
  BY <1>1, <1>2, KeptLonger
<1>11. \A m : Promised(m) => Promised(m)'
  BY <1>1, <1>10, PromiseKeeps
<1>12. before <= Len(cs.flags) => \A m \in ids : Promised(m)'
  BY <1>1, PromiseBegins DEF ids
<1> SUFFICES ASSUME NEW p \in Pages, NEW m \in since'[p]
             PROVE  (Seen(page[p], m) \/ Promised(m))'
  BY <1>7, <1>9 DEF MonitorInv, Awaited
<1>13. CASE m \in since[p]
  BY <1>11, <1>13 DEF MonitorInv, Awaited
<1>14. CASE m \notin since[p]
  BY <1>3, <1>12, <1>14
<1> QED
  BY <1>13, <1>14

\* The notice of flags that have just been raised.
LEMMA FlagTold ==
  ASSUME TypeOK, NEW n \in 1 .. 2, raised + n <= MaxFlags, NEW f
  PROVE  LET x == [do |-> "tell", notice |-> FlagNotice(Range(Raised(n)))]
         IN  /\ x \in Instruction /\ x.do = "tell"
             /\ \A m \in (raised + 1) .. (raised + n) : Owed(x, f, m)
<1> DEFINE ids == (raised + 1) .. (raised + n)
           x == [do |-> "tell", notice |-> [what |-> "flag", ids |-> ids]]
<1>1. Range(Raised(n)) = ids /\ ids \subseteq Flags
  BY RaisedFlags
<1>2. \A m \in ids : m # 0
  BY BoundsAssumption DEF TypeOK
<1> HIDE DEF ids
<1>3. [what |-> "flag", ids |-> ids] \in Notice
  BY <1>1 DEF Notice
<1>4. x \in Instruction
  BY <1>3 DEF Instruction
<1>5. \A m \in ids : Owed(x, f, m)
  BY <1>2 DEF Owed, Tells
<1> QED
  BY <1>1, <1>4, <1>5 DEF FlagNotice, ids

LEMMA ReceiveKeeps == ASSUME MonitorInv, Receive PROVE MonitorInv'
<1>1. "session" \in Goroutines /\ TypeOK
  BY DEF Goroutines, MonitorInv
<1>2. [do |-> "event"] \in Instruction /\ [do |-> "save"] \in Instruction
  BY DEF Instruction
<1>3. CASE Begin("session", Event) /\ UNCHANGED <<cs, raised, since>> /\ UNCHANGED <<status, saved, student, page>>
  <2>1. Event \in Seq(Instruction) /\ Shape(Event)
    BY <1>2, RangeOne, ShapeOne DEF Event
  <2>2. BackendOK'
    BY <1>1, <1>3 DEF TypeOK, BackendOK
  <2>3. todo["session"] = <<>> /\ todo' = [todo EXCEPT !["session"] = Event]
    BY <1>3 DEF Begin
  <2>4. cs'.flags = cs.flags /\ UNCHANGED <<page, since>>
    BY <1>3
  <2>5. \A n : Kept(todo["session"], cs.flags, n) => Kept(Event, cs.flags, n)
    BY <2>3, KeptNone
  <2> QED
    BY <1>1, <2>1, <2>2, <2>3, <2>4, <2>5, BackendStep
<1>4. ASSUME NEW n \in 1 .. 2, Raise(n, 0), cs' = [cs EXCEPT !.flags = @ \o Raised(n)],
             Begin("session", Save \o Tell(FlagNotice(Range(Raised(n)))) \o Event),
             UNCHANGED <<status, saved, student, page>>
      PROVE  MonitorInv'
  <2> DEFINE f == cs.flags \o Raised(n)
             x == [do |-> "tell", notice |-> FlagNotice(Range(Raised(n)))]
             s == Save \o Tell(FlagNotice(Range(Raised(n)))) \o Event
  <2>1. /\ Raised(n) \in Seq(Flags) /\ raised + n \in 0 .. MaxFlags /\ raised + n <= MaxFlags /\ raised' = raised + n
    BY <1>1, <1>4, RaisedFlags DEF Raise
  <2>2. /\ f \in Seq(Flags) /\ cs.flags \in Seq(Flags)
    BY <1>1, <2>1, ConcatProperties DEF TypeOK
  <2>3. cs'.flags = f /\ BackendOK'
    BY <1>1, <1>4, <2>1, <2>2 DEF TypeOK, BackendOK
  <2>4. /\ x \in Instruction /\ x.do = "tell"
        /\ \A m \in (raised + 1) .. (raised + n) : Owed(x, f, m)
    BY <1>1, <2>1, FlagTold
  <2>5. s = (Save \o <<x>>) \o Event
    BY DEF Tell
  <2>6. /\ Save \in Seq(Instruction) /\ <<x>> \in Seq(Instruction) /\ Event \in Seq(Instruction)
        /\ Save \o <<x>> \in Seq(Instruction)
    BY <1>2, <2>4, RangeOne, ConcatProperties DEF Save, Event
  <2>7. todo["session"] = <<>> /\ todo' = [todo EXCEPT !["session"] = s]
    BY <1>4 DEF Begin
  <2> HIDE DEF x, s, f
  <2>8. s \in Seq(Instruction) /\ Shape(s)
    <3>1. Range(Save \o <<x>>) = Range(Save) \cup Range(<<x>>)
      <4> DEFINE t == <<x>>
      <4>1. t \in Seq(Instruction) /\ Save \in Seq(Instruction)
        BY <2>6
      <4> HIDE DEF t
      <4>2. Range(Save \o t) = Range(Save) \cup Range(t)
        BY <4>1, RangeConcatenation
      <4> QED
        BY <4>2 DEF t
    <3>2. Range(Save) = {[do |-> "save"]} /\ Range(<<x>>) = {x}
      BY <1>2, <2>4, RangeOne DEF Save
    <3>3. \A y \in Range(Save \o <<x>>) : y.do \notin Last
      BY <2>4, <3>1, <3>2 DEF Last
    <3>4. Shape(Event)
      BY ShapeOne DEF Event
    <3> QED
      BY <2>5, <2>6, <3>3, <3>4, ShapeConcat, ConcatProperties
  <2>9. \A m : Owed(x, f, m) => Kept(s, f, m)
    BY <2>4, <2>5, <2>6, KeptConcat, KeptOne
  <2>10. f = cs.flags \o Raised(n)
    BY DEF f
  <2>11. \A m : Kept(todo["session"], f, m) => Kept(s, f, m)
    BY <2>7, KeptNone
  <2>12. \A m \in (raised + 1) .. (raised + n) : Kept(s, f, m)
    BY <2>4, <2>9
  <2>13. Raise(n, 0) /\ UNCHANGED page /\ todo' = [todo EXCEPT !["session"] = s]
    BY <1>4, <2>7
  <2> QED
    BY <1>1, <2>3, <2>8, <2>10, <2>11, <2>12, <2>13, RaiseStep
<1> QED
  BY <1>3, <1>4 DEF Receive

LEMMA HeartbeatKeeps == ASSUME MonitorInv, CheckHeartbeat PROVE MonitorInv'
<1>1. "checker" \in Goroutines /\ TypeOK /\ [do |-> "save"] \in Instruction
  BY DEF Goroutines, MonitorInv, Instruction
<1> DEFINE f == cs.flags \o Raised(1)
           x == [do |-> "tell", notice |-> FlagNotice(Range(Raised(1)))]
           s == Save \o <<x>>
<1>2. /\ Raised(1) \in Seq(Flags) /\ raised + 1 \in 0 .. MaxFlags /\ raised + 1 <= MaxFlags /\ raised' = raised + 1
  BY <1>1, RaisedFlags DEF CheckHeartbeat, Raise
<1>3. f \in Seq(Flags)
  BY <1>1, <1>2, ConcatProperties DEF TypeOK
<1>4. cs'.flags = f /\ BackendOK'
  BY <1>1, <1>2, <1>3 DEF TypeOK, BackendOK, CheckHeartbeat
<1>5. /\ x \in Instruction /\ x.do = "tell"
      /\ \A m \in (raised + 1) .. (raised + 1) : Owed(x, f, m)
  BY <1>1, <1>2, FlagTold
<1>6. todo["checker"] = <<>> /\ todo' = [todo EXCEPT !["checker"] = s]
  BY DEF CheckHeartbeat, Begin, Tell
<1>7. Save \in Seq(Instruction) /\ <<x>> \in Seq(Instruction)
  BY <1>1, <1>5, RangeOne DEF Save
<1> HIDE DEF x, f
<1>8. s \in Seq(Instruction) /\ Shape(s)
  <2>1. Range(Save) = {[do |-> "save"]}
    BY <1>1, RangeOne DEF Save
  <2>2. \A y \in Range(Save) : y.do \notin Last
    BY <2>1 DEF Last
  <2> QED
    BY <1>7, <2>2, ShapeOne, ShapeConcat, ConcatProperties
<1>9. \A m : Owed(x, f, m) => Kept(s, f, m)
  BY <1>5, <1>7, KeptConcat, KeptOne
<1> HIDE DEF s
<1>10. f = cs.flags \o Raised(1)
  BY DEF f
<1>11. Raise(1, 0) /\ UNCHANGED page
  BY DEF CheckHeartbeat
<1>12. \A m : Kept(todo["checker"], f, m) => Kept(s, f, m)
  BY <1>6, KeptNone
<1>13. \A m \in (raised + 1) .. (raised + 1) : Kept(s, f, m)
  BY <1>5, <1>9
<1>14. 1 \in 1 .. 2 /\ todo' = [todo EXCEPT !["checker"] = s]
  BY <1>6
<1> QED
  BY <1>1, <1>4, <1>8, <1>10, <1>11, <1>12, <1>13, <1>14, RaiseStep
\* The flag that the event raises is the last, and so beyond what was counted before.
LEMMA UpdateKeeps == ASSUME MonitorInv, NEW g \in Goroutines, StepUpdate(g) PROVE MonitorInv'
<1> DEFINE before == Head(todo[g]).before
           compare == [do |-> "compare", before |-> before]
           s2 == <<compare>>
<1>1. todo[g] # <<>> /\ Head(todo[g]).do = "update" /\ TypeOK
  BY DEF StepUpdate, Next1, MonitorInv
<1>2. Tail(todo[g]) = <<>> /\ Head(todo[g]) \in Instruction /\ \A f, n : ~Kept(todo[g], f, n)
  BY <1>1, AtHead, KeptNone DEF Last, Owed
<1>3. before \in Nat
  BY <1>1, <1>2 DEF Instruction
<1>4. /\ \/ cs' = [cs EXCEPT !.stale = FALSE] /\ UNCHANGED <<raised, since>>
         \/ Raise(1, before) /\ cs' = [cs EXCEPT !.flags = @ \o Raised(1)]
      /\ todo' = [todo EXCEPT ![g] = s2 \o Tail(todo[g])]
      /\ UNCHANGED <<status, saved, student, page>>
  BY DEF StepUpdate, Instead
<1> HIDE DEF before
<1>5. compare \in Instruction
  BY <1>3 DEF Instruction
<1>6. s2 \in Seq(Instruction) /\ Shape(s2)
  BY <1>5, RangeOne, ShapeOne
<1>8. \A f, n : Owed(compare, f, n) => Kept(s2, f, n)
  BY <1>5, KeptOne
<1> HIDE DEF s2
<1>12. s2 \in Seq(Instruction) /\ Shape(s2) /\ todo' = [todo EXCEPT ![g] = s2]
  BY <1>2, <1>4, <1>6, ConcatNone
<1>13. CASE cs' = [cs EXCEPT !.stale = FALSE] /\ UNCHANGED <<raised, since>>
  <2>1. cs'.flags = cs.flags /\ BackendOK' /\ UNCHANGED <<page, since>>
    BY <1>1, <1>4, <1>13 DEF TypeOK, BackendOK
  <2>2. \A n : Kept(todo[g], cs.flags, n) => Kept(s2, cs.flags, n)
    BY <1>2
  <2> QED
    BY <1>12, <2>1, <2>2, BackendStep
<1>14. CASE Raise(1, before) /\ cs' = [cs EXCEPT !.flags = @ \o Raised(1)]
  <2> DEFINE f == cs.flags \o Raised(1)
  <2>1. /\ Raised(1) \in Seq(Flags) /\ Len(Raised(1)) = 1 /\ Raised(1)[1] = raised + 1
        /\ raised + 1 \in 0 .. MaxFlags /\ raised' = raised + 1
    BY <1>1, <1>14, RaisedFlags DEF Raise
  <2>2. cs.flags \in Seq(Flags) /\ Len(cs.flags) \in Nat
    BY <1>1, LenProperties DEF TypeOK
  <2>3. /\ f \in Seq(Flags) /\ Len(f) = Len(cs.flags) + 1 /\ f[Len(cs.flags) + 1] = raised + 1
    <3>1. /\ f \in Seq(Flags) /\ Len(f) = Len(cs.flags) + 1
          /\ \A i \in 1 .. Len(cs.flags) + 1 :
                f[i] = IF i <= Len(cs.flags) THEN cs.flags[i] ELSE Raised(1)[i - Len(cs.flags)]
      <4>1. /\ f \in Seq(Flags) /\ Len(f) = Len(cs.flags) + Len(Raised(1))
            /\ \A i \in 1 .. Len(cs.flags) + Len(Raised(1)) :
                  f[i] = IF i <= Len(cs.flags) THEN cs.flags[i] ELSE Raised(1)[i - Len(cs.flags)]
        <5> HIDE DEF f
        <5>1. f = cs.flags \o Raised(1)
          BY DEF f
        <5> QED
          BY <2>1, <2>2, <5>1, ConcatProperties
      <4> HIDE DEF f
      <4> QED
        BY <2>1, <4>1
    <3>2. PICK m \in Nat : m = Len(cs.flags)
      BY <2>2
    <3>3. m + 1 \in 1 .. m + 1 /\ ~(m + 1 <= m) /\ (m + 1) - m = 1
      OBVIOUS
    <3>4. f[m + 1] = Raised(1)[(m + 1) - m]
      BY <3>1, <3>2, <3>3
    <3> QED
      BY <2>1, <3>1, <3>2, <3>3, <3>4
  <2>4. cs'.flags = f /\ BackendOK'
    BY <1>1, <1>4, <1>14, <2>1, <2>3 DEF TypeOK, BackendOK
  <2>5. f = cs.flags \o Raised(1)
    OBVIOUS
  <2> HIDE DEF f
  <2>6. ASSUME before <= Len(cs.flags)
        PROVE  Kept(s2, f, raised + 1)
    <3>1. Len(cs.flags) + 1 \in 1 .. Len(f) /\ before < Len(cs.flags) + 1
      BY <1>3, <2>2, <2>3, <2>6
    <3>2. Owed(compare, f, raised + 1)
      BY <2>3, <3>1 DEF Owed
    <3> QED
      BY <1>8, <3>2
  <2>7. raised \in Nat
    BY <1>1 DEF TypeOK
  <2>8. before <= Len(cs.flags) => \A m \in (raised + 1) .. (raised + 1) : Kept(s2, f, m)
    BY <2>6, <2>7
  <2>9. \A m : Kept(todo[g], f, m) => Kept(s2, f, m)
    BY <1>2
  <2>10. UNCHANGED page /\ 1 \in 1 .. 2
    BY <1>4
  <2> QED
    BY <1>12, <1>14, <2>4, <2>5, <2>8, <2>9, <2>10, RaiseStep
<1> QED
  BY <1>4, <1>13, <1>14

\* There is something to tell only if there are more flags than were counted.
LEMMA CompareKeeps == ASSUME MonitorInv, NEW g \in Goroutines, StepCompare(g) PROVE MonitorInv'
<1> DEFINE before == Head(todo[g]).before
           flags == [do |-> "flags", before |-> before]
           script == Save \o <<flags>>
<1>1. todo[g] # <<>> /\ Head(todo[g]).do = "compare" /\ TypeOK
  BY DEF StepCompare, Next1, MonitorInv
<1>2. Tail(todo[g]) = <<>> /\ Head(todo[g]) \in Instruction
  BY <1>1, AtHead DEF Last
<1>3. before \in Nat
  BY <1>1, <1>2 DEF Instruction
<1>4. \/ Len(cs.flags) > before /\ todo' = [todo EXCEPT ![g] = script \o Tail(todo[g])]
      \/ ~(Len(cs.flags) > before) /\ todo' = [todo EXCEPT ![g] = <<>> \o Tail(todo[g])]
  BY DEF StepCompare, Instead
<1>5. BackendOK' /\ cs' = cs /\ UNCHANGED <<page, since>>
  BY DEF StepCompare, MonitorInv, TypeOK, BackendOK, studentVars
<1>6. ASSUME NEW n, Kept(todo[g], cs.flags, n)
      PROVE  \E k \in 1 .. Len(cs.flags) : before < k /\ cs.flags[k] = n
  <2>1. Owed(Head(todo[g]), cs.flags, n)
    BY <1>1, <1>2, <1>6, AtHead, KeptNone
  <2> QED
    BY <1>1, <2>1 DEF Owed
<1> HIDE DEF before
<1>7. flags \in Instruction /\ [do |-> "save"] \in Instruction
  BY <1>3 DEF Instruction
<1>8. Save \in Seq(Instruction) /\ <<flags>> \in Seq(Instruction)
  BY <1>7, RangeOne DEF Save
<1>9. script \in Seq(Instruction) /\ Shape(script)
  <2>1. Range(Save) = {[do |-> "save"]}
    BY <1>7, RangeOne DEF Save
  <2>2. \A y \in Range(Save) : y.do \notin Last
    BY <2>1 DEF Last
  <2> QED
    BY <1>8, <2>2, ShapeOne, ShapeConcat, ConcatProperties
<1>10. \A f, n : Owed(flags, f, n) => Kept(script, f, n)
  BY <1>7, <1>8, KeptConcat, KeptOne
<1>11. \A n : Kept(todo[g], cs.flags, n) => Kept(script, cs.flags, n)
  <2>1. \A n : Kept(todo[g], cs.flags, n) => Owed(flags, cs.flags, n)
    BY <1>6 DEF Owed
  <2> QED
    BY <1>10, <2>1
<1> HIDE DEF script
<1>12. CASE Len(cs.flags) > before /\ todo' = [todo EXCEPT ![g] = script \o Tail(todo[g])]
  <2>1. todo' = [todo EXCEPT ![g] = script]
    BY <1>2, <1>9, <1>12, ConcatNone
  <2> QED
    BY <1>5, <1>9, <1>11, <2>1, BackendStep
<1>13. CASE ~(Len(cs.flags) > before) /\ todo' = [todo EXCEPT ![g] = <<>> \o Tail(todo[g])]
  <2>1. todo' = [todo EXCEPT ![g] = <<>>]
    BY <1>2, <1>13, RangeNone, ConcatNone
  <2>2. Len(cs.flags) \in Nat
    BY <1>1, LenProperties DEF TypeOK
  <2>3. \A n : ~Kept(todo[g], cs.flags, n)
    BY <1>3, <1>6, <1>13, <2>2
  <2> QED
    BY <1>5, <2>1, <2>3, RangeNone, ShapeOne, BackendStep
<1> QED
  BY <1>4, <1>12, <1>13

\* A notice that was owed to a settled page is on its way to it now.
LEMMA TellKeeps == ASSUME MonitorInv, NEW g \in Goroutines, StepTell(g) PROVE MonitorInv'
<1> DEFINE notice == Head(todo[g]).notice
<1>1. todo[g] # <<>> /\ Head(todo[g]).do = "tell" /\ TypeOK
  BY DEF StepTell, Next1, MonitorInv
<1>2. /\ Head(todo[g]) \in Instruction /\ Tail(todo[g]) \in Seq(Instruction) /\ Shape(Tail(todo[g]))
      /\ \A f, n : Kept(todo[g], f, n) => Owed(Head(todo[g]), f, n) \/ Kept(Tail(todo[g]), f, n)
  BY <1>1, AtHead
<1>3. notice \in Notice
  BY <1>1, <1>2 DEF Instruction
<1>4. \A f, n : Owed(Head(todo[g]), f, n) => Tells(notice, n)
  BY <1>1 DEF Owed
<1>5. page' = [p \in Pages |->
                 IF page[p].socket = "in" THEN [page[p] EXCEPT !.inbox = Append(@, notice)] ELSE page[p]]
  BY DEF StepTell
<1>6. todo' = [todo EXCEPT ![g] = Tail(todo[g])]
  BY <1>2, ConcatNone DEF StepTell, Instead
<1>7. cs'.flags = cs.flags /\ BackendOK' /\ since' = since
  BY <1>1 DEF StepTell, TypeOK, BackendOK
<1> HIDE DEF notice
<1>8. ASSUME NEW p \in Pages
      PROVE  /\ page'[p] \in Page /\ page'[p].socket = page[p].socket /\ page'[p].request = page[p].request
             /\ \A n : Seen(page[p], n) => Seen(page'[p], n)
             /\ page[p].socket = "in" => \A n : Tells(notice, n) => Seen(page'[p], n)
  <2>1. page[p] \in Page
    BY <1>1 DEF TypeOK
  <2>2. CASE page[p].socket = "in"
    <3>1. page'[p] = [page[p] EXCEPT !.inbox = Append(@, notice)]
      BY <1>5, <2>2
    <3> DEFINE q == page[p]
               q2 == [q EXCEPT !.inbox = Append(@, notice)]
    <3>2. q \in Page
      BY <2>1
    <3> HIDE DEF q
    <3>3. /\ q2 \in Page /\ q2.socket = q.socket /\ q2.request = q.request
          /\ \A n : Seen(q, n) \/ Tells(notice, n) => Seen(q2, n)
      BY <1>3, <3>2, SeenMore
    <3> HIDE DEF q2
    <3> QED
      BY <3>1, <3>3 DEF q, q2
  <2>3. CASE page[p].socket # "in"
    BY <1>5, <2>1, <2>3
  <2> QED
    BY <2>2, <2>3
<1>9. /\ todo \in [Goroutines -> Seq(Instruction)] /\ Shapes
      /\ since \in [Pages -> SUBSET (0 .. MaxFlags)]
  BY <1>1 DEF MonitorInv, TypeOK
<1>10. /\ todo' \in [Goroutines -> Seq(Instruction)]
       /\ \A h \in Goroutines : Shape(todo'[h])
  BY <1>2, <1>6, <1>9, TodoKeeps
<1>11. TypeOK' /\ Shapes'
  <2>1. page' \in [Pages -> Page]
    BY <1>5, <1>8
  <2> QED
    BY <1>7, <1>9, <1>10, <2>1 DEF BackendOK, TypeOK, Shapes
<1>12. \A p \in Pages : Settled(p)' <=> Settled(p)
  BY <1>8 DEF Settled
<1>13. Unsettled'
  BY <1>7, <1>12 DEF MonitorInv, Unsettled
<1>14. ASSUME NEW n, Promised(n)
       PROVE  Promised(n)' \/ Tells(notice, n)
  <2>1. CASE Kept(todo[g], cs.flags, n)
    <3>1. CASE Owed(Head(todo[g]), cs.flags, n)
      BY <1>4, <3>1
    <3>2. CASE Kept(Tail(todo[g]), cs.flags, n)
      BY <1>6, <1>7, <1>9, <3>2, PromiseBegins
    <3> QED
      BY <1>2, <2>1, <3>1, <3>2
  <2>2. CASE ~Kept(todo[g], cs.flags, n)
    <3>1. PICK h \in Goroutines : Kept(todo[h], cs.flags, n)
      BY <1>14 DEF Promised
    <3>2. h # g
      BY <2>2, <3>1
    <3>3. todo'[h] = todo[h]
      BY <1>6, <1>9, <3>2
    <3> QED
      BY <1>7, <3>1, <3>3 DEF Promised
  <2> QED
    BY <2>1, <2>2
<1> SUFFICES ASSUME NEW p \in Pages, NEW n \in since'[p]
             PROVE  (Seen(page[p], n) \/ Promised(n))'
  BY <1>11, <1>13 DEF MonitorInv, Awaited
<1>15. Settled(p) /\ (Seen(page[p], n) \/ Promised(n))
  BY <1>7 DEF MonitorInv, Unsettled, Awaited
<1>16. page[p].socket = "in"
  BY <1>15 DEF Settled
<1> QED
  BY <1>8, <1>14, <1>15, <1>16
\* After a clear no page awaits a flag that was raised before.
LEMMA ClearKeeps == ASSUME MonitorInv, NEW g \in Goroutines, StepClear(g) PROVE MonitorInv'
<1>1. todo[g] # <<>> /\ Head(todo[g]).do = "clear" /\ TypeOK
  BY DEF StepClear, Next1, MonitorInv
<1>2. /\ Tail(todo[g]) \in Seq(Instruction) /\ Shape(Tail(todo[g]))
      /\ \A f, n : Kept(todo[g], f, n) => Kept(Tail(todo[g]), f, n)
  BY <1>1, AtHead DEF Owed
<1>3. /\ cs' = [cs EXCEPT !.flags = <<>>] /\ since' = [p \in Pages |-> since[p] \cap {0}]
      /\ todo' = [todo EXCEPT ![g] = Save \o Tail(todo[g])]
      /\ UNCHANGED <<status, saved, raised, student, page>>
  BY DEF StepClear, Instead
<1>4. [do |-> "save"] \in Instruction
  BY DEF Instruction
<1>5. Save \in Seq(Instruction) /\ \A y \in Range(Save) : y.do \notin Last
  <2>1. Range(Save) = {[do |-> "save"]} /\ Save \in Seq(Instruction)
    BY <1>4, RangeOne DEF Save
  <2> QED
    BY <2>1 DEF Last
<1> DEFINE s == Save \o Tail(todo[g])
<1>6. s \in Seq(Instruction) /\ Shape(s)
  BY <1>2, <1>5, ShapeConcat, ConcatProperties
<1>7. \A f, n : Kept(Tail(todo[g]), f, n) => Kept(s, f, n)
  BY <1>2, <1>5, KeptConcat
<1>8. todo' = [todo EXCEPT ![g] = s]
  BY <1>3
<1> HIDE DEF s
<1>9. /\ todo \in [Goroutines -> Seq(Instruction)] /\ Shapes
      /\ since \in [Pages -> SUBSET (0 .. MaxFlags)] /\ cs.flags \in Seq(Flags)
  BY <1>1 DEF MonitorInv, TypeOK
<1>10. /\ todo' \in [Goroutines -> Seq(Instruction)]
       /\ \A h \in Goroutines : Shape(todo'[h])
  BY <1>6, <1>8, <1>9, TodoKeeps
<1>11. TypeOK' /\ Shapes'
  <2>1. cs'.flags = <<>> /\ BackendOK'
    BY <1>1, <1>3, RangeNone DEF TypeOK, BackendOK
  <2>2. since' \in [Pages -> SUBSET (0 .. MaxFlags)]
    BY <1>3, <1>9
  <2> QED
    BY <1>1, <1>3, <1>10, <2>1, <2>2 DEF BackendOK, TypeOK, Shapes
<1>12. Unsettled'
  BY <1>3 DEF MonitorInv, Unsettled, Settled
\* The end of the run is owed by notices alone.
<1>13. ASSUME NEW t, Kept(t, cs.flags, 0)
       PROVE  Kept(t, <<>>, 0)
  <2>1. PICK x \in Range(t) : Owed(x, cs.flags, 0)
    BY <1>13 DEF Kept
  <2>2. \A k \in 1 .. Len(cs.flags) : cs.flags[k] # 0
    <3>1. \A k \in 1 .. Len(cs.flags) : cs.flags[k] \in Flags
      BY <1>9, ElementOfSeq
    <3> QED
      BY <3>1 DEF Flags
  <2>3. Owed(x, <<>>, 0)
    BY <2>1, <2>2 DEF Owed
  <2> QED
    BY <2>1, <2>3 DEF Kept
<1>14. Promised(0) => Promised(0)'
  <2>1. cs'.flags = <<>>
    BY <1>1, <1>3 DEF TypeOK
  <2>2. \A h \in Goroutines : Kept(todo[h], cs.flags, 0) => Kept(todo[h], <<>>, 0)
    BY <1>13
  <2>3. Kept(todo[g], <<>>, 0) => Kept(s, <<>>, 0)
    BY <1>2, <1>7
  <2> QED
    BY <1>8, <1>9, <2>1, <2>2, <2>3, PromiseKeeps
<1> SUFFICES ASSUME NEW p \in Pages, NEW n \in since'[p]
             PROVE  (Seen(page[p], n) \/ Promised(n))'
  BY <1>11, <1>12 DEF MonitorInv, Awaited
<1>15. n = 0 /\ n \in since[p]
  BY <1>3
<1>16. Seen(page[p], n) \/ Promised(n)
  BY <1>15 DEF MonitorInv, Awaited
<1> QED
  BY <1>3, <1>14, <1>15, <1>16

LEMMA EndRunKeeps == ASSUME MonitorInv, EndRun PROVE MonitorInv'
<1> DEFINE x == [do |-> "tell", notice |-> EndNotice]
<1>1. "end" \in Goroutines /\ TypeOK
  BY DEF Goroutines, MonitorInv
<1>2. todo["end"] = <<>> /\ todo' = [todo EXCEPT !["end"] = <<x>>] /\ UNCHANGED <<studentVars, page>>
  BY DEF EndRun, Begin, Tell
<1>3. x \in Instruction /\ \A f : Owed(x, f, 0)
  BY DEF Instruction, Notice, EndNotice, Owed, Tells
<1> HIDE DEF x
<1>4. /\ todo \in [Goroutines -> Seq(Instruction)] /\ Shapes
      /\ since \in [Pages -> SUBSET (0 .. MaxFlags)]
  BY <1>1 DEF MonitorInv, TypeOK
<1>5. /\ todo' \in [Goroutines -> Seq(Instruction)]
      /\ \A h \in Goroutines : Shape(todo'[h])
  BY <1>1, <1>2, <1>3, <1>4, RangeOne, ShapeOne, TodoKeeps
<1>6. TypeOK' /\ Shapes'
  <2>1. BackendOK'
    BY <1>1, <1>2 DEF TypeOK, BackendOK, EndRun, studentVars
  <2>2. since' = [p \in Pages |-> IF Settled(p) THEN since[p] \cup {0} ELSE since[p]]
    BY DEF EndRun
  <2>3. 0 \in 0 .. MaxFlags
    BY BoundsAssumption
  <2>4. since' \in [Pages -> SUBSET (0 .. MaxFlags)]
    BY <1>4, <2>2, <2>3
  <2> QED
    BY <1>1, <1>2, <1>5, <2>1, <2>4 DEF BackendOK, TypeOK, Shapes
<1>7. Unsettled'
  BY <1>2 DEF EndRun, MonitorInv, Unsettled, Settled
<1>8. cs' = cs
  BY <1>2 DEF studentVars
<1>9. ASSUME NEW n, Promised(n)
      PROVE  Promised(n)'
  <2>1. /\ \A h \in Goroutines : Kept(todo[h], cs.flags, n) => Kept(todo[h], cs.flags, n)
        /\ Kept(todo["end"], cs.flags, n) => Kept(<<x>>, cs.flags, n)
    BY <1>2, KeptNone
  <2>2. cs'.flags = cs.flags
    BY <1>8
  <2> QED
    BY <1>1, <1>2, <1>4, <1>9, <2>1, <2>2, PromiseKeeps
<1>10. Promised(0)'
  <2>1. Kept(<<x>>, cs'.flags, 0)
    BY <1>3, KeptOne
  <2> QED
    BY <1>1, <1>2, <1>4, <2>1, PromiseBegins
<1> SUFFICES ASSUME NEW p \in Pages, NEW n \in since'[p]
             PROVE  (Seen(page[p], n) \/ Promised(n))'
  BY <1>6, <1>7 DEF MonitorInv, Awaited
<1>11. n \in since[p] \/ n = 0
  BY DEF EndRun
<1>12. CASE n \in since[p]
  BY <1>2, <1>9, <1>12 DEF MonitorInv, Awaited
<1> QED
  BY <1>10, <1>11, <1>12

-----------------------------------------------------------------------------
(* Steps of the pages.                                                     *)

\* Page p becomes q: settled, or awaiting nothing, and showing what it awaits still.
LEMMA PageStep ==
  ASSUME MonitorInv, NEW p \in Pages, NEW q \in Page, page' = [page EXCEPT ![p] = q],
         BackendOK', todo' \in [Goroutines -> Seq(Instruction)], Shapes',
         \A n : Promised(n) => Promised(n)',
         NEW S \in SUBSET since[p], since' = [since EXCEPT ![p] = S],
         (q.request = "done" /\ q.socket = "in") \/ S = {},
         \A n \in S : Seen(page[p], n) => Seen(q, n)
  PROVE  MonitorInv'
<1>1. page \in [Pages -> Page] /\ since \in [Pages -> SUBSET (0 .. MaxFlags)]
  BY DEF MonitorInv, TypeOK
<1>2. /\ page'[p] = q /\ since'[p] = S
      /\ \A r \in Pages : r # p => page'[r] = page[r] /\ since'[r] = since[r]
  BY <1>1
<1>3. TypeOK'
  <2>1. page' \in [Pages -> Page] /\ since' \in [Pages -> SUBSET (0 .. MaxFlags)]
    BY <1>1
  <2> QED
    BY <2>1 DEF BackendOK, TypeOK
<1>4. Unsettled'
  <2> SUFFICES ASSUME NEW r \in Pages, ~Settled(r)'
               PROVE  since'[r] = {}
    BY DEF Unsettled
  <2>1. CASE r = p
    BY <1>2, <2>1 DEF Settled
  <2>2. CASE r # p
    <3>1. ~Settled(r)
      BY <1>2, <2>2 DEF Settled
    <3> QED
      BY <1>2, <2>2, <3>1 DEF MonitorInv, Unsettled
  <2> QED
    BY <2>1, <2>2
<1>5. Awaited'
  <2> SUFFICES ASSUME NEW r \in Pages, NEW n \in since'[r]
               PROVE  (Seen(page[r], n) \/ Promised(n))'
    BY DEF Awaited
  <2>1. n \in since[r] /\ (Seen(page[r], n) \/ Promised(n))
    BY <1>2 DEF MonitorInv, Awaited
  <2>2. Seen(page[r], n) => Seen(page'[r], n)
    BY <1>2
  <2> QED
    BY <2>1, <2>2
<1> QED
  BY <1>3, <1>4, <1>5 DEF MonitorInv

\* The same when the backend does nothing.
LEMMA BrowserStep ==
  ASSUME MonitorInv, NEW p \in Pages, NEW q \in Page, page' = [page EXCEPT ![p] = q],
         UNCHANGED <<status, studentVars, todo>>,
         NEW S \in SUBSET since[p], since' = [since EXCEPT ![p] = S],
         (q.request = "done" /\ q.socket = "in") \/ S = {},
         \A n \in S : Seen(page[p], n) => Seen(q, n)
  PROVE  MonitorInv'
<1>1. BackendOK' /\ todo' \in [Goroutines -> Seq(Instruction)] /\ Shapes'
  BY DEF MonitorInv, TypeOK, BackendOK, Shapes, studentVars
<1>2. \A n : Promised(n) => Promised(n)'
  BY DEF Promised, studentVars
<1> QED
  BY <1>1, <1>2, PageStep
\* The pages' steps but the request to clear; what p awaits is given up when it is left,
\* when its socket is lost, and, of the flags, when the answer to a clear is shown.
LEMMA LoadKeeps ==
  ASSUME MonitorInv, NEW p \in Pages,
         Mount(p) \/ Unmount(p) \/ Answer(p) \/ Loaded(p) \/ SocketIn(p) \/ SocketLost(p)
  PROVE  MonitorInv'
<1>1. /\ page[p] \in Page /\ saved \in Seq(Flags) /\ status \in {"running", "finished"}
      /\ since \in [Pages -> SUBSET (0 .. MaxFlags)] /\ page \in [Pages -> Page]
  BY DEF MonitorInv, TypeOK
<1>2. UNCHANGED <<status, studentVars, todo>>
  BY DEF Mount, Unmount, Answer, Loaded, SocketIn, SocketLost, PageOnly
<1>3. <<>> \in Seq(Flags) /\ <<>> \in Seq(Notice) /\ <<>> \in Seq(SUBSET Flags)
  BY RangeNone
<1>4. NoAnswer \in [status : {"running", "finished"}, flags : Seq(Flags)]
  BY <1>3 DEF NoAnswer
<1>5. Closed \in Page
  BY <1>3, <1>4 DEF Page, Closed
<1>6. ~Settled(p) => since[p] = {}
  BY DEF MonitorInv, Unsettled
<1>7. ASSUME NEW q \in Page, page' = [page EXCEPT ![p] = q], since' = [since EXCEPT ![p] = {}]
      PROVE  MonitorInv'
  <2> DEFINE S == {}
  <2>1. S \in SUBSET since[p] /\ S = {} /\ \A n \in S : Seen(page[p], n) => Seen(q, n)
    OBVIOUS
  <2>2. since' = [since EXCEPT ![p] = S]
    BY <1>7
  <2> HIDE DEF S
  <2> QED
    BY <1>2, <1>7, <2>1, <2>2, BrowserStep
<1>8. ASSUME NEW q \in Page, page' = [page EXCEPT ![p] = q], since' = since, ~Settled(p)
      PROVE  MonitorInv'
  <2>1. since' = [since EXCEPT ![p] = {}]
    BY <1>1, <1>6, <1>8
  <2> QED
    BY <1>7, <1>8, <2>1
<1>9. CASE Mount(p)
  <2>1. [Closed EXCEPT !.request = "asked", !.socket = "opening"] \in Page
    BY <1>5 DEF Page
  <2>2. ~Settled(p)
    BY <1>9 DEF Mount, Settled, Closed
  <2> QED
    BY <1>8, <1>9, <2>1, <2>2 DEF Mount, Become
<1>10. CASE Unmount(p)
  BY <1>5, <1>7, <1>10 DEF Unmount, Become
<1>11. CASE Answer(p)
  <2> DEFINE q == [page[p] EXCEPT !.request = "answered", !.answer = [status |-> status, flags |-> saved]]
  <2>1. q \in Page
    BY <1>1 DEF Page
  <2>2. ~Settled(p)
    BY <1>11 DEF Answer, Settled
  <2>3. page' = [page EXCEPT ![p] = q] /\ since' = since
    BY <1>11 DEF Answer, Become
  <2> HIDE DEF q
  <2> QED
    BY <1>8, <2>1, <2>2, <2>3
<1>12. CASE Loaded(p)
  <2> DEFINE answer == page[p].answer
             shown == [i \in DOMAIN answer.flags |-> {answer.flags[i]}]
             q == [page[p] EXCEPT
                     !.request = "done", !.answer = NoAnswer,
                     !.ended = @ \/ answer.status = "finished", !.flags = shown]
  <2>1. answer.flags \in Seq(Flags)
    BY <1>1 DEF Page
  <2>2. shown \in Seq(SUBSET Flags)
    <3>1. PICK m \in Nat : DOMAIN answer.flags = 1 .. m
      BY <2>1, LenProperties
    <3>2. \A i \in 1 .. m : {answer.flags[i]} \in SUBSET Flags
      BY <2>1, <3>1
    <3>3. shown \in [1 .. m -> SUBSET Flags]
      BY <3>1, <3>2
    <3> QED
      BY <3>1, <3>3
  <2> HIDE DEF shown
  <2>3. page[p].ended \in BOOLEAN
    BY <1>1 DEF Page
  <2>4. (page[p].ended \/ answer.status = "finished") \in BOOLEAN
    OBVIOUS
  <2>5. q \in Page
    BY <1>1, <1>4, <2>2, <2>4 DEF Page
  <2>6. page' = [page EXCEPT ![p] = q] /\ since' = since
    BY <1>12 DEF Loaded, Become, shown
  <2>7. ~Settled(p)
    BY <1>12 DEF Loaded, Settled
  <2> HIDE DEF q
  <2> QED
    BY <1>8, <2>5, <2>6, <2>7
<1>13. CASE SocketIn(p)
  <2> DEFINE q == [page[p] EXCEPT !.socket = "in"]
  <2>1. q \in Page
    BY <1>1 DEF Page
  <2>2. ~Settled(p)
    BY <1>13 DEF SocketIn, Settled
  <2>3. page' = [page EXCEPT ![p] = q] /\ since' = since
    BY <1>13 DEF SocketIn, Become
  <2> HIDE DEF q
  <2> QED
    BY <1>8, <2>1, <2>2, <2>3
<1>14. CASE SocketLost(p)
  <2> DEFINE q == [page[p] EXCEPT !.socket = "lost", !.inbox = <<>>]
  <2>1. q \in Page
    BY <1>1, <1>3 DEF Page
  <2>2. page' = [page EXCEPT ![p] = q] /\ since' = [since EXCEPT ![p] = {}]
    BY <1>14 DEF SocketLost, Become
  <2> HIDE DEF q
  <2> QED
    BY <1>7, <2>1, <2>2
<1> QED
  BY <1>9, <1>10, <1>11, <1>12, <1>13, <1>14

LEMMA DeliverKeeps == ASSUME MonitorInv, NEW p \in Pages, Deliver(p) PROVE MonitorInv'
<1> DEFINE q == Merged([page[p] EXCEPT !.inbox = Tail(@)], Head(page[p].inbox))
<1>1. page[p] \in Page /\ since \in [Pages -> SUBSET (0 .. MaxFlags)]
  BY DEF MonitorInv, TypeOK
<1>2. page[p].inbox # <<>> /\ page' = [page EXCEPT ![p] = q] /\ since' = since
  BY DEF Deliver, Become
<1>3. UNCHANGED <<status, studentVars, todo>>
  BY DEF Deliver, PageOnly
<1>4. /\ q \in Page /\ q.socket = page[p].socket /\ q.request = page[p].request
      /\ \A n : Seen(page[p], n) => Seen(q, n)
  BY <1>1, <1>2, SeenMerged
<1> HIDE DEF q
<1>5. (q.request = "done" /\ q.socket = "in") \/ since[p] = {}
  BY <1>4 DEF MonitorInv, Unsettled, Settled
<1>6. since' = [since EXCEPT ![p] = since[p]]
  BY <1>1, <1>2
<1>7. \A n \in since[p] : Seen(page[p], n) => Seen(q, n)
  BY <1>4
<1>8. since[p] \in SUBSET since[p] /\ page' = [page EXCEPT ![p] = q]
  BY <1>2
<1> QED
  BY <1>3, <1>4, <1>5, <1>6, <1>7, <1>8, BrowserStep

LEMMA ClearedKeeps == ASSUME MonitorInv, NEW p \in Pages, Cleared(p) PROVE MonitorInv'
<1> DEFINE q == [page[p] EXCEPT !.clearing = "no", !.flags = <<>>]
<1>1. page[p] \in Page /\ since \in [Pages -> SUBSET (0 .. MaxFlags)]
  BY DEF MonitorInv, TypeOK
<1>2. page' = [page EXCEPT ![p] = q] /\ since' = [since EXCEPT ![p] = since[p] \cap {0}]
  BY DEF Cleared, Become
<1>3. UNCHANGED <<status, studentVars, todo>>
  BY DEF Cleared, PageOnly
<1>4. /\ q \in Page /\ q.socket = page[p].socket /\ q.request = page[p].request
      /\ q.inbox = page[p].inbox /\ q.ended = page[p].ended
  BY <1>1, RangeNone DEF Page
<1> HIDE DEF q
<1>5. Seen(page[p], 0) => Seen(q, 0)
  BY <1>4 DEF Seen, Shown
<1>6. (q.request = "done" /\ q.socket = "in") \/ since[p] \cap {0} = {}
  BY <1>4 DEF MonitorInv, Unsettled, Settled
<1>7. \A n \in since[p] \cap {0} : Seen(page[p], n) => Seen(q, n)
  BY <1>5
<1> QED
  BY <1>2, <1>3, <1>4, <1>6, <1>7, BrowserStep

LEMMA ClearFlagsKeeps == ASSUME MonitorInv, NEW p \in Pages, ClearFlags(p) PROVE MonitorInv'
<1> DEFINE q == [page[p] EXCEPT !.clearing = "asked"]
           s == <<[do |-> "clear"], [do |-> "reply"]>>
<1>1. /\ page[p] \in Page /\ since \in [Pages -> SUBSET (0 .. MaxFlags)] /\ p \in Goroutines
      /\ todo \in [Goroutines -> Seq(Instruction)] /\ Shapes
  BY DEF MonitorInv, TypeOK, Goroutines
<1>2. /\ page' = [page EXCEPT ![p] = q] /\ since' = since
      /\ todo[p] = <<>> /\ todo' = [todo EXCEPT ![p] = s] /\ UNCHANGED <<status, studentVars>>
  BY DEF ClearFlags, Become, Begin
<1>3. /\ q \in Page /\ q.socket = page[p].socket /\ q.request = page[p].request
      /\ q.inbox = page[p].inbox /\ q.ended = page[p].ended /\ q.flags = page[p].flags
  BY <1>1 DEF Page
<1>4. s \in Seq(Instruction) /\ Shape(s)
  <2>1. [do |-> "clear"] \in Instruction /\ [do |-> "reply"] \in Instruction
    BY DEF Instruction
  <2>2. s \in Seq(Instruction) /\ Len(s) = 2 /\ s[1].do = "clear" /\ s[2].do = "reply"
    BY <2>1
  <2>3. \A i \in 1 .. 2 : i = 1 \/ i = 2
    OBVIOUS
  <2> HIDE DEF s
  <2> QED
    BY <2>2, <2>3 DEF Shape, Last
<1> HIDE DEF q, s
<1>5. BackendOK' /\ todo' \in [Goroutines -> Seq(Instruction)] /\ Shapes'
  <2>1. BackendOK'
    BY <1>2 DEF MonitorInv, TypeOK, BackendOK, studentVars
  <2> QED
    BY <1>1, <1>2, <1>4, <2>1, TodoKeeps DEF Shapes
<1>6. ASSUME NEW n, Promised(n)
      PROVE  Promised(n)'
  <2>1. /\ \A h \in Goroutines : Kept(todo[h], cs.flags, n) => Kept(todo[h], cs.flags, n)
        /\ Kept(todo[p], cs.flags, n) => Kept(s, cs.flags, n)
    BY <1>2, KeptNone
  <2>2. cs'.flags = cs.flags
    BY <1>2 DEF studentVars
  <2> QED
    BY <1>1, <1>2, <1>6, <2>1, <2>2, PromiseKeeps
<1>7. (q.request = "done" /\ q.socket = "in") \/ since[p] = {}
  BY <1>3 DEF MonitorInv, Unsettled, Settled
<1>8. since' = [since EXCEPT ![p] = since[p]]
  BY <1>1, <1>2
<1>9. \A n \in since[p] : Seen(page[p], n) => Seen(q, n)
  BY <1>3 DEF Seen, Shown
<1> QED
  BY <1>2, <1>3, <1>5, <1>6, <1>7, <1>8, <1>9, PageStep

LEMMA ReplyKeeps == ASSUME MonitorInv, NEW g \in Goroutines, StepReply(g) PROVE MonitorInv'
<1>1. todo[g] # <<>> /\ Head(todo[g]).do = "reply" /\ TypeOK
  BY DEF StepReply, Next1, MonitorInv
<1> DEFINE s == Tail(todo[g])
<1>2. /\ s \in Seq(Instruction) /\ Shape(s)
      /\ \A f, n : Kept(todo[g], f, n) => Kept(s, f, n)
  BY <1>1, AtHead DEF Owed
<1>3. todo' = [todo EXCEPT ![g] = s]
  BY <1>2, ConcatNone DEF StepReply, Instead
<1> HIDE DEF s
<1>4. /\ todo \in [Goroutines -> Seq(Instruction)] /\ Shapes /\ page \in [Pages -> Page]
      /\ since \in [Pages -> SUBSET (0 .. MaxFlags)]
  BY <1>1 DEF MonitorInv, TypeOK
<1>5. UNCHANGED <<status, studentVars, since>>
  BY DEF StepReply
<1>6. BackendOK'
  BY <1>1, <1>5 DEF TypeOK, BackendOK, studentVars
<1>7. CASE g \notin Pages
  <2>1. UNCHANGED page
    BY <1>4, <1>7 DEF StepReply
  <2> QED
    BY <1>2, <1>3, <1>5, <1>6, <2>1, BackendStep DEF studentVars
<1>8. CASE g \in Pages
  <2> DEFINE q == [page[g] EXCEPT !.clearing = IF @ = "asked" THEN "answered" ELSE @]
  <2>1. page' = [page EXCEPT ![g] = q]
    BY DEF StepReply
  <2>2. page[g] \in Page
    BY <1>4, <1>8
  <2>3. /\ q \in Page /\ q.socket = page[g].socket /\ q.request = page[g].request
        /\ q.inbox = page[g].inbox /\ q.ended = page[g].ended /\ q.flags = page[g].flags
    BY <2>2 DEF Page
  <2> HIDE DEF q
  <2>4. todo' \in [Goroutines -> Seq(Instruction)] /\ Shapes'
    BY <1>2, <1>3, <1>4, TodoKeeps DEF Shapes
  <2>5. ASSUME NEW n, Promised(n)
        PROVE  Promised(n)'
    <3>1. \A h \in Goroutines : Kept(todo[h], cs.flags, n) => Kept(todo[h], cs.flags, n)
      OBVIOUS
    <3>2. cs'.flags = cs.flags
      BY <1>5 DEF studentVars
    <3> QED
      BY <1>2, <1>3, <1>4, <2>5, <3>1, <3>2, PromiseKeeps
  <2>6. (q.request = "done" /\ q.socket = "in") \/ since[g] = {}
    BY <1>8, <2>3 DEF MonitorInv, Unsettled, Settled
  <2>7. since' = [since EXCEPT ![g] = since[g]]
    BY <1>4, <1>5
  <2>8. \A n \in since[g] : Seen(page[g], n) => Seen(q, n)
    BY <2>3 DEF Seen, Shown
  <2> QED
    BY <1>6, <1>8, <2>1, <2>3, <2>4, <2>5, <2>6, <2>7, <2>8, PageStep
<1> QED
  BY <1>7, <1>8

-----------------------------------------------------------------------------
(* Theorems.                                                               *)

LEMMA MonitorInit == Init => MonitorInv
<1> SUFFICES ASSUME Init
             PROVE  MonitorInv
  OBVIOUS
<1>1. \A S : <<>> \in Seq(S)
  BY RangeNone
<1>2. NoAnswer \in [status : {"running", "finished"}, flags : Seq(Flags)]
  BY <1>1 DEF NoAnswer
<1>3. Closed \in Page
  BY <1>1, <1>2 DEF Page, Closed
<1>4. TypeOK
  BY <1>1, <1>3, BoundsAssumption DEF Init, TypeOK
<1>5. Shapes /\ Unsettled /\ Awaited
  BY ShapeOne DEF Init, Shapes, Unsettled, Awaited
<1> QED
  BY <1>4, <1>5 DEF MonitorInv

LEMMA MonitorNext == MonitorInv /\ [Next]_vars => MonitorInv'
<1> SUFFICES ASSUME MonitorInv, [Next]_vars
             PROVE  MonitorInv'
  OBVIOUS
<1>1. ASSUME NEW g \in Goroutines, Step(g)
      PROVE  MonitorInv'
  BY <1>1, SaveKeeps, TellKeeps, EventKeeps, UpdateKeeps, CompareKeeps, FlagsKeeps, ClearKeeps, ReplyKeeps DEF Step
<1>2. CASE Login \/ Leave \/ Receive \/ GoStale \/ CheckHeartbeat \/ EndRun
  BY <1>2, LoginKeeps, IdleKeeps, ReceiveKeeps, HeartbeatKeeps, EndRunKeeps
<1>3. ASSUME NEW p \in Pages, Mount(p) \/ Unmount(p) \/ SocketLost(p) \/ ClearFlags(p) \/ Browser(p)
      PROVE  MonitorInv'
  BY <1>3, LoadKeeps, DeliverKeeps, ClearedKeeps, ClearFlagsKeeps DEF Browser
<1>4. CASE UNCHANGED vars
  <2>1. UNCHANGED <<status, cs, saved, raised, student, todo, page, since>>
    BY <1>4 DEF vars, studentVars
  <2>2. TypeOK' /\ Shapes' /\ Unsettled'
    BY <2>1 DEF MonitorInv, TypeOK, Shapes, Unsettled, Settled
  <2>3. Awaited'
    BY <2>1 DEF MonitorInv, Awaited, Promised
  <2> QED
    BY <2>2, <2>3 DEF MonitorInv
<1> QED
  BY <1>1, <1>2, <1>3, <1>4 DEF Next

LEMMA MonitorAlways == Spec => []MonitorInv
  BY MonitorInit, MonitorNext, PTL DEF Spec

\* The pages, the student's state and what the goroutines have still to do are of the
\* kinds their comments say.
THEOREM MonitorTypeCorrect == Spec => []TypeOK
<1>1. MonitorInv => TypeOK
  BY DEF MonitorInv
<1> QED
  BY <1>1, MonitorAlways, PTL

\* Of any number of pages, whenever they load, none loses a flag raised, or the end of the
\* run, after it has shown the answer and its socket has logged in: once nothing is under
\* way, each is shown, whatever the order in which notices, answers and clears arrive.
THEOREM NothingToldIsLost == Spec => []ToldIsShown
<1>1. MonitorInv => ToldIsShown
  <2> SUFFICES ASSUME MonitorInv, NEW p \in Pages, Quiet(p), NEW n \in since[p]
               PROVE  Shown(page[p], n)
    BY DEF ToldIsShown, Shown
  <2>1. Seen(page[p], n) \/ Promised(n)
    BY DEF MonitorInv, Awaited
  <2>2. ~Promised(n)
    BY KeptNone DEF Quiet, Promised
  <2>3. page[p].inbox = <<>>
    BY DEF Quiet
  <2> QED
    BY <2>1, <2>2, <2>3, RangeNone DEF Seen
<1> QED
  BY <1>1, MonitorAlways, PTL
=============================================================================
