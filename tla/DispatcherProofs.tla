--------------------------- MODULE DispatcherProofs ---------------------------
(***************************************************************************)
(* Proofs about the MAD dispatcher, for any number of MADs and workers,    *)
(* any set of delays and any bound of the clock.                           *)
(***************************************************************************)
EXTENDS Dispatcher, SequenceTheorems, FiniteSetTheorems, TLAPS

\* What concatenation returns.
LEMMA ConcatFacts ==
  ASSUME NEW S, NEW s \in Seq(S), NEW t \in Seq(S)
  PROVE  /\ s \o t \in Seq(S)
         /\ Len(s \o t) = Len(s) + Len(t)
         /\ \A i \in 1 .. Len(s) : (s \o t)[i] = s[i]
         /\ \A i \in Len(s) + 1 .. Len(s) + Len(t) : (s \o t)[i] = t[i - Len(s)]
  OBVIOUS

\* What InsertAt of SequencesExt returns.
LEMMA InsertAtProperties ==
  ASSUME NEW S, NEW q \in Seq(S), NEW e \in S, NEW p \in 1 .. Len(q) + 1
  PROVE  /\ InsertAt(q, p, e) \in Seq(S)
         /\ Len(InsertAt(q, p, e)) = Len(q) + 1
         /\ \A i \in 1 .. p - 1 : InsertAt(q, p, e)[i] = q[i]
         /\ InsertAt(q, p, e)[p] = e
         /\ \A i \in p + 1 .. Len(q) + 1 : InsertAt(q, p, e)[i] = q[i - 1]
<1> DEFINE front == SubSeq(q, 1, p - 1)
           back == SubSeq(q, p, Len(q))
           head == front \o <<e>>
           r == head \o back
<1>1. /\ front \in Seq(S)
      /\ Len(front) = p - 1
      /\ \A i \in 1 .. p - 1 : front[i] = q[i]
  OBVIOUS
<1>2. /\ back \in Seq(S)
      /\ Len(back) = Len(q) - p + 1
      /\ \A i \in 1 .. Len(q) - p + 1 : back[i] = q[p + i - 1]
  OBVIOUS
<1> HIDE DEF front, back
<1>3. /\ head \in Seq(S)
      /\ Len(head) = p
      /\ \A i \in 1 .. p - 1 : head[i] = front[i]
      /\ head[p] = e
  BY <1>1
<1> HIDE DEF head
<1>4. /\ r \in Seq(S)
      /\ Len(r) = Len(head) + Len(back)
      /\ \A i \in 1 .. Len(head) : r[i] = head[i]
      /\ \A i \in Len(head) + 1 .. Len(head) + Len(back) : r[i] = back[i - Len(head)]
  BY <1>2, <1>3, ConcatFacts
<1>5. r = InsertAt(q, p, e)
  BY DEF InsertAt, head, front, back
<1> HIDE DEF r
<1>6. ASSUME NEW i \in p + 1 .. Len(q) + 1
      PROVE  r[i] = q[i - 1]
  <2>1. i - p \in 1 .. Len(q) - p + 1 /\ p + (i - p) - 1 = i - 1
    OBVIOUS
  <2>2. r[i] = back[i - p]
    BY <1>2, <1>3, <1>4
  <2>3. back[i - p] = q[p + (i - p) - 1]
    BY <1>2, <2>1
  <2> QED
    BY <2>1, <2>2, <2>3
<1>7. /\ r \in Seq(S)
      /\ Len(r) = Len(q) + 1
      /\ \A i \in 1 .. p - 1 : r[i] = q[i]
      /\ r[p] = e
  BY <1>1, <1>2, <1>3, <1>4
<1> QED
  BY <1>5, <1>6, <1>7

\* InsertAtProperties for a queue of items: the result is again such a queue.
LEMMA InsertItem ==
  ASSUME NEW q \in Seq(Items), NEW item \in Items, NEW p \in 1 .. Len(q) + 1
  PROVE  /\ InsertAt(q, p, item) \in Seq(Items)
         /\ Len(InsertAt(q, p, item)) = Len(q) + 1
         /\ \A i \in 1 .. p - 1 : InsertAt(q, p, item)[i] = q[i]
         /\ InsertAt(q, p, item)[p] = item
         /\ \A i \in p + 1 .. Len(q) + 1 : InsertAt(q, p, item)[i] = q[i - 1]
<1>1. InsertAt(q, p, item) \in Seq(Items)
  BY InsertAtProperties
<1>2. Len(InsertAt(q, p, item)) = Len(q) + 1
  BY InsertAtProperties
<1>3. \A i \in 1 .. p - 1 : InsertAt(q, p, item)[i] = q[i]
  BY InsertAtProperties
<1>4. InsertAt(q, p, item)[p] = item
  BY InsertAtProperties
<1>5. \A i \in p + 1 .. Len(q) + 1 : InsertAt(q, p, item)[i] = q[i - 1]
  BY InsertAtProperties
<1> QED
  BY <1>1, <1>2, <1>3, <1>4, <1>5

\* Insertion keeps the items of the queue, in their order, and adds the new one.
LEMMA InsertByWakeupProperties ==
  ASSUME NEW q \in Seq(Items), NEW item \in Items
  PROVE  LET r == InsertByWakeup(q, item)
         IN  /\ r \in Seq(Items)
             /\ Len(r) = Len(q) + 1
             /\ \E p \in 1 .. Len(q) + 1 :
                  /\ \A i \in 1 .. p - 1 : r[i] = q[i]
                  /\ r[p] = item
                  /\ \A i \in p + 1 .. Len(q) + 1 : r[i] = q[i - 1]
<1> DEFINE before == {i \in DOMAIN q : q[i].wake <= item.wake}
           p == 1 + Cardinality(before)
           r == InsertAt(q, p, item)
<1>1. p \in 1 .. Len(q) + 1
  <2>1. DOMAIN q = 1 .. Len(q) /\ Len(q) \in Nat
    BY LenProperties
  <2>2. IsFiniteSet(1 .. Len(q)) /\ Cardinality(1 .. Len(q)) = Len(q)
    BY <2>1, FS_Interval, SMTT(30)
  <2>3. before \in SUBSET (1 .. Len(q))
    BY <2>1
  <2>4. IsFiniteSet(before) /\ Cardinality(before) <= Len(q)
    BY <2>2, <2>3, FS_Subset
  <2> QED
    BY <2>1, <2>4, FS_CardinalityType
<1>2. InsertByWakeup(q, item) = r
  BY DEF InsertByWakeup
<1> HIDE DEF p
<1>3. /\ r \in Seq(Items)
      /\ Len(r) = Len(q) + 1
      /\ \A i \in 1 .. p - 1 : r[i] = q[i]
      /\ r[p] = item
      /\ \A i \in p + 1 .. Len(q) + 1 : r[i] = q[i - 1]
  BY <1>1, InsertItem
<1> HIDE DEF r
<1> QED
  BY <1>1, <1>2, <1>3

-----------------------------------------------------------------------------
\* The timer thread moves a MAD only after it found one.
MoveHasMad == timer = "move" => waitQ # <<>>

\* The initial state has the types and gives the timer thread nothing to move.
LEMMA TypeInit == Init => TypeOK /\ MoveHasMad
  BY DispatcherAssumption DEF Init, TypeOK, MoveHasMad

\* Every step keeps the types and the timer thread's hold on a MAD.
LEMMA TypeStep == TypeOK /\ MoveHasMad /\ [Next]_vars => TypeOK' /\ MoveHasMad'
<1> SUFFICES ASSUME TypeOK, MoveHasMad, [Next]_vars
             PROVE  TypeOK' /\ MoveHasMad'
  OBVIOUS
<1> USE DispatcherAssumption
<1>1. ASSUME NEW m \in Mads, NEW d \in Delays, StampMad(m, d)
      PROVE  TypeOK' /\ MoveHasMad'
  BY <1>1 DEF StampMad, TypeOK, MoveHasMad, Items
<1>2. ASSUME NEW item \in stamped, InsertMad(item)
      PROVE  TypeOK' /\ MoveHasMad'
  <2>1. item \in Items /\ waitQ \in Seq(Items)
    BY DEF TypeOK
  <2>2. waitQ' \in Seq(Items)
    BY <1>2, <2>1, InsertByWakeupProperties DEF InsertMad
  <2>3. accepted' \in Seq(Items)
    BY <1>2, <2>1 DEF InsertMad, TypeOK
  <2> QED
    BY <1>2, <2>2, <2>3 DEF InsertMad, TypeOK, MoveHasMad, WakeupLockFree
<1>3. CASE TimerFindDue
  BY <1>3 DEF TimerFindDue, TypeOK, MoveHasMad
<1>4. CASE TimerWait
  <2>1. waitQ # <<>> => Head(waitQ).wake \in Nat
    <3>1. waitQ # <<>> => Head(waitQ) \in Items
      BY HeadTailProperties DEF TypeOK
    <3> QED
      BY <3>1 DEF Items
  <2>2. deadline' \in Nat
    BY <1>4, <2>1 DEF TimerWait, TypeOK
  <2> QED
    BY <1>4, <2>2 DEF TimerWait, TypeOK, MoveHasMad
<1>5. CASE TimerMove
  <2>1. waitQ # <<>> /\ waitQ \in Seq(Items)
    BY <1>5 DEF TimerMove, TypeOK, MoveHasMad
  <2>2. Head(waitQ) \in Items /\ waitQ' \in Seq(Items)
    BY <1>5, <2>1, HeadTailProperties DEF TimerMove
  <2>3. dispatchQ' \in Seq(Mads)
    BY <1>5, <2>2 DEF TimerMove, TypeOK, Items
  <2>4. /\ worker' \in [Workers -> {"test", "wait", "route"}]
        /\ \A w \in Workers : worker'[w] = worker[w] \/ worker[w] = "wait"
    BY <1>5 DEF TimerMove, SignalWorker, Sleepers, TypeOK
  <2> QED
    BY <1>5, <2>2, <2>3, <2>4 DEF TimerMove, TypeOK, MoveHasMad
<1>6. CASE TimerTimeout \/ TimerSpuriousWakeup \/ TimerResume
  BY <1>6 DEF TimerTimeout, TimerSpuriousWakeup, TimerResume, TypeOK, MoveHasMad
<1>7. ASSUME NEW w \in Workers, WorkerTake(w)
      PROVE  TypeOK' /\ MoveHasMad'
  <2>1. Head(dispatchQ) \in Mads /\ dispatchQ' \in Seq(Mads)
    BY <1>7, HeadTailProperties DEF WorkerTake, TypeOK
  <2> QED
    BY <1>7, <2>1 DEF WorkerTake, TypeOK, MoveHasMad
<1>8. ASSUME NEW w \in Workers, WorkerWait(w) \/ WorkerSpuriousWakeup(w)
      PROVE  TypeOK' /\ MoveHasMad'
  BY <1>8 DEF WorkerWait, WorkerSpuriousWakeup, TypeOK, MoveHasMad
<1>9. ASSUME NEW w \in Workers, WorkerRouted(w)
      PROVE  TypeOK' /\ MoveHasMad'
  BY <1>9 DEF WorkerRouted, TypeOK, MoveHasMad
<1>10. CASE Tick
  BY <1>10 DEF Tick, TypeOK, MoveHasMad
<1>11. CASE UNCHANGED vars
  BY <1>11 DEF vars, TypeOK, MoveHasMad
<1> QED
  BY <1>1, <1>2, <1>3, <1>4, <1>5, <1>6, <1>7, <1>8, <1>9, <1>10, <1>11
     DEF Next, TimerStep, WorkerStep

\* The variables of the dispatcher keep their types.
THEOREM TypeCorrect == Spec => []TypeOK
<1>1. Init => TypeOK /\ MoveHasMad
  BY TypeInit
<1>2. TypeOK /\ MoveHasMad /\ [Next]_vars => (TypeOK /\ MoveHasMad)'
  BY TypeStep
<1> QED
  BY <1>1, <1>2, PTL DEF Spec

-----------------------------------------------------------------------------
\* No two places of a queue of items hold the same MAD.
NoRepeatedMad(q) == \A i, j \in DOMAIN q : q[i].mad = q[j].mad => i = j
\* No two places of a queue of MADs hold the same one.
NoRepetition(q) == \A i, j \in DOMAIN q : q[i] = q[j] => i = j

\* The MADs in the sorted queue after an insertion.
LEMMA MadsAfterInsert ==
  ASSUME NEW q \in Seq(Items), NEW item \in Items
  PROVE  LET r == InsertByWakeup(q, item)
         IN  /\ MadsIn(r) = MadsIn(q) \cup {item.mad}
             /\ NoRepeatedMad(q) /\ item.mad \notin MadsIn(q) => NoRepeatedMad(r)
<1> DEFINE r == InsertByWakeup(q, item)
<1>1. PICK p \in 1 .. Len(q) + 1 :
        /\ r \in Seq(Items)
        /\ Len(r) = Len(q) + 1
        /\ \A i \in 1 .. p - 1 : r[i] = q[i]
        /\ r[p] = item
        /\ \A i \in p + 1 .. Len(q) + 1 : r[i] = q[i - 1]
  BY InsertByWakeupProperties
<1> HIDE DEF r
<1>2. Len(q) \in Nat /\ DOMAIN q = 1 .. Len(q) /\ DOMAIN r = 1 .. Len(q) + 1
  BY <1>1, LenProperties
<1>3. \A i \in DOMAIN q : i < p => i \in DOMAIN r /\ r[i] = q[i]
  BY <1>1, <1>2
<1>4. \A i \in DOMAIN q : i >= p => i + 1 \in DOMAIN r /\ r[i + 1] = q[i]
  <2> SUFFICES ASSUME NEW i \in DOMAIN q, i >= p
               PROVE  i + 1 \in DOMAIN r /\ r[i + 1] = q[i]
    OBVIOUS
  <2>1. i + 1 \in p + 1 .. Len(q) + 1 /\ i + 1 - 1 = i
    BY <1>2
  <2>2. r[i + 1] = q[i + 1 - 1]
    BY <1>1, <2>1
  <2> QED
    BY <1>2, <2>1, <2>2
<1>5. \A j \in DOMAIN r : j = p \/ (j < p /\ j \in DOMAIN q) \/ (j > p /\ j - 1 \in DOMAIN q)
  BY <1>2
<1>6. MadsIn(q) \cup {item.mad} \subseteq MadsIn(r)
  BY <1>1, <1>2, <1>3, <1>4 DEF MadsIn
<1>7. MadsIn(r) \subseteq MadsIn(q) \cup {item.mad}
  BY <1>1, <1>2, <1>5 DEF MadsIn
<1>8. ASSUME NoRepeatedMad(q), item.mad \notin MadsIn(q)
      PROVE  NoRepeatedMad(r)
  <2> SUFFICES ASSUME NEW i \in DOMAIN r, NEW j \in DOMAIN r, i < j, r[i].mad = r[j].mad
               PROVE  FALSE
    BY <1>2 DEF NoRepeatedMad
  <2>1. \A m \in DOMAIN q : q[m].mad # item.mad
    BY <1>8 DEF MadsIn
  <2>2. CASE j < p
    BY <1>1, <1>2, <1>8, <2>2 DEF NoRepeatedMad
  <2>3. CASE j = p
    <3>1. i \in DOMAIN q /\ r[i] = q[i]
      BY <1>1, <1>2, <2>3
    <3> QED
      BY <1>1, <2>1, <2>3, <3>1
  <2>4. CASE j > p /\ i = p
    <3>1. j - 1 \in DOMAIN q /\ r[j] = q[j - 1]
      BY <1>1, <1>2, <2>4
    <3> QED
      BY <1>1, <2>1, <2>4, <3>1
  <2>5. CASE j > p /\ i < p
    <3>1. j - 1 \in DOMAIN q /\ r[j] = q[j - 1] /\ i \in DOMAIN q /\ r[i] = q[i]
      BY <1>1, <1>2, <2>5
    <3>2. i = j - 1
      BY <1>8, <3>1 DEF NoRepeatedMad
    <3> QED
      BY <1>2, <2>5, <3>2
  <2>6. CASE i > p
    <3>1. j - 1 \in DOMAIN q /\ r[j] = q[j - 1] /\ i - 1 \in DOMAIN q /\ r[i] = q[i - 1]
      BY <1>1, <1>2, <2>6
    <3>2. i - 1 = j - 1
      BY <1>8, <3>1 DEF NoRepeatedMad
    <3> QED
      BY <1>2, <3>2
  <2> QED
    BY <1>2, <2>2, <2>3, <2>4, <2>5, <2>6
<1> QED
  BY <1>6, <1>7, <1>8 DEF r

\* The elements of a queue after Append, and after Head was taken from it.
LEMMA AppendElements ==
  ASSUME NEW S, NEW q \in Seq(S), NEW e \in S
  PROVE  /\ ToSet(Append(q, e)) = ToSet(q) \cup {e}
         /\ NoRepetition(q) /\ e \notin ToSet(q) => NoRepetition(Append(q, e))
<1>1. /\ Append(q, e) \in Seq(S)
      /\ DOMAIN Append(q, e) = 1 .. Len(q) + 1
      /\ \A i \in 1 .. Len(q) : Append(q, e)[i] = q[i]
      /\ Append(q, e)[Len(q) + 1] = e
      /\ DOMAIN q = 1 .. Len(q) /\ Len(q) \in Nat
  OBVIOUS
<1> QED
  BY <1>1 DEF ToSet, NoRepetition

\* What Head and Tail do to the MADs of a queue without repetition.
LEMMA TailElements ==
  ASSUME NEW S, NEW q \in Seq(S), q # <<>>
  PROVE  /\ ToSet(q) = ToSet(Tail(q)) \cup {Head(q)}
         /\ NoRepetition(q) => Head(q) \notin ToSet(Tail(q)) /\ NoRepetition(Tail(q))
<1>1. /\ Tail(q) \in Seq(S)
      /\ DOMAIN Tail(q) = 1 .. Len(q) - 1
      /\ \A i \in 1 .. Len(q) - 1 : Tail(q)[i] = q[i + 1]
      /\ Head(q) = q[1]
      /\ DOMAIN q = 1 .. Len(q) /\ Len(q) \in Nat /\ Len(q) >= 1
  BY HeadTailProperties, EmptySeq
<1>2. \A i \in DOMAIN q : i = 1 \/ (i - 1 \in DOMAIN Tail(q) /\ Tail(q)[i - 1] = q[i])
  <2> SUFFICES ASSUME NEW i \in DOMAIN q, i # 1
               PROVE  i - 1 \in DOMAIN Tail(q) /\ Tail(q)[i - 1] = q[i]
    OBVIOUS
  <2>1. i - 1 \in 1 .. Len(q) - 1 /\ i - 1 + 1 = i
    BY <1>1
  <2>2. Tail(q)[i - 1] = q[i - 1 + 1]
    BY <1>1, <2>1
  <2> QED
    BY <1>1, <2>1, <2>2
<1>3. \A i \in DOMAIN Tail(q) : i + 1 \in DOMAIN q /\ Tail(q)[i] = q[i + 1] /\ i + 1 # 1
  BY <1>1
<1>4. ToSet(q) = ToSet(Tail(q)) \cup {Head(q)}
  <2>1. 1 \in DOMAIN q
    BY <1>1
  <2>2. ToSet(q) \subseteq ToSet(Tail(q)) \cup {Head(q)}
    <3> SUFFICES ASSUME NEW i \in DOMAIN q
                 PROVE  q[i] \in ToSet(Tail(q)) \cup {Head(q)}
      BY DEF ToSet
    <3> QED
      BY <1>1, <1>2 DEF ToSet
  <2>3. ToSet(Tail(q)) \cup {Head(q)} \subseteq ToSet(q)
    BY <1>1, <1>3, <2>1 DEF ToSet
  <2> QED
    BY <2>2, <2>3
<1>5. ASSUME NoRepetition(q)
      PROVE  Head(q) \notin ToSet(Tail(q)) /\ NoRepetition(Tail(q))
  <2>1. Head(q) \notin ToSet(Tail(q))
    BY <1>1, <1>3, <1>5 DEF ToSet, NoRepetition
  <2>2. NoRepetition(Tail(q))
    <3> SUFFICES ASSUME NEW i \in DOMAIN Tail(q), NEW j \in DOMAIN Tail(q),
                        Tail(q)[i] = Tail(q)[j]
                 PROVE  i = j
      BY DEF NoRepetition
    <3>1. i + 1 = j + 1
      BY <1>3, <1>5 DEF NoRepetition
    <3> QED
      BY <1>1, <3>1
  <2> QED
    BY <2>1, <2>2
<1> QED
  BY <1>4, <1>5

\* The same for the MADs in a queue of items.
LEMMA AppendMads ==
  ASSUME NEW q \in Seq(Items), NEW item \in Items
  PROVE  MadsIn(Append(q, item)) = MadsIn(q) \cup {item.mad}
<1>1. /\ DOMAIN Append(q, item) = 1 .. Len(q) + 1
      /\ \A i \in 1 .. Len(q) : Append(q, item)[i] = q[i]
      /\ Append(q, item)[Len(q) + 1] = item
      /\ DOMAIN q = 1 .. Len(q) /\ Len(q) \in Nat
  OBVIOUS
<1> QED
  BY <1>1 DEF MadsIn

\* What Head and Tail do to the MADs of a queue of items.
LEMMA TailMads ==
  ASSUME NEW q \in Seq(Items), q # <<>>
  PROVE  /\ MadsIn(q) = MadsIn(Tail(q)) \cup {Head(q).mad}
         /\ NoRepeatedMad(q) =>
              Head(q).mad \notin MadsIn(Tail(q)) /\ NoRepeatedMad(Tail(q))
<1>1. /\ Tail(q) \in Seq(Items)
      /\ DOMAIN Tail(q) = 1 .. Len(q) - 1
      /\ \A i \in 1 .. Len(q) - 1 : Tail(q)[i] = q[i + 1]
      /\ Head(q) = q[1]
      /\ DOMAIN q = 1 .. Len(q) /\ Len(q) \in Nat /\ Len(q) >= 1
  BY HeadTailProperties, EmptySeq
<1>2. \A i \in DOMAIN q : i = 1 \/ (i - 1 \in DOMAIN Tail(q) /\ Tail(q)[i - 1] = q[i])
  <2> SUFFICES ASSUME NEW i \in DOMAIN q, i # 1
               PROVE  i - 1 \in DOMAIN Tail(q) /\ Tail(q)[i - 1] = q[i]
    OBVIOUS
  <2>1. i - 1 \in 1 .. Len(q) - 1 /\ i - 1 + 1 = i
    BY <1>1
  <2>2. Tail(q)[i - 1] = q[i - 1 + 1]
    BY <1>1, <2>1
  <2> QED
    BY <1>1, <2>1, <2>2
<1>3. \A i \in DOMAIN Tail(q) : i + 1 \in DOMAIN q /\ Tail(q)[i] = q[i + 1] /\ i + 1 # 1
  BY <1>1
<1>4. MadsIn(q) = MadsIn(Tail(q)) \cup {Head(q).mad}
  <2>1. 1 \in DOMAIN q
    BY <1>1
  <2>2. MadsIn(q) \subseteq MadsIn(Tail(q)) \cup {Head(q).mad}
    <3> SUFFICES ASSUME NEW i \in DOMAIN q
                 PROVE  q[i].mad \in MadsIn(Tail(q)) \cup {Head(q).mad}
      BY DEF MadsIn
    <3> QED
      BY <1>1, <1>2 DEF MadsIn
  <2>3. MadsIn(Tail(q)) \cup {Head(q).mad} \subseteq MadsIn(q)
    BY <1>1, <1>3, <2>1 DEF MadsIn
  <2> QED
    BY <2>2, <2>3
<1>5. ASSUME NoRepeatedMad(q)
      PROVE  Head(q).mad \notin MadsIn(Tail(q)) /\ NoRepeatedMad(Tail(q))
  <2>1. Head(q).mad \notin MadsIn(Tail(q))
    BY <1>1, <1>3, <1>5 DEF MadsIn, NoRepeatedMad
  <2>2. NoRepeatedMad(Tail(q))
    <3> SUFFICES ASSUME NEW i \in DOMAIN Tail(q), NEW j \in DOMAIN Tail(q),
                        Tail(q)[i].mad = Tail(q)[j].mad
                 PROVE  i = j
      BY DEF NoRepeatedMad
    <3>1. i + 1 = j + 1
      BY <1>3, <1>5 DEF NoRepeatedMad
    <3> QED
      BY <1>1, <3>1
  <2> QED
    BY <2>1, <2>2
<1> QED
  BY <1>4, <1>5
-----------------------------------------------------------------------------
\* Each caller of dispatchMad brings a MAD that is not in the dispatcher yet.
StampedFresh ==
  /\ \A a, b \in stamped : a.mad = b.mad => a = b
  /\ \A a \in stamped : a.mad \notin AcceptedMads

\* The inductive invariant.  NoMadLost and NoMadTwice are inductive together:
\* one says what leaves a place enters another, the other that it was there once.
Conservation == StampedFresh /\ NoMadLost /\ NoMadTwice

\* The initial state satisfies the invariant: nothing was dispatched.
LEMMA ConservationInit == Init => Conservation
  BY DEF Init, Conservation, StampedFresh, NoMadLost, NoMadTwice, AcceptedMads,
         WaitingMads, DueMads, HandMads, MadsIn, ToSet

\* A step that leaves every place of a MAD alone preserves the invariant.
LEMMA ConservationFrame ==
  ASSUME Conservation,
         UNCHANGED <<stamped, waitQ, dispatchQ, hand, routed, accepted>>
  PROVE  Conservation'
<1>1. UNCHANGED <<AcceptedMads, WaitingMads, DueMads, HandMads>>
  BY DEF AcceptedMads, WaitingMads, DueMads, HandMads, MadsIn, ToSet
<1> QED
  BY <1>1 DEF Conservation, StampedFresh, NoMadLost, NoMadTwice

\* A caller that stamps its MAD takes it from nowhere else.
LEMMA ConservationStamp ==
  ASSUME TypeOK, Conservation, NEW m \in Mads, NEW d \in Delays, StampMad(m, d)
  PROVE  Conservation'
<1>1. StampedFresh'
  BY DEF StampMad, Conservation, StampedFresh, AcceptedMads, MadsIn
<1>2. NoMadLost' /\ NoMadTwice'
  <2>1. UNCHANGED <<waitQ, dispatchQ, hand, routed, accepted>>
    BY DEF StampMad
  <2>2. UNCHANGED <<AcceptedMads, WaitingMads, DueMads, HandMads>>
    BY <2>1 DEF AcceptedMads, WaitingMads, DueMads, HandMads, MadsIn, ToSet
  <2> QED
    BY <2>1, <2>2 DEF Conservation, NoMadLost, NoMadTwice
<1> QED
  BY <1>1, <1>2 DEF Conservation

\* A caller that inserts its MAD moves it to the wait queue.
LEMMA ConservationInsert ==
  ASSUME TypeOK, Conservation, NEW item \in stamped, InsertMad(item)
  PROVE  Conservation'
<1>1. item \in Items /\ waitQ \in Seq(Items) /\ accepted \in Seq(Items)
  BY DEF TypeOK
<1>2. item.mad \notin AcceptedMads /\ item.mad \notin WaitingMads
  BY DEF Conservation, StampedFresh, NoMadLost
<1>3. AcceptedMads' = AcceptedMads \cup {item.mad}
  BY <1>1, AppendMads DEF InsertMad, AcceptedMads, MadsIn
<1>4. WaitingMads' = WaitingMads \cup {item.mad} /\ NoRepeatedMad(waitQ')
  BY <1>1, <1>2, MadsAfterInsert
     DEF InsertMad, WaitingMads, Conservation, NoMadTwice, NoRepeatedMad
<1>5. DueMads' = DueMads /\ HandMads' = HandMads /\ routed' = routed
  BY DEF InsertMad, DueMads, HandMads, ToSet
<1>6. StampedFresh'
  BY <1>3 DEF InsertMad, Conservation, StampedFresh
<1>7. NoMadLost'
  BY <1>3, <1>4, <1>5 DEF Conservation, NoMadLost
<1>8. NoMadTwice'
  <2>1. item.mad \notin DueMads \cup HandMads \cup routed
    BY <1>2 DEF Conservation, NoMadLost
  <2>2. UNCHANGED <<dispatchQ, hand>>
    BY DEF InsertMad
  <2> QED
    BY <1>4, <1>5, <2>1, <2>2 DEF Conservation, NoMadTwice, NoRepeatedMad
<1> QED
  BY <1>6, <1>7, <1>8 DEF Conservation

\* The timer thread moves a MAD from the wait queue to the dispatch queue.
LEMMA ConservationMove ==
  ASSUME TypeOK, MoveHasMad, Conservation, TimerMove
  PROVE  Conservation'
<1> DEFINE m == Head(waitQ).mad
<1>1. waitQ \in Seq(Items) /\ waitQ # <<>> /\ dispatchQ \in Seq(Mads)
  BY DEF TypeOK, MoveHasMad, TimerMove
<1>2. m \in Mads
  <2>1. Head(waitQ) \in Items
    BY <1>1, HeadTailProperties
  <2> QED
    BY <2>1 DEF Items
<1> HIDE DEF m
<1>3. /\ WaitingMads = WaitingMads' \cup {m}
      /\ m \notin WaitingMads'
      /\ NoRepeatedMad(waitQ')
  BY <1>1, TailMads DEF TimerMove, WaitingMads, Conservation, NoMadTwice, NoRepeatedMad, m
<1>4. m \notin DueMads \cup HandMads \cup routed
  BY <1>3 DEF Conservation, NoMadTwice
<1>5. DueMads' = DueMads \cup {m} /\ NoRepetition(dispatchQ')
  <2>1. dispatchQ' = Append(dispatchQ, m)
    BY DEF TimerMove, m
  <2>2. NoRepetition(dispatchQ) /\ m \notin ToSet(dispatchQ)
    BY <1>4 DEF Conservation, NoMadTwice, NoRepetition, DueMads
  <2>3. /\ ToSet(Append(dispatchQ, m)) = ToSet(dispatchQ) \cup {m}
        /\ NoRepetition(Append(dispatchQ, m))
    BY <1>1, <1>2, <2>2, AppendElements
  <2>4. DueMads' = ToSet(dispatchQ')
    BY DEF DueMads, ToSet
  <2> QED
    BY <2>1, <2>3, <2>4 DEF DueMads
<1>6. UNCHANGED <<stamped, accepted, hand, routed, AcceptedMads, HandMads>>
  BY DEF TimerMove, AcceptedMads, MadsIn, HandMads
<1>7. StampedFresh'
  BY <1>6 DEF Conservation, StampedFresh
<1>8. NoMadLost'
  BY <1>3, <1>5, <1>6 DEF Conservation, NoMadLost
<1>9. NoMadTwice'
  BY <1>3, <1>4, <1>5, <1>6
     DEF Conservation, NoMadTwice, NoRepeatedMad, NoRepetition
<1> QED
  BY <1>7, <1>8, <1>9 DEF Conservation

\* A worker takes a MAD from the dispatch queue into its own hands.
LEMMA ConservationTake ==
  ASSUME TypeOK, Conservation, NEW w \in Workers, WorkerTake(w)
  PROVE  Conservation'
<1> DEFINE m == Head(dispatchQ)
<1>1. dispatchQ \in Seq(Mads) /\ dispatchQ # <<>> /\ hand[w] = {}
  BY DEF TypeOK, WorkerTake
<1>2. /\ DueMads = DueMads' \cup {m}
      /\ m \notin DueMads'
      /\ NoRepetition(dispatchQ')
  BY <1>1, TailElements DEF WorkerTake, DueMads, Conservation, NoMadTwice, NoRepetition
<1> HIDE DEF m
<1>3. /\ hand'[w] = {m}
      /\ \A v \in Workers : v # w => hand'[v] = hand[v]
  BY DEF WorkerTake, TypeOK, m
<1>4. HandMads' = HandMads \cup {m}
  BY <1>1, <1>3 DEF HandMads
<1>5. m \notin WaitingMads \cup HandMads \cup routed
  BY <1>2 DEF Conservation, NoMadTwice
<1>6. UNCHANGED <<stamped, accepted, waitQ, routed, AcceptedMads, WaitingMads>>
  BY DEF WorkerTake, AcceptedMads, WaitingMads, MadsIn
<1>7. StampedFresh'
  BY <1>6 DEF Conservation, StampedFresh
<1>8. NoMadLost'
  BY <1>2, <1>4, <1>6 DEF Conservation, NoMadLost
<1>9. NoMadTwice'
  <2>1. \A u, v \in Workers : u # v => hand'[u] \cap hand'[v] = {}
    <3>1. \A v \in Workers : m \notin hand[v]
      BY <1>5 DEF HandMads
    <3> QED
      BY <1>3, <3>1 DEF Conservation, NoMadTwice
  <2> QED
    BY <1>2, <1>4, <1>5, <1>6, <2>1 DEF Conservation, NoMadTwice, NoRepetition
<1> QED
  BY <1>7, <1>8, <1>9 DEF Conservation

\* A worker that has routed its MAD retires it.
LEMMA ConservationRouted ==
  ASSUME TypeOK, Conservation, NEW w \in Workers, WorkerRouted(w)
  PROVE  Conservation'
<1>1. /\ hand'[w] = {}
      /\ \A v \in Workers : v # w => hand'[v] = hand[v]
      /\ routed' = routed \cup hand[w]
  BY DEF WorkerRouted, TypeOK
<1>2. HandMads = HandMads' \cup hand[w] /\ HandMads' \cap hand[w] = {}
  <2>1. HandMads \subseteq HandMads' \cup hand[w]
    BY <1>1 DEF HandMads
  <2>2. HandMads' \cup hand[w] \subseteq HandMads
    BY <1>1 DEF HandMads
  <2>3. HandMads' \cap hand[w] = {}
    BY <1>1 DEF HandMads, Conservation, NoMadTwice
  <2> QED
    BY <2>1, <2>2, <2>3
<1>3. UNCHANGED <<stamped, accepted, waitQ, dispatchQ, AcceptedMads, WaitingMads, DueMads>>
  BY DEF WorkerRouted, AcceptedMads, WaitingMads, DueMads, MadsIn, ToSet
<1>4. StampedFresh'
  BY <1>3 DEF Conservation, StampedFresh
<1>5. NoMadLost'
  BY <1>1, <1>2, <1>3 DEF Conservation, NoMadLost
<1>6. NoMadTwice'
  BY <1>1, <1>2, <1>3 DEF Conservation, NoMadTwice
<1> QED
  BY <1>4, <1>5, <1>6 DEF Conservation

\* Every step of the dispatcher preserves the invariant.
LEMMA ConservationStep ==
  ASSUME TypeOK, MoveHasMad, Conservation, [Next]_vars
  PROVE  Conservation'
<1>1. ASSUME NEW m \in Mads, NEW d \in Delays, StampMad(m, d)
      PROVE  Conservation'
  BY <1>1, ConservationStamp
<1>2. ASSUME NEW item \in stamped, InsertMad(item)
      PROVE  Conservation'
  BY <1>2, ConservationInsert
<1>3. CASE TimerFindDue \/ TimerWait \/ TimerTimeout \/ TimerSpuriousWakeup \/ TimerResume
  BY <1>3, ConservationFrame
     DEF TimerFindDue, TimerWait, TimerTimeout, TimerSpuriousWakeup, TimerResume
<1>4. CASE TimerMove
  BY <1>4, ConservationMove
<1>5. ASSUME NEW w \in Workers, WorkerTake(w)
      PROVE  Conservation'
  BY <1>5, ConservationTake
<1>6. ASSUME NEW w \in Workers, WorkerWait(w) \/ WorkerSpuriousWakeup(w)
      PROVE  Conservation'
  BY <1>6, ConservationFrame DEF WorkerWait, WorkerSpuriousWakeup
<1>7. ASSUME NEW w \in Workers, WorkerRouted(w)
      PROVE  Conservation'
  BY <1>7, ConservationRouted
<1>8. CASE Tick \/ UNCHANGED vars
  BY <1>8, ConservationFrame DEF Tick, vars
<1> QED
  BY <1>1, <1>2, <1>3, <1>4, <1>5, <1>6, <1>7, <1>8 DEF Next, TimerStep, WorkerStep

\* The inductive invariant holds in every reachable state.
LEMMA ConservationCorrect == Spec => []Conservation
<1>1. Init => TypeOK /\ MoveHasMad /\ Conservation
  BY TypeInit, ConservationInit
<1>2. TypeOK /\ MoveHasMad /\ Conservation /\ [Next]_vars
        => (TypeOK /\ MoveHasMad /\ Conservation)'
  BY TypeStep, ConservationStep
<1> QED
  BY <1>1, <1>2, PTL DEF Spec

\* No MAD handed to the dispatcher disappears between its queues and threads.
THEOREM NothingLost == Spec => []NoMadLost
<1>1. Conservation => NoMadLost
  BY DEF Conservation
<1> QED
  BY <1>1, ConservationCorrect, PTL

\* No MAD is in two places of the dispatcher, so none is routed twice.
THEOREM NothingTwice == Spec => []NoMadTwice
<1>1. Conservation => NoMadTwice
  BY DEF Conservation
<1> QED
  BY <1>1, ConservationCorrect, PTL

-----------------------------------------------------------------------------
\* The timer never sleeps beyond the first wake-up: whoever inserts an item
\* while it waits wakes it in the same critical section.
THEOREM TimerInTime == Spec => []NoOversleep
<1>1. Init => NoOversleep
  BY DEF Init, NoOversleep
<1>2. ASSUME TypeOK, NoOversleep, [Next]_vars
      PROVE  NoOversleep'
  <2> USE <1>2
  <2>1. ASSUME NEW item \in stamped, InsertMad(item)
        PROVE  NoOversleep'
    BY <2>1 DEF InsertMad, NoOversleep, TypeOK
  <2>2. CASE TimerWait
    <3>1. waitQ # <<>> => Head(waitQ) \in Items
      BY HeadTailProperties DEF TypeOK
    <3> QED
      BY <2>2, <3>1 DEF TimerWait, NoOversleep, TypeOK, Items
  <2>3. CASE TimerFindDue \/ TimerMove \/ TimerTimeout \/ TimerSpuriousWakeup \/ TimerResume
    BY <2>3 DEF TimerFindDue, TimerMove, TimerTimeout, TimerSpuriousWakeup,
                TimerResume, NoOversleep
  <2>4. CASE UNCHANGED <<timer, waitQ, deadline>>
    BY <2>4 DEF NoOversleep
  <2> QED
    BY <2>1, <2>2, <2>3, <2>4
       DEF Next, TimerStep, WorkerStep, StampMad, WorkerTake, WorkerWait,
           WorkerRouted, WorkerSpuriousWakeup, Tick, vars
<1> QED
  BY <1>1, <1>2, TypeCorrect, PTL DEF Spec

-----------------------------------------------------------------------------
\* The workers between their wake-up and their test of the queue.
Testers == {w \in Workers : worker[w] = "test"}

\* Between two states a worker that starts to test the queue adds one tester, a
\* worker that stops removes one; nobody else moves.
LEMMA TesterCount ==
  ASSUME TypeOK, NEW w \in Workers, NEW pc \in {"test", "wait", "route"},
         worker' = [worker EXCEPT ![w] = pc]
  PROVE  /\ IsFiniteSet(Testers) /\ Cardinality(Testers) \in Nat
         /\ pc = "test" /\ worker[w] # "test" =>
              Cardinality(Testers') = Cardinality(Testers) + 1
         /\ pc # "test" /\ worker[w] = "test" =>
              Cardinality(Testers') = Cardinality(Testers) - 1
<1>1. IsFiniteSet(Testers) /\ Cardinality(Testers) \in Nat
  <2>1. Testers \in SUBSET Workers
    BY DEF Testers
  <2> QED
    BY <2>1, DispatcherAssumption, FS_Subset, FS_CardinalityType
<1>2. \A v \in Workers : worker'[v] = IF v = w THEN pc ELSE worker[v]
  BY DEF TypeOK
<1>3. ASSUME pc = "test", worker[w] # "test"
      PROVE  Cardinality(Testers') = Cardinality(Testers) + 1
  <2>1. Testers' = Testers \cup {w} /\ w \notin Testers
    BY <1>2, <1>3 DEF Testers
  <2> QED
    BY <1>1, <2>1, FS_AddElement
<1>4. ASSUME pc # "test", worker[w] = "test"
      PROVE  Cardinality(Testers') = Cardinality(Testers) - 1
  <2>1. Testers' = Testers \ {w} /\ w \in Testers
    BY <1>2, <1>4 DEF Testers
  <2> QED
    BY <1>1, <2>1, FS_RemoveElement
<1> QED
  BY <1>1, <1>3, <1>4

\* No worker sleeps through a MAD: every MAD in the dispatch queue has a worker
\* of its own on the way, or no worker sleeps.
THEOREM WorkersAwake == Spec => []NoIdleWorker
<1> DEFINE Awake == Sleepers # {} => Len(dispatchQ) <= Cardinality(Testers)
<1>1. Awake => NoIdleWorker
  BY DEF NoIdleWorker, Testers
<1>2. Init => Awake
  BY DEF Init, Sleepers
<1>3. ASSUME TypeOK, Awake, [Next]_vars
      PROVE  Awake'
  <2> USE <1>3
  <2>1. Len(dispatchQ) \in Nat
    BY DEF TypeOK
  <2>2. CASE TimerMove
    <3>1. Len(dispatchQ') = Len(dispatchQ) + 1
      BY <2>2 DEF TimerMove, TypeOK
    <3>2. CASE Sleepers = {}
      BY <2>2, <3>2 DEF TimerMove, SignalWorker, Sleepers
    <3>3. CASE Sleepers # {}
      <4>1. PICK w \in Sleepers : worker' = [worker EXCEPT ![w] = "test"]
        BY <2>2, <3>3 DEF TimerMove, SignalWorker
      <4>2. w \in Workers /\ worker[w] = "wait"
        BY DEF Sleepers
      <4>3. /\ Cardinality(Testers') = Cardinality(Testers) + 1
            /\ Cardinality(Testers) \in Nat
        BY <4>1, <4>2, TesterCount
      <4> QED
        BY <2>1, <3>1, <3>3, <4>3
    <3> QED
      BY <3>2, <3>3
  <2>3. ASSUME NEW w \in Workers, WorkerTake(w)
        PROVE  Awake'
    <3>1. Len(dispatchQ') = Len(dispatchQ) - 1
      BY <2>3 DEF WorkerTake, TypeOK
    <3>2. Sleepers' = Sleepers
      BY <2>3 DEF WorkerTake, Sleepers, TypeOK
    <3>3. worker' = [worker EXCEPT ![w] = "route"] /\ worker[w] = "test"
      BY <2>3 DEF WorkerTake
    <3>4. /\ Cardinality(Testers') = Cardinality(Testers) - 1
          /\ Cardinality(Testers) \in Nat
      BY <3>3, TesterCount
    <3> QED
      BY <2>1, <3>1, <3>2, <3>4
  <2>4. ASSUME NEW w \in Workers, WorkerWait(w)
        PROVE  Awake'
    <3>1. Len(dispatchQ') = 0
      BY <2>4 DEF WorkerWait
    <3>2. Testers' \in SUBSET Workers
      BY DEF Testers
    <3>3. Cardinality(Testers') \in Nat
      BY <3>2, DispatcherAssumption, FS_Subset, FS_CardinalityType
    <3> QED
      BY <3>1, <3>3
  <2>5. ASSUME NEW w \in Workers, WorkerRouted(w) \/ WorkerSpuriousWakeup(w)
        PROVE  Awake'
    <3>1. UNCHANGED dispatchQ
      BY <2>5 DEF WorkerRouted, WorkerSpuriousWakeup
    <3>2. Sleepers' \subseteq Sleepers
      BY <2>5 DEF WorkerRouted, WorkerSpuriousWakeup, Sleepers, TypeOK
    <3>3. worker' = [worker EXCEPT ![w] = "test"] /\ worker[w] # "test"
      BY <2>5 DEF WorkerRouted, WorkerSpuriousWakeup
    <3>4. /\ Cardinality(Testers') = Cardinality(Testers) + 1
          /\ Cardinality(Testers) \in Nat
      BY <3>3, TesterCount
    <3> QED
      BY <2>1, <3>1, <3>2, <3>4
  <2>6. CASE UNCHANGED <<dispatchQ, worker>>
    BY <2>6 DEF Sleepers, Testers
  <2> QED
    BY <2>2, <2>3, <2>4, <2>5, <2>6
       DEF Next, TimerStep, WorkerStep, StampMad, InsertMad, TimerFindDue, TimerWait,
           TimerTimeout, TimerSpuriousWakeup, TimerResume, Tick, vars
<1> HIDE DEF Awake
<1>4. Spec => []Awake
  BY <1>2, <1>3, TypeCorrect, PTL DEF Spec
<1> QED
  BY <1>1, <1>4, PTL

-----------------------------------------------------------------------------
(* The dispatcher implements the delay line. *)

\* A set of positions that is closed downwards is an initial segment.
LEMMA InitialSegment ==
  ASSUME NEW n \in Nat, NEW S \in SUBSET (1 .. n),
         \A i \in S : \A k \in 1 .. i : k \in S
  PROVE  S = 1 .. Cardinality(S)
<1>1. IsFiniteSet(S) /\ Cardinality(S) \in Nat
  <2>1. IsFiniteSet(1 .. n)
    BY FS_Interval
  <2>2. IsFiniteSet(S)
    BY <2>1, FS_Subset
  <2> QED
    BY <2>2, FS_CardinalityType
<1>2. \A i \in S : i <= Cardinality(S)
  <2> SUFFICES ASSUME NEW i \in S
               PROVE  i <= Cardinality(S)
    OBVIOUS
  <2>1. 1 .. i \in SUBSET S
    OBVIOUS
  <2>2. Cardinality(1 .. i) = i
    BY FS_Interval
  <2> QED
    BY <1>1, <2>1, <2>2, FS_Subset
<1>3. S \in SUBSET (1 .. Cardinality(S))
  BY <1>1, <1>2
<1>4. /\ IsFiniteSet(1 .. Cardinality(S))
      /\ Cardinality(1 .. Cardinality(S)) = Cardinality(S)
  BY <1>1, FS_Interval
<1> QED
  BY <1>3, <1>4, FS_Subset

\* The queue is in the order of the wake-up times.
Sorted(q) == \A i, k \in DOMAIN q : i <= k => q[i].wake <= q[k].wake

\* Insertion into a sorted queue: the items due no later than the new one stay
\* before it, in their places, the others move behind it by one.
LEMMA InsertSplits ==
  ASSUME NEW q \in Seq(Items), NEW item \in Items, Sorted(q)
  PROVE  LET r == InsertByWakeup(q, item)
         IN  \E p \in 1 .. Len(q) + 1 :
               /\ r \in Seq(Items) /\ Len(r) = Len(q) + 1
               /\ \A i \in 1 .. p - 1 : r[i] = q[i] /\ q[i].wake <= item.wake
               /\ r[p] = item
               /\ \A i \in p + 1 .. Len(q) + 1 : r[i] = q[i - 1]
               /\ \A i \in p .. Len(q) : item.wake < q[i].wake
<1> DEFINE before == {i \in DOMAIN q : q[i].wake <= item.wake}
           p == 1 + Cardinality(before)
           r == InsertAt(q, p, item)
<1>1. DOMAIN q = 1 .. Len(q) /\ Len(q) \in Nat
  BY LenProperties
<1>2. item.wake \in Nat /\ \A i \in DOMAIN q : q[i].wake \in Nat
  <2>1. \A i \in DOMAIN q : q[i] \in Items
    BY ElementOfSeq
  <2> QED
    BY <2>1 DEF Items
<1>3. \A i \in before : \A k \in 1 .. i : k \in before
  BY <1>1, <1>2 DEF Sorted
<1>4. before \in SUBSET (1 .. Len(q))
  BY <1>1
<1>5. \A i \in DOMAIN q : i \in before <=> q[i].wake <= item.wake
  OBVIOUS
<1>6. InsertByWakeup(q, item) = r
  BY DEF InsertByWakeup
<1> HIDE DEF before
<1>7. before = 1 .. Cardinality(before)
  BY <1>1, <1>3, <1>4, InitialSegment
<1>8. Cardinality(before) \in Nat /\ Cardinality(before) <= Len(q)
  <2>1. IsFiniteSet(1 .. Len(q)) /\ Cardinality(1 .. Len(q)) = Len(q)
    BY <1>1, FS_Interval
  <2>2. IsFiniteSet(before) /\ Cardinality(before) <= Len(q)
    BY <1>4, <2>1, FS_Subset
  <2> QED
    BY <2>2, FS_CardinalityType
<1>9. p \in 1 .. Len(q) + 1
  BY <1>1, <1>8
<1>10. \A i \in 1 .. p - 1 : q[i].wake <= item.wake
  <2> SUFFICES ASSUME NEW i \in 1 .. p - 1
               PROVE  q[i].wake <= item.wake
    OBVIOUS
  <2>1. i \in before
    BY <1>7, <1>8
  <2> QED
    BY <1>1, <1>4, <1>5, <2>1
<1>11. \A i \in p .. Len(q) : item.wake < q[i].wake
  <2> SUFFICES ASSUME NEW i \in p .. Len(q)
               PROVE  item.wake < q[i].wake
    OBVIOUS
  <2>1. i \in DOMAIN q /\ i \notin before
    BY <1>1, <1>7, <1>8
  <2> QED
    BY <1>2, <1>5, <2>1
<1> HIDE DEF p
<1>12. /\ r \in Seq(Items)
       /\ Len(r) = Len(q) + 1
       /\ \A i \in 1 .. p - 1 : r[i] = q[i]
       /\ r[p] = item
       /\ \A i \in p + 1 .. Len(q) + 1 : r[i] = q[i - 1]
  BY <1>9, InsertItem
<1> HIDE DEF r
<1> QED
  BY <1>6, <1>9, <1>10, <1>11, <1>12

\* Seen from the places of the queue: it stays sorted, what was before an old
\* item still is, and whatever is due no later than the new item is before it.
LEMMA InsertOrder ==
  ASSUME NEW q \in Seq(Items), NEW item \in Items, Sorted(q)
  PROVE  LET r == InsertByWakeup(q, item)
         IN  /\ Sorted(r)
             /\ \E p \in DOMAIN r :
                  /\ r[p] = item
                  /\ \A i \in DOMAIN q : q[i].wake <= item.wake =>
                       \E k \in DOMAIN r : k < p /\ r[k] = q[i]
                  /\ \A k \in DOMAIN r \ {p} : \E i \in DOMAIN q :
                       /\ r[k] = q[i]
                       /\ \A j \in DOMAIN q : j < i =>
                            \E h \in DOMAIN r : h < k /\ r[h] = q[j]
<1> DEFINE r == InsertByWakeup(q, item)
<1>1. PICK p \in 1 .. Len(q) + 1 :
        /\ r \in Seq(Items) /\ Len(r) = Len(q) + 1
        /\ \A i \in 1 .. p - 1 : r[i] = q[i] /\ q[i].wake <= item.wake
        /\ r[p] = item
        /\ \A i \in p + 1 .. Len(q) + 1 : r[i] = q[i - 1]
        /\ \A i \in p .. Len(q) : item.wake < q[i].wake
  BY InsertSplits
<1> HIDE DEF r
<1>2. Len(q) \in Nat /\ DOMAIN q = 1 .. Len(q) /\ DOMAIN r = 1 .. Len(q) + 1
  BY <1>1, LenProperties
<1>3. item.wake \in Nat /\ \A i \in DOMAIN q : q[i].wake \in Nat
  <2>1. \A i \in DOMAIN q : q[i] \in Items
    BY ElementOfSeq
  <2> QED
    BY <2>1 DEF Items
<1>4. \A i \in DOMAIN q : i < p => i \in DOMAIN r /\ r[i] = q[i]
  BY <1>1, <1>2
<1>5. \A i \in DOMAIN q : i >= p => i + 1 \in DOMAIN r /\ r[i + 1] = q[i]
  <2> SUFFICES ASSUME NEW i \in DOMAIN q, i >= p
               PROVE  i + 1 \in DOMAIN r /\ r[i + 1] = q[i]
    OBVIOUS
  <2>1. i + 1 \in p + 1 .. Len(q) + 1 /\ i + 1 - 1 = i
    BY <1>2
  <2>2. r[i + 1] = q[i + 1 - 1]
    BY <1>1, <2>1
  <2> QED
    BY <1>2, <2>1, <2>2
<1>6. \A i \in DOMAIN q : q[i].wake <= item.wake =>
        \E k \in DOMAIN r : k < p /\ r[k] = q[i]
  <2> SUFFICES ASSUME NEW i \in DOMAIN q, q[i].wake <= item.wake
               PROVE  \E k \in DOMAIN r : k < p /\ r[k] = q[i]
    OBVIOUS
  <2>1. i < p
    BY <1>1, <1>2, <1>3
  <2> QED
    BY <1>4, <2>1
<1>7. ASSUME NEW k \in DOMAIN r, k # p
      PROVE  \E i \in DOMAIN q :
               /\ r[k] = q[i]
               /\ \A j \in DOMAIN q : j < i => \E h \in DOMAIN r : h < k /\ r[h] = q[j]
  <2>1. CASE k < p
    <3>1. k \in DOMAIN q /\ r[k] = q[k]
      BY <1>1, <1>2, <2>1
    <3>2. \A j \in DOMAIN q : j < k => j \in DOMAIN r /\ r[j] = q[j]
      BY <1>2, <1>4, <2>1
    <3> QED
      BY <3>1, <3>2
  <2>2. CASE k > p
    <3>1. k - 1 \in DOMAIN q /\ r[k] = q[k - 1]
      BY <1>1, <1>2, <2>2
    <3>2. ASSUME NEW j \in DOMAIN q, j < k - 1
          PROVE  \E h \in DOMAIN r : h < k /\ r[h] = q[j]
      <4>1. j < k /\ j + 1 < k
        BY <1>2, <3>2
      <4> QED
        BY <1>2, <1>4, <1>5, <4>1
    <3> QED
      BY <3>1, <3>2
  <2> QED
    BY <1>2, <1>7, <2>1, <2>2
<1>8. Sorted(r)
  <2> SUFFICES ASSUME NEW i \in DOMAIN r, NEW k \in DOMAIN r, i < k
               PROVE  r[i].wake <= r[k].wake
    <3>1. \A i \in DOMAIN r : r[i].wake \in Nat
      <4>1. \A i \in DOMAIN r : r[i] \in Items
        BY <1>1, ElementOfSeq
      <4> QED
        BY <4>1 DEF Items
    <3> QED
      BY <1>2, <3>1 DEF Sorted
  <2>1. CASE k < p
    BY <1>1, <1>2, <2>1 DEF Sorted
  <2>2. CASE k = p
    BY <1>1, <1>2, <2>2
  <2>3. CASE i < p /\ k > p
    <3>1. k - 1 \in DOMAIN q /\ r[k] = q[k - 1] /\ i \in DOMAIN q /\ i <= k - 1 /\ r[i] = q[i]
      BY <1>1, <1>2, <2>3
    <3> QED
      BY <3>1 DEF Sorted
  <2>4. CASE i = p
    <3>1. k - 1 \in p .. Len(q) /\ r[k] = q[k - 1] /\ k - 1 \in DOMAIN q
      BY <1>1, <1>2, <2>4
    <3> QED
      BY <1>1, <1>3, <2>4, <3>1
  <2>5. CASE i > p
    <3>1. /\ k - 1 \in DOMAIN q /\ r[k] = q[k - 1]
          /\ i - 1 \in DOMAIN q /\ r[i] = q[i - 1] /\ i - 1 <= k - 1
      BY <1>1, <1>2, <2>5
    <3> QED
      BY <3>1 DEF Sorted
  <2> QED
    BY <1>2, <2>1, <2>2, <2>3, <2>4, <2>5
<1>9. p \in DOMAIN r
  BY <1>2
<1> QED
  BY <1>1, <1>6, <1>7, <1>8, <1>9 DEF r

-----------------------------------------------------------------------------
TakenMads == ToSet(taken)

\* The histories: each item was accepted once, and the MADs that were taken are
\* those the workers hold or have routed.
History == NoRepeatedMad(accepted) /\ TakenMads = HandMads \cup routed

\* Nothing is due after the clock stops.
InBound == \A a \in stamped : a.wake <= MaxTime

\* The timer thread moves a MAD whose time has come.
MoveIsDue == timer = "move" => waitQ # <<>> /\ Head(waitQ).wake <= now

\* The wait queue holds accepted items, in the order of their wake-up times.
WaitingSorted ==
  /\ \A p \in DOMAIN waitQ : \E i \in DOMAIN accepted : waitQ[p] = accepted[i]
  /\ Sorted(waitQ)

\* The dispatch queue holds MADs whose time has come.
DueInTime ==
  \A q \in DOMAIN dispatchQ, i \in DOMAIN accepted :
    dispatchQ[q] = accepted[i].mad => accepted[i].wake <= now

\* Wherever item i is, item j is further on its way: in a later place, or before
\* it in the same queue.
InOrder(j, i) ==
  /\ accepted[i].mad \in TakenMads => accepted[j].mad \in TakenMads
  /\ \A q \in DOMAIN dispatchQ : dispatchQ[q] = accepted[i].mad =>
       \/ accepted[j].mad \in TakenMads
       \/ \E p \in DOMAIN dispatchQ : p < q /\ dispatchQ[p] = accepted[j].mad
  /\ \A q \in DOMAIN waitQ : waitQ[q] = accepted[i] =>
       \/ accepted[j].mad \in TakenMads \cup DueMads
       \/ \E p \in DOMAIN waitQ : p < q /\ waitQ[p] = accepted[j]

\* An item that was accepted earlier and is due no later is never behind.
OrderKept ==
  \A i, j \in DOMAIN accepted :
    j < i /\ accepted[j].wake <= accepted[i].wake => InOrder(j, i)

\* The inductive invariant of the refinement, on top of the conservation of MADs.
DelayInv ==
  History /\ InBound /\ MoveIsDue /\ WaitingSorted /\ DueInTime /\ OrderKept

\* Nothing was accepted at the start.
LEMMA DelayInit == Init => DelayInv
  BY DEF Init, DelayInv, History, InBound, MoveIsDue, WaitingSorted, DueInTime,
         OrderKept, NoRepeatedMad, Sorted, TakenMads, HandMads, ToSet

\* A step that moves no MAD and does not turn the clock back preserves it.
LEMMA DelayFrame ==
  ASSUME TypeOK, DelayInv, UNCHANGED <<waitQ, dispatchQ, accepted, taken>>,
         (HandMads \cup routed)' = HandMads \cup routed,
         now' \in Nat, now <= now', MoveIsDue', InBound'
  PROVE  DelayInv'
<1>1. UNCHANGED <<TakenMads, DueMads>>
  BY DEF TakenMads, DueMads, ToSet
<1>2. History'
  BY <1>1 DEF DelayInv, History, NoRepeatedMad
<1>3. WaitingSorted'
  BY DEF DelayInv, WaitingSorted, Sorted
<1>4. DueInTime'
  <2> SUFFICES ASSUME NEW q \in DOMAIN dispatchQ, NEW i \in DOMAIN accepted,
                      dispatchQ[q] = accepted[i].mad
               PROVE  accepted[i].wake <= now'
    BY DEF DueInTime
  <2>1. accepted[i].wake <= now
    BY DEF DelayInv, DueInTime
  <2>2. accepted[i].wake \in Nat
    <3>1. accepted[i] \in Items
      BY ElementOfSeq DEF TypeOK
    <3> QED
      BY <3>1 DEF Items
  <2> QED
    BY <2>1, <2>2 DEF TypeOK
<1>5. OrderKept'
  BY <1>1 DEF DelayInv, OrderKept, InOrder
<1> QED
  BY <1>2, <1>3, <1>4, <1>5 DEF DelayInv

\* A caller stamps its MAD: it is due before the clock stops.
LEMMA DelayStamp ==
  ASSUME TypeOK, DelayInv, NEW m \in Mads, NEW d \in Delays, StampMad(m, d)
  PROVE  DelayInv'
<1>1. InBound'
  BY DEF StampMad, DelayInv, InBound
<1>2. UNCHANGED <<waitQ, dispatchQ, accepted, taken, now, timer, hand, routed>>
  BY DEF StampMad
<1>3. (HandMads \cup routed)' = HandMads \cup routed
  BY <1>2 DEF HandMads
<1>4. now' \in Nat /\ now <= now' /\ MoveIsDue'
  BY <1>2 DEF TypeOK, DelayInv, MoveIsDue
<1> QED
  BY <1>1, <1>2, <1>3, <1>4, DelayFrame

\* A caller inserts its item: the items due no later stay before it.
LEMMA DelayInsert ==
  ASSUME TypeOK, Conservation, DelayInv, NEW item \in stamped, InsertMad(item)
  PROVE  DelayInv'
<1> DEFINE n == Len(accepted)
<1>1. /\ item \in Items /\ waitQ \in Seq(Items) /\ accepted \in Seq(Items)
      /\ waitQ' = InsertByWakeup(waitQ, item) /\ accepted' = Append(accepted, item)
      /\ UNCHANGED <<now, dispatchQ, hand, routed, taken, TakenMads, DueMads, HandMads>>
      /\ stamped' \subseteq stamped
      /\ WakeupLockFree
  BY DEF TypeOK, InsertMad, TakenMads, DueMads, HandMads, ToSet
<1>2. /\ n \in Nat /\ DOMAIN accepted = 1 .. n /\ DOMAIN accepted' = 1 .. n + 1
      /\ \A i \in 1 .. n : accepted'[i] = accepted[i]
      /\ accepted'[n + 1] = item
  BY <1>1
<1> HIDE DEF n
<1>3. item.mad \notin AcceptedMads /\ item.mad \notin WaitingMads \cup DueMads \cup TakenMads
  BY DEF Conservation, StampedFresh, NoMadLost, DelayInv, History
<1>4. \A i \in 1 .. n : accepted[i].mad # item.mad
  BY <1>2, <1>3 DEF AcceptedMads, MadsIn
<1>5. \A i \in DOMAIN waitQ : waitQ[i].mad # item.mad
  BY <1>3 DEF WaitingMads, MadsIn
<1>6. \A i \in DOMAIN dispatchQ : dispatchQ[i] \in DueMads
  BY DEF DueMads, ToSet
<1>7. Sorted(waitQ)
  BY DEF DelayInv, WaitingSorted
<1>8. PICK p \in DOMAIN waitQ' :
        /\ waitQ'[p] = item
        /\ \A i \in DOMAIN waitQ : waitQ[i].wake <= item.wake =>
             \E k \in DOMAIN waitQ' : k < p /\ waitQ'[k] = waitQ[i]
        /\ \A k \in DOMAIN waitQ' \ {p} : \E i \in DOMAIN waitQ :
             /\ waitQ'[k] = waitQ[i]
             /\ \A j \in DOMAIN waitQ : j < i =>
                  \E h \in DOMAIN waitQ' : h < k /\ waitQ'[h] = waitQ[j]
  BY <1>1, <1>7, InsertOrder
<1>9. History'
  BY <1>1, <1>2, <1>4 DEF DelayInv, History, NoRepeatedMad
<1>10. InBound'
  BY <1>1 DEF DelayInv, InBound
<1>11. MoveIsDue'
  BY DEF InsertMad, WakeupLockFree, MoveIsDue
<1>12. WaitingSorted'
  <2>1. Sorted(waitQ')
    BY <1>1, <1>7, InsertOrder
  <2>2. ASSUME NEW k \in DOMAIN waitQ'
        PROVE  \E i \in DOMAIN accepted' : waitQ'[k] = accepted'[i]
    <3>1. CASE k = p
      BY <1>2, <1>8, <3>1
    <3>2. CASE k # p
      <4>1. \E i \in DOMAIN waitQ : waitQ'[k] = waitQ[i]
        BY <1>8, <3>2
      <4>2. \E i \in 1 .. n : waitQ'[k] = accepted[i]
        BY <1>2, <4>1 DEF DelayInv, WaitingSorted
      <4> QED
        BY <1>2, <4>2
    <3> QED
      BY <3>1, <3>2
  <2> QED
    BY <2>1, <2>2 DEF WaitingSorted, Sorted
<1>13. DueInTime'
  BY <1>1, <1>2, <1>3, <1>6 DEF DelayInv, DueInTime
<1>14. OrderKept'
  <2> SUFFICES ASSUME NEW i \in 1 .. n + 1, NEW j \in 1 .. n + 1, j < i,
                      accepted'[j].wake <= accepted'[i].wake
               PROVE  InOrder(j, i)'
    BY <1>2 DEF OrderKept
  <2>1. j \in 1 .. n /\ accepted'[j] = accepted[j]
    BY <1>2
  <2>2. CASE i = n + 1
    <3>1. accepted'[i] = item
      BY <1>2, <2>2
    <3>2. accepted[j].mad \in WaitingMads \cup DueMads \cup TakenMads
      BY <1>2, <2>1 DEF AcceptedMads, MadsIn, Conservation, NoMadLost, DelayInv, History
    <3>3. ASSUME NEW q \in DOMAIN waitQ', waitQ'[q] = item,
                 accepted[j].mad \notin TakenMads \cup DueMads
          PROVE  \E k \in DOMAIN waitQ' : k < q /\ waitQ'[k] = accepted[j]
      <4>1. q = p
        BY <1>5, <1>8, <3>3
      <4>2. PICK r \in DOMAIN waitQ : waitQ[r].mad = accepted[j].mad
        BY <3>2, <3>3 DEF WaitingMads, MadsIn
      <4>3. waitQ[r] = accepted[j]
        BY <1>2, <2>1, <4>2 DEF DelayInv, WaitingSorted, History, NoRepeatedMad
      <4> QED
        BY <1>8, <2>1, <3>1, <4>1, <4>3
    <3> QED
      BY <1>1, <1>3, <1>6, <2>1, <3>1, <3>3 DEF InOrder
  <2>3. CASE i \in 1 .. n
    <3>1. accepted'[i] = accepted[i] /\ InOrder(j, i)
      BY <1>2, <2>1, <2>3 DEF DelayInv, OrderKept
    <3>2. ASSUME NEW q \in DOMAIN waitQ', waitQ'[q] = accepted[i],
                 accepted[j].mad \notin TakenMads \cup DueMads
          PROVE  \E k \in DOMAIN waitQ' : k < q /\ waitQ'[k] = accepted[j]
      <4>1. q # p
        BY <1>4, <1>8, <2>3, <3>2
      <4>2. PICK r \in DOMAIN waitQ :
              /\ waitQ'[q] = waitQ[r]
              /\ \A s \in DOMAIN waitQ : s < r =>
                   \E h \in DOMAIN waitQ' : h < q /\ waitQ'[h] = waitQ[s]
        BY <1>8, <4>1
      <4>3. \E s \in DOMAIN waitQ : s < r /\ waitQ[s] = accepted[j]
        BY <3>1, <3>2, <4>2 DEF InOrder
      <4> QED
        BY <4>2, <4>3
    <3> QED
      BY <1>1, <2>1, <3>1, <3>2 DEF InOrder
  <2> QED
    BY <1>2, <2>2, <2>3
<1> QED
  BY <1>9, <1>10, <1>11, <1>12, <1>13, <1>14 DEF DelayInv

\* What the places of a queue hold after Append and after Tail.
LEMMA AppendPlaces ==
  ASSUME NEW S, NEW q \in Seq(S), NEW e \in S
  PROVE  /\ DOMAIN q \subseteq DOMAIN Append(q, e)
         /\ \A i \in DOMAIN q : Append(q, e)[i] = q[i] /\ i < Len(q) + 1
         /\ Append(q, e)[Len(q) + 1] = e
         /\ Len(q) + 1 \in DOMAIN Append(q, e)
         /\ \A i \in DOMAIN Append(q, e) : i \in DOMAIN q \/ i = Len(q) + 1
  OBVIOUS

LEMMA TailPlaces ==
  ASSUME NEW S, NEW q \in Seq(S), q # <<>>
  PROVE  /\ \A i \in DOMAIN Tail(q) : i + 1 \in DOMAIN q /\ Tail(q)[i] = q[i + 1]
         /\ \A i \in DOMAIN q : i > 1 => i - 1 \in DOMAIN Tail(q) /\ Tail(q)[i - 1] = q[i]
         /\ 1 \in DOMAIN q /\ Head(q) = q[1]
         /\ \A i \in DOMAIN q : i \in Nat /\ i >= 1
         /\ \A i \in DOMAIN Tail(q) : i \in Nat /\ i >= 1
<1>1. /\ Tail(q) \in Seq(S)
      /\ DOMAIN Tail(q) = 1 .. Len(q) - 1
      /\ \A i \in 1 .. Len(q) - 1 : Tail(q)[i] = q[i + 1]
      /\ Head(q) = q[1]
      /\ DOMAIN q = 1 .. Len(q) /\ Len(q) \in Nat /\ Len(q) >= 1
  BY HeadTailProperties, EmptySeq
<1>2. ASSUME NEW i \in DOMAIN q, i > 1
      PROVE  i - 1 \in DOMAIN Tail(q) /\ Tail(q)[i - 1] = q[i]
  <2>1. i - 1 \in 1 .. Len(q) - 1 /\ i - 1 + 1 = i
    BY <1>1, <1>2
  <2>2. Tail(q)[i - 1] = q[i - 1 + 1]
    BY <1>1, <2>1
  <2> QED
    BY <1>1, <2>1, <2>2
<1> QED
  BY <1>1, <1>2

\* The timer thread moves the first item: it is due, and what may not be behind
\* it was taken or is in the dispatch queue, where it goes to the end.
LEMMA DelayMove ==
  ASSUME TypeOK, MoveHasMad, Conservation, DelayInv, TimerMove
  PROVE  DelayInv'
<1> DEFINE m == Head(waitQ).mad
           n == Len(dispatchQ)
<1>1. /\ waitQ \in Seq(Items) /\ waitQ # <<>> /\ dispatchQ \in Seq(Mads)
      /\ waitQ' = Tail(waitQ) /\ dispatchQ' = Append(dispatchQ, m)
      /\ UNCHANGED <<now, stamped, hand, routed, accepted, taken, TakenMads, HandMads>>
      /\ timer = "move"
  BY DEF TypeOK, MoveHasMad, TimerMove, TakenMads, HandMads, ToSet
<1>2. m \in Mads
  <2>1. Head(waitQ) \in Items
    BY <1>1, HeadTailProperties
  <2> QED
    BY <2>1 DEF Items
<1>3. Head(waitQ) = waitQ[1] /\ m = waitQ[1].mad /\ 1 \in DOMAIN waitQ
  BY <1>1, TailPlaces
<1> HIDE DEF m
<1>4. DueMads' = DueMads \cup {m}
  <2>1. ToSet(Append(dispatchQ, m)) = ToSet(dispatchQ) \cup {m}
    BY <1>1, <1>2, AppendElements
  <2>2. DueMads' = ToSet(dispatchQ')
    BY DEF DueMads, ToSet
  <2> QED
    BY <1>1, <2>1, <2>2 DEF DueMads
<1>5. /\ DOMAIN dispatchQ \subseteq DOMAIN dispatchQ'
      /\ \A i \in DOMAIN dispatchQ : dispatchQ'[i] = dispatchQ[i] /\ i < n + 1
      /\ dispatchQ'[n + 1] = m
      /\ n + 1 \in DOMAIN dispatchQ'
      /\ \A i \in DOMAIN dispatchQ' : i \in DOMAIN dispatchQ \/ i = n + 1
  BY <1>1, <1>2, AppendPlaces
<1> HIDE DEF n
<1>6. /\ \A i \in DOMAIN waitQ' : i + 1 \in DOMAIN waitQ /\ waitQ'[i] = waitQ[i + 1]
      /\ \A i \in DOMAIN waitQ : i > 1 => i - 1 \in DOMAIN waitQ' /\ waitQ'[i - 1] = waitQ[i]
      /\ \A i \in DOMAIN waitQ : i \in Nat /\ i >= 1
      /\ \A i \in DOMAIN waitQ' : i \in Nat /\ i >= 1
  BY <1>1, TailPlaces
<1>7. \A i \in DOMAIN accepted : accepted[i].mad = m => waitQ[1] = accepted[i]
  BY <1>3 DEF DelayInv, WaitingSorted, History, NoRepeatedMad
<1>8. History'
  BY <1>1 DEF DelayInv, History, NoRepeatedMad
<1>9. InBound' /\ MoveIsDue'
  BY <1>1 DEF DelayInv, InBound, MoveIsDue, TimerMove
<1>10. WaitingSorted'
  <2>1. \A k \in DOMAIN waitQ' : \E i \in DOMAIN accepted' : waitQ'[k] = accepted'[i]
    BY <1>1, <1>6 DEF DelayInv, WaitingSorted
  <2>2. Sorted(waitQ')
    <3> SUFFICES ASSUME NEW i \in DOMAIN waitQ', NEW k \in DOMAIN waitQ', i <= k
                 PROVE  waitQ'[i].wake <= waitQ'[k].wake
      BY DEF Sorted
    <3>1. i + 1 <= k + 1
      BY <1>6
    <3> QED
      BY <1>6, <3>1 DEF DelayInv, WaitingSorted, Sorted
  <2> QED
    BY <2>1, <2>2 DEF WaitingSorted, Sorted
<1>11. DueInTime'
  <2> SUFFICES ASSUME NEW q \in DOMAIN dispatchQ', NEW i \in DOMAIN accepted,
                      dispatchQ'[q] = accepted[i].mad
               PROVE  accepted[i].wake <= now
    BY <1>1 DEF DueInTime
  <2>1. CASE q \in DOMAIN dispatchQ
    BY <1>5, <2>1 DEF DelayInv, DueInTime
  <2>2. CASE q = n + 1
    BY <1>1, <1>3, <1>5, <1>7, <2>2 DEF DelayInv, MoveIsDue
  <2> QED
    BY <1>5, <2>1, <2>2
<1>12. OrderKept'
  <2> SUFFICES ASSUME NEW i \in DOMAIN accepted, NEW j \in DOMAIN accepted, j < i,
                      accepted[j].wake <= accepted[i].wake
               PROVE  InOrder(j, i)'
    BY <1>1 DEF OrderKept
  <2>1. InOrder(j, i)
    BY DEF DelayInv, OrderKept
  <2>2. ASSUME NEW q \in DOMAIN dispatchQ', dispatchQ'[q] = accepted[i].mad,
               accepted[j].mad \notin TakenMads
        PROVE  \E p \in DOMAIN dispatchQ' : p < q /\ dispatchQ'[p] = accepted[j].mad
    <3>1. CASE q \in DOMAIN dispatchQ
      BY <1>5, <2>1, <2>2, <3>1 DEF InOrder
    <3>2. CASE q = n + 1
      <4>1. waitQ[1] = accepted[i]
        BY <1>5, <1>7, <2>2, <3>2
      <4>2. accepted[j].mad \in DueMads
        BY <1>3, <1>6, <2>1, <2>2, <4>1 DEF InOrder
      <4>3. \E p \in DOMAIN dispatchQ : dispatchQ[p] = accepted[j].mad
        BY <4>2 DEF DueMads, ToSet
      <4> QED
        BY <1>5, <3>2, <4>3
    <3> QED
      BY <1>5, <3>1, <3>2
  <2>3. ASSUME NEW q \in DOMAIN waitQ', waitQ'[q] = accepted[i],
               accepted[j].mad \notin TakenMads \cup DueMads'
        PROVE  \E p \in DOMAIN waitQ' : p < q /\ waitQ'[p] = accepted[j]
    <3>1. q + 1 \in DOMAIN waitQ /\ waitQ[q + 1] = accepted[i]
      BY <1>6, <2>3
    <3>2. PICK p \in DOMAIN waitQ : p < q + 1 /\ waitQ[p] = accepted[j]
      BY <1>4, <2>1, <2>3, <3>1 DEF InOrder
    <3>3. p # 1
      BY <1>3, <1>4, <2>3, <3>2
    <3>4. p > 1 /\ p - 1 < q
      BY <1>6, <3>2, <3>3
    <3> QED
      BY <1>6, <3>2, <3>4
  <2> QED
    BY <1>1, <2>1, <2>2, <2>3 DEF InOrder
<1> QED
  BY <1>8, <1>9, <1>10, <1>11, <1>12 DEF DelayInv

\* A worker takes the first MAD: whatever may not be behind it was taken before.
LEMMA DelayTake ==
  ASSUME TypeOK, Conservation, DelayInv, NEW w \in Workers, WorkerTake(w)
  PROVE  DelayInv'
<1> DEFINE m == Head(dispatchQ)
<1>1. /\ dispatchQ \in Seq(Mads) /\ dispatchQ # <<>> /\ taken \in Seq(Mads)
      /\ dispatchQ' = Tail(dispatchQ) /\ taken' = Append(taken, m)
      /\ UNCHANGED <<now, stamped, waitQ, timer, routed, accepted>>
      /\ hand[w] = {}
  BY DEF TypeOK, WorkerTake
<1>2. m \in Mads
  BY <1>1, HeadTailProperties
<1>3. 1 \in DOMAIN dispatchQ /\ m = dispatchQ[1]
  BY <1>1, TailPlaces
<1>4. /\ \A i \in DOMAIN dispatchQ' : i + 1 \in DOMAIN dispatchQ /\ dispatchQ'[i] = dispatchQ[i + 1]
      /\ \A i \in DOMAIN dispatchQ : i > 1 =>
           i - 1 \in DOMAIN dispatchQ' /\ dispatchQ'[i - 1] = dispatchQ[i]
      /\ \A i \in DOMAIN dispatchQ : i \in Nat /\ i >= 1
      /\ \A i \in DOMAIN dispatchQ' : i \in Nat /\ i >= 1
  BY <1>1, TailPlaces
<1>5. HandMads' = HandMads \cup {m}
  <2>1. /\ hand'[w] = {m}
        /\ \A v \in Workers : v # w => hand'[v] = hand[v]
    BY DEF WorkerTake, TypeOK
  <2> QED
    BY <1>1, <2>1 DEF HandMads
<1> HIDE DEF m
<1>6. TakenMads' = TakenMads \cup {m}
  <2>1. ToSet(Append(taken, m)) = ToSet(taken) \cup {m}
    BY <1>1, <1>2, AppendElements
  <2>2. TakenMads' = ToSet(taken')
    BY DEF TakenMads, ToSet
  <2> QED
    BY <1>1, <2>1, <2>2 DEF TakenMads
<1>7. DueMads = DueMads' \cup {m}
  <2>1. ToSet(dispatchQ) = ToSet(Tail(dispatchQ)) \cup {Head(dispatchQ)}
    BY <1>1, TailElements
  <2>2. DueMads' = ToSet(dispatchQ')
    BY DEF DueMads, ToSet
  <2> QED
    BY <1>1, <2>1, <2>2 DEF DueMads, m
<1>8. History'
  BY <1>1, <1>5, <1>6 DEF DelayInv, History, NoRepeatedMad
<1>9. InBound' /\ MoveIsDue' /\ WaitingSorted'
  BY <1>1 DEF DelayInv, InBound, MoveIsDue, WaitingSorted, Sorted
<1>10. DueInTime'
  BY <1>1, <1>4 DEF DelayInv, DueInTime
<1>11. OrderKept'
  <2> SUFFICES ASSUME NEW i \in DOMAIN accepted, NEW j \in DOMAIN accepted, j < i,
                      accepted[j].wake <= accepted[i].wake
               PROVE  InOrder(j, i)'
    BY <1>1 DEF OrderKept
  <2>1. InOrder(j, i)
    BY DEF DelayInv, OrderKept
  <2>2. accepted[i].mad = m => accepted[j].mad \in TakenMads
    BY <1>3, <1>4, <2>1 DEF InOrder
  <2>3. accepted[i].mad \in TakenMads' => accepted[j].mad \in TakenMads'
    BY <1>6, <2>1, <2>2 DEF InOrder
  <2>4. ASSUME NEW q \in DOMAIN dispatchQ', dispatchQ'[q] = accepted[i].mad,
               accepted[j].mad \notin TakenMads'
        PROVE  \E p \in DOMAIN dispatchQ' : p < q /\ dispatchQ'[p] = accepted[j].mad
    <3>1. q + 1 \in DOMAIN dispatchQ /\ dispatchQ[q + 1] = accepted[i].mad
      BY <1>4, <2>4
    <3>2. PICK p \in DOMAIN dispatchQ : p < q + 1 /\ dispatchQ[p] = accepted[j].mad
      BY <1>6, <2>1, <2>4, <3>1 DEF InOrder
    <3>3. p # 1
      BY <1>3, <1>6, <2>4, <3>2
    <3>4. p > 1 /\ p - 1 < q
      BY <1>4, <3>2, <3>3
    <3> QED
      BY <1>4, <3>2, <3>4
  <2>5. ASSUME NEW q \in DOMAIN waitQ, waitQ[q] = accepted[i],
               accepted[j].mad \notin TakenMads' \cup DueMads'
        PROVE  \E p \in DOMAIN waitQ : p < q /\ waitQ[p] = accepted[j]
    BY <1>6, <1>7, <2>1, <2>5 DEF InOrder
  <2> QED
    BY <1>1, <2>3, <2>4, <2>5 DEF InOrder
<1> QED
  BY <1>8, <1>9, <1>10, <1>11 DEF DelayInv

\* Every step of the dispatcher preserves the invariant of the refinement.
LEMMA DelayStep ==
  ASSUME TypeOK, MoveHasMad, Conservation, DelayInv, [Next]_vars
  PROVE  DelayInv'
<1> DEFINE Quiet == /\ UNCHANGED <<waitQ, dispatchQ, accepted, taken, stamped>>
                    /\ (HandMads \cup routed)' = HandMads \cup routed
                    /\ now' \in Nat /\ now <= now' /\ MoveIsDue'
<1>1. Quiet => DelayInv'
  <2>1. UNCHANGED stamped => InBound'
    BY DEF DelayInv, InBound
  <2> QED
    BY <2>1, DelayFrame
<1>2. ASSUME NEW m \in Mads, NEW d \in Delays, StampMad(m, d)
      PROVE  DelayInv'
  BY <1>2, DelayStamp
<1>3. ASSUME NEW item \in stamped, InsertMad(item)
      PROVE  DelayInv'
  BY <1>3, DelayInsert
<1>4. CASE TimerFindDue \/ TimerWait \/ TimerTimeout \/ TimerSpuriousWakeup \/ TimerResume
  <2>1. Quiet
    BY <1>4 DEF TimerFindDue, TimerWait, TimerTimeout, TimerSpuriousWakeup, TimerResume,
                MoveIsDue, TypeOK, HandMads
  <2> QED
    BY <1>1, <2>1
<1>5. CASE TimerMove
  BY <1>5, DelayMove
<1>6. ASSUME NEW w \in Workers, WorkerTake(w)
      PROVE  DelayInv'
  BY <1>6, DelayTake
<1>7. ASSUME NEW w \in Workers, WorkerWait(w) \/ WorkerSpuriousWakeup(w)
      PROVE  DelayInv'
  <2>1. Quiet
    BY <1>7 DEF WorkerWait, WorkerSpuriousWakeup, DelayInv, MoveIsDue, TypeOK, HandMads
  <2> QED
    BY <1>1, <2>1
<1>8. ASSUME NEW w \in Workers, WorkerRouted(w)
      PROVE  DelayInv'
  <2>1. /\ hand'[w] = {}
        /\ \A v \in Workers : v # w => hand'[v] = hand[v]
        /\ routed' = routed \cup hand[w]
    BY <1>8 DEF WorkerRouted, TypeOK
  <2>2. (HandMads \cup routed)' = HandMads \cup routed
    BY <2>1 DEF HandMads
  <2>3. Quiet
    BY <1>8, <2>2 DEF WorkerRouted, DelayInv, MoveIsDue, TypeOK
  <2> QED
    BY <1>1, <2>3
<1>9. CASE Tick
  <2>1. timer = "move" => Head(waitQ).wake \in Nat
    <3>1. timer = "move" => Head(waitQ) \in Items
      BY HeadTailProperties DEF TypeOK, MoveHasMad
    <3> QED
      BY <3>1 DEF Items
  <2>2. Quiet
    BY <1>9, <2>1 DEF Tick, DelayInv, MoveIsDue, TypeOK, HandMads
  <2> QED
    BY <1>1, <2>2
<1>10. CASE UNCHANGED vars
  <2>1. Quiet
    BY <1>10 DEF vars, DelayInv, MoveIsDue, TypeOK, HandMads
  <2> QED
    BY <1>1, <2>1
<1> QED
  BY <1>2, <1>3, <1>4, <1>5, <1>6, <1>7, <1>8, <1>9, <1>10 DEF Next, TimerStep, WorkerStep

-----------------------------------------------------------------------------
\* The initial state of the dispatcher is the empty line.
LEMMA LineInitial == Init => Line!LineInit
  BY DEF Init, Line!LineInit, ToSet

\* Every step of the dispatcher is a step of the line or hides from it.
LEMMA LineStep ==
  ASSUME TypeOK, MoveHasMad, Conservation, DelayInv, [Next]_vars
  PROVE  [Line!LineNext]_(Line!lineVars)
<1>1. UNCHANGED <<now, accepted, taken>> => UNCHANGED Line!lineVars
  BY DEF Line!lineVars, ToSet
<1>2. ASSUME NEW item \in stamped, InsertMad(item)
      PROVE  Line!LineNext
  <2>1. item \in Items /\ item.mad \in Mads /\ item.wake \in Nat
        /\ item = [mad |-> item.mad, wake |-> item.wake]
    BY DEF TypeOK, Items
  <2>2. item.wake \in 0 .. MaxTime
    BY <2>1 DEF DelayInv, InBound
  <2>3. \A i \in DOMAIN accepted : accepted[i].mad # item.mad
    BY DEF Conservation, StampedFresh, AcceptedMads, MadsIn
  <2>4. Line!Accept(item.mad, item.wake)
    BY <1>2, <2>1, <2>3 DEF InsertMad, Line!Accept, ToSet
  <2> QED
    BY <2>1, <2>2, <2>4 DEF Line!LineNext
<1>3. ASSUME NEW w \in Workers, WorkerTake(w)
      PROVE  Line!LineNext
  <2> DEFINE m == Head(dispatchQ)
  <2>1. dispatchQ \in Seq(Mads) /\ dispatchQ # <<>> /\ taken \in Seq(Mads)
    BY <1>3 DEF TypeOK, WorkerTake
  <2>2. m \in Mads
    BY <2>1, HeadTailProperties
  <2>3. /\ m = dispatchQ[1] /\ 1 \in DOMAIN dispatchQ
        /\ \A p \in DOMAIN dispatchQ : p \in Nat /\ p >= 1
    BY <2>1, TailPlaces
  <2>4. ToSet(taken') = ToSet(taken) \cup {m}
    BY <1>3, <2>1, <2>2, AppendElements DEF WorkerTake
  <2>5. UNCHANGED <<now, accepted>>
    BY <1>3 DEF WorkerTake
  <2> HIDE DEF m
  <2>6. m \in DueMads
    BY <2>3 DEF DueMads, ToSet
  <2>7. PICK i \in DOMAIN accepted : accepted[i].mad = m
    BY <2>6 DEF Conservation, NoMadLost, AcceptedMads, MadsIn
  <2>8. accepted[i].mad \notin ToSet(taken)
    BY <2>6, <2>7 DEF Conservation, NoMadTwice, DelayInv, History, TakenMads
  <2>9. accepted[i].wake <= now
    BY <2>3, <2>7 DEF DelayInv, DueInTime
  <2>10. ASSUME NEW j \in 1 .. i - 1, accepted[j].wake <= accepted[i].wake
         PROVE  accepted[j].mad \in ToSet(taken)
    <3>1. j \in DOMAIN accepted /\ j < i
      BY DEF TypeOK
    <3>2. InOrder(j, i)
      BY <2>10, <3>1 DEF DelayInv, OrderKept
    <3> QED
      BY <2>3, <2>7, <3>2 DEF InOrder, TakenMads
  <2>11. Line!Deliver(i)
    BY <2>4, <2>5, <2>7, <2>8, <2>9, <2>10 DEF Line!Deliver
  <2> QED
    BY <2>11 DEF Line!LineNext
<1>4. CASE Tick
  <2>1. Line!PassTime
    BY <1>4 DEF Tick, Line!PassTime, ToSet
  <2> QED
    BY <2>1 DEF Line!LineNext
<1>5. CASE UNCHANGED <<now, accepted, taken>>
  BY <1>1, <1>5
<1> QED
  BY <1>2, <1>3, <1>4, <1>5
     DEF Next, TimerStep, WorkerStep, StampMad, TimerFindDue, TimerWait, TimerMove,
         TimerTimeout, TimerSpuriousWakeup, TimerResume, WorkerWait, WorkerRouted,
         WorkerSpuriousWakeup, vars

\* The dispatcher implements the delay line: every MAD is routed once, never
\* before its time, never overtaken by a later one that is due no earlier.
THEOREM DispatcherIsDelayLine == Spec => ImplementsDelayLine
<1> DEFINE Inv == TypeOK /\ MoveHasMad /\ Conservation /\ DelayInv
<1>1. Init => Inv
  BY TypeInit, ConservationInit, DelayInit
<1>2. Inv /\ [Next]_vars => Inv'
  BY TypeStep, ConservationStep, DelayStep
<1>3. Inv /\ [Next]_vars => [Line!LineNext]_(Line!lineVars)
  BY LineStep
<1> HIDE DEF Inv
<1> QED
  BY <1>1, <1>2, <1>3, LineInitial, PTL DEF Spec, ImplementsDelayLine, Line!LineSafety
==============================================================================
