---------------------------- MODULE GsiBatchProofs ----------------------------
(***************************************************************************)
(* Proofs about the synchronous MAD batches, for any number of callers,    *)
(* callbacks, memory blocks, MADs and batches.                             *)
(*                                                                         *)
(* The first part holds whether or not waits run out: an entry of the map  *)
(* leads to the live context of its batch.  The second part is about       *)
(* behaviours in which every answer comes in time: the count of            *)
(* outstanding MADs is exact, a callback finds the context of its batch,   *)
(* and a call that returns success has every report.                       *)
(***************************************************************************)
EXTENDS GsiBatch, FiniteSetTheorems, TLAPS

Busy(c) == caller[c].pc # "idle"

BlockType == [live : BOOLEAN, id : 0 .. MaxBatches, out : Nat,
              allSent : BOOLEAN, signaled : BOOLEAN, lock : Threads \cup {NoOne}]

CallerType ==
  [pc : {"idle", "send", "count", "limit", "wait", "relock", "unlock", "remove", "free"},
   addr : Addrs, left : 0 .. MaxMads, some : BOOLEAN, limit : Nat,
   status : {"success", "error"}]

WorkerType ==
  [pc : {"idle", "lookup", "ctxlock", "record", "finish"}, addr : Addrs, mad : MadSet]

\* The types of the variables when waits may run out: a late callback counts
\* below zero, and num_outstanding wraps.
WideTypeOK ==
  /\ late \in BOOLEAN
  /\ mapLock \in Workers \cup {NoOne}
  /\ DOMAIN active \subseteq Ids /\ \A id \in DOMAIN active : active[id] \in Addrs
  /\ nextId \in 1 .. MaxBatches + 1
  /\ mem \in [Addrs -> BlockType]
  /\ caller \in [Callers -> CallerType]
  /\ worker \in [Workers -> WorkerType]
  /\ inflight \subseteq MadSet /\ sent \subseteq MadSet /\ counted \subseteq MadSet
  /\ returned \in [Ids -> {"none", "success", "error"}]
  /\ answered \subseteq MadSet /\ results \subseteq Ids \X MadSet
  /\ \A c \in Callers : At(c, "count") => caller[c].left > 0

\* Each call that is under way owns a live context, alone, and every entry of
\* the map belongs to one of them that has not removed it yet.
ContextsOwned ==
  /\ \A c \in Callers : Busy(c) => Ctx(c).live /\ Ctx(c).id \in 1 .. nextId - 1
  /\ \A c, d \in Callers : c # d /\ Busy(c) /\ Busy(d) =>
       caller[c].addr # caller[d].addr /\ Ctx(c).id # Ctx(d).id
  /\ \A id \in DOMAIN active : \E c \in Callers :
       /\ Busy(c) /\ ~At(c, "free")
       /\ caller[c].addr = active[id] /\ Ctx(c).id = id

MapInv == WideTypeOK /\ ContextsOwned

\* The bounds, without the width of the counter.
LEMMA Bounds == MaxMads \in Nat \ {0} /\ MaxBatches \in Nat \ {0}
  BY BatchAssumption

\* The values of idle threads and free blocks have the types.
LEMMA InitialValues ==
  /\ IdleCaller \in CallerType /\ IdleCaller.pc = "idle"
  /\ IdleWorker \in WorkerType /\ IdleWorker.pc = "idle"
  /\ Zeroed \in BlockType /\ ~Zeroed.live
<1>1. (CHOOSE a \in Addrs : TRUE) \in Addrs
  BY BatchAssumption
<1> QED
  BY <1>1, BatchAssumption
     DEF IdleCaller, IdleWorker, Zeroed, CallerType, WorkerType, BlockType, MadSet, Ids, Threads

\* The initial state satisfies the invariant.
LEMMA MapInit == Init => MapInv
<1> SUFFICES ASSUME Init PROVE MapInv
  OBVIOUS
<1>1. WideTypeOK
  BY BatchAssumption, InitialValues DEF Init, WideTypeOK, Ids, At
<1>2. ContextsOwned
  BY InitialValues DEF Init, ContextsOwned, Busy
<1> QED
  BY <1>1, <1>2 DEF MapInv

\* The fields of a block and of a caller that the steps assign.
LEMMA BlockFlags ==
  ASSUME NEW b \in BlockType
  PROVE  /\ [b EXCEPT !.signaled = FALSE] \in BlockType
         /\ [b EXCEPT !.allSent = TRUE] \in BlockType
  BY DEF BlockType

LEMMA BlockLock ==
  ASSUME NEW b \in BlockType, NEW t \in Threads \cup {NoOne}
  PROVE  /\ [b EXCEPT !.lock = t] \in BlockType
         /\ [b EXCEPT !.allSent = TRUE, !.lock = t] \in BlockType
<1> HIDE DEF Threads
<1> QED
  BY DEF BlockType

LEMMA BlockNew ==
  ASSUME NEW b \in BlockType, NEW t \in Threads \cup {NoOne}, NEW k \in Ids
  PROVE  [b EXCEPT !.live = TRUE, !.id = k, !.lock = t] \in BlockType
<1>1. k \in 0 .. MaxBatches
  BY BatchAssumption DEF Ids
<1> HIDE DEF Ids, Threads
<1> QED
  BY <1>1 DEF BlockType

LEMMA CallerFields ==
  ASSUME NEW r \in CallerType
  PROVE  /\ r.addr \in Addrs /\ r.left \in 0 .. MaxMads /\ r.limit \in Nat
         /\ r.status \in {"success", "error"} /\ r.some \in BOOLEAN
  BY DEF CallerType

LEMMA CallerNew ==
  ASSUME NEW r \in CallerType, NEW a \in Addrs, NEW n \in 0 .. MaxMads
  PROVE  [r EXCEPT !.pc = "send", !.addr = a, !.left = n] \in CallerType
  BY DEF CallerType

\* A caller's own step keeps the types.
LEMMA CallerTypes ==
  ASSUME MapInv, NEW c \in Callers, CallerStep(c)
  PROVE  WideTypeOK'
<1> USE DEF MapInv
<1>1. /\ caller[c].addr \in Addrs /\ caller[c].left \in 0 .. MaxMads
      /\ caller[c] \in CallerType /\ Ctx(c) \in BlockType
  BY DEF WideTypeOK, CallerType, Ctx
<1>2. Busy(c) => Ctx(c).id \in Ids
  BY Bounds DEF ContextsOwned, WideTypeOK, Ids
<1>3. CASE SendMad(c)
  <2>1. [batch |-> Ctx(c).id, idx |-> caller[c].left] \in MadSet
    BY <1>1, <1>2, <1>3 DEF SendMad, At, Busy, MadSet
  <2>2. /\ caller' \in [Callers -> CallerType]
        /\ \A d \in Callers : At(d, "count")' => caller'[d].left > 0
    BY <1>1, <1>3 DEF SendMad, WideTypeOK, CallerType, At
  <2> QED
    BY <1>3, <2>1, <2>2 DEF SendMad, WideTypeOK, CallerStep, data
<1>4. CASE CountSent(c)
  <2>1. mem' \in [Addrs -> BlockType]
    BY <1>1, <1>4 DEF CountSent, WideTypeOK, BlockType
  <2>2. /\ caller' \in [Callers -> CallerType]
        /\ \A d \in Callers : At(d, "count")' => caller'[d].left > 0
    BY <1>1, <1>4 DEF CountSent, WideTypeOK, CallerType, At
  <2> QED
    BY <1>4, <2>1, <2>2 DEF CountSent, WideTypeOK, CallerStep, data
<1>5. CASE SendFails(c)
  <2>1. /\ caller' \in [Callers -> CallerType]
        /\ \A d \in Callers : At(d, "count")' => caller'[d].left > 0
    BY <1>1, <1>5, Bounds DEF SendFails, WideTypeOK, CallerType, At
  <2> QED
    BY <1>5, <2>1 DEF SendFails, WideTypeOK, CallerStep, data
<1>6. CASE AllSent(c)
  <2>1. mem' \in [Addrs -> BlockType]
    <3> DEFINE kept == [mem[caller[c].addr] EXCEPT !.allSent = TRUE]
               left == [mem[caller[c].addr] EXCEPT !.allSent = TRUE, !.lock = NoOne]
    <3>1. mem[caller[c].addr] \in BlockType /\ NoOne \in Threads \cup {NoOne}
      BY <1>1 DEF Ctx
    <3>2. kept \in BlockType /\ left \in BlockType
      BY <3>1, BlockFlags, BlockLock, Zenon
    <3>3. \/ mem' = [mem EXCEPT ![caller[c].addr] = kept]
          \/ mem' = [mem EXCEPT ![caller[c].addr] = left]
      BY <1>6, Zenon DEF AllSent
    <3> HIDE DEF kept, left
    <3> QED
      BY <3>2, <3>3 DEF WideTypeOK
  <2>2. /\ caller' \in [Callers -> CallerType]
        /\ \A d \in Callers : At(d, "count")' => caller'[d].left > 0
    BY <1>1, <1>6 DEF AllSent, WideTypeOK, CallerType, At
  <2> QED
    BY <1>6, <2>1, <2>2 DEF AllSent, WideTypeOK, CallerStep, data
<1>7. CASE ReadLimit(c) \/ RunOut(c)
  <2>1. Ctx(c).out \in Nat
    BY <1>1 DEF BlockType
  <2>2. /\ caller' \in [Callers -> CallerType]
        /\ \A d \in Callers : At(d, "count")' => caller'[d].left > 0
    BY <1>1, <1>7, <2>1 DEF ReadLimit, RunOut, WideTypeOK, CallerType, At
  <2> QED
    BY <1>7, <2>2 DEF ReadLimit, RunOut, WideTypeOK, CallerStep, data
<1>8. CASE Awake(c) \/ Relock(c) \/ Unlock(c)
  <2>1. mem' \in [Addrs -> BlockType]
    <3> DEFINE reset == [mem[caller[c].addr] EXCEPT !.signaled = FALSE]
               locked == [mem[caller[c].addr] EXCEPT !.lock = c]
               unlocked == [mem[caller[c].addr] EXCEPT !.lock = NoOne]
    <3>1. /\ mem[caller[c].addr] \in BlockType
          /\ c \in Threads \cup {NoOne} /\ NoOne \in Threads \cup {NoOne}
      BY <1>1 DEF Ctx, Threads
    <3>2. reset \in BlockType /\ locked \in BlockType /\ unlocked \in BlockType
      BY <3>1, BlockFlags, BlockLock, Zenon
    <3>3. \/ mem' = [mem EXCEPT ![caller[c].addr] = reset]
          \/ mem' = [mem EXCEPT ![caller[c].addr] = locked]
          \/ mem' = [mem EXCEPT ![caller[c].addr] = unlocked]
      BY <1>8, Zenon DEF Awake, Relock, Unlock
    <3> HIDE DEF reset, locked, unlocked
    <3> QED
      BY <3>2, <3>3 DEF WideTypeOK
  <2>2. PICK pc \in {"relock", "unlock", "remove"} :
          caller' = [caller EXCEPT ![c] = [caller[c] EXCEPT !.pc = pc]]
    BY <1>8, Zenon DEF Awake, Relock, Unlock
  <2>3. /\ caller' \in [Callers -> CallerType]
        /\ \A d \in Callers : At(d, "count")' => caller'[d].left > 0
    BY <1>1, <2>2 DEF WideTypeOK, CallerType, At
  <2> QED
    BY <1>8, <2>1, <2>3 DEF Awake, Relock, Unlock, WideTypeOK, CallerStep, data
<1>9. CASE Remove(c)
  <2>1. /\ caller' \in [Callers -> CallerType]
        /\ \A d \in Callers : At(d, "count")' => caller'[d].left > 0
    BY <1>1, <1>9 DEF Remove, WideTypeOK, CallerType, At
  <2>2. DOMAIN active' \subseteq Ids /\ \A id \in DOMAIN active' : active'[id] \in Addrs
    BY <1>9 DEF Remove, WideTypeOK
  <2> QED
    BY <1>9, <2>1, <2>2 DEF Remove, WideTypeOK, CallerStep, data
<1>10. CASE Free(c)
  <2>1. mem' \in [Addrs -> BlockType]
    BY <1>1, <1>10, InitialValues DEF Free, WideTypeOK
  <2>2. /\ caller' \in [Callers -> CallerType]
        /\ \A d \in Callers : At(d, "count")' => caller'[d].left > 0
    BY <1>1, <1>10, InitialValues DEF Free, WideTypeOK, At
  <2>3. returned' \in [Ids -> {"none", "success", "error"}]
    <3>1. caller[c].status \in {"success", "error"}
      BY <1>1, CallerFields
    <3> QED
      BY <1>10, <3>1, Zenon DEF Free, WideTypeOK
  <2> QED
    BY <1>10, <2>1, <2>2, <2>3 DEF Free, WideTypeOK, CallerStep, data
<1> QED
  BY <1>3, <1>4, <1>5, <1>6, <1>7, <1>8, <1>9, <1>10 DEF CallerStep

\* A new batch keeps the types.
LEMMA CallTypes ==
  ASSUME MapInv, NEW c \in Callers, Call(c)
  PROVE  WideTypeOK'
<1> USE DEF MapInv
<1>1. PICK num \in 1 .. MaxMads : NewBatch(c, num)
  BY DEF Call
<1> DEFINE block == [Zeroed EXCEPT !.live = TRUE, !.id = nextId, !.lock = c]
           call(a) == [IdleCaller EXCEPT !.pc = "send", !.addr = a, !.left = num]
<1>2. PICK a \in Addrs :
        /\ mem' = [mem EXCEPT ![a] = block]
        /\ active' = [id \in DOMAIN active \cup {nextId} |->
                        IF id = nextId THEN a ELSE active[id]]
        /\ caller' = [caller EXCEPT ![c] = call(a)]
  BY <1>1, Zenon DEF NewBatch
<1>3. nextId \in Ids /\ nextId' \in 1 .. MaxBatches + 1
  BY <1>1, Bounds DEF NewBatch, WideTypeOK, Ids
<1>4. block \in BlockType
  <2>1. c \in Threads \cup {NoOne}
    BY DEF Threads
  <2> QED
    BY <1>3, <2>1, InitialValues, BlockNew, Zenon
<1>5. call(a) \in CallerType /\ call(a).pc = "send"
  <2>1. num \in 0 .. MaxMads
    OBVIOUS
  <2>2. call(a) \in CallerType
    BY <2>1, InitialValues, CallerNew, Zenon
  <2>3. call(a).pc = "send"
    BY DEF IdleCaller
  <2> QED
    BY <2>2, <2>3
<1> HIDE DEF block, call
<1>6. mem' \in [Addrs -> BlockType]
  BY <1>2, <1>4 DEF WideTypeOK
<1>7. /\ caller' \in [Callers -> CallerType]
      /\ \A d \in Callers : At(d, "count")' => caller'[d].left > 0
  BY <1>2, <1>5 DEF WideTypeOK, At
<1>8. DOMAIN active' \subseteq Ids /\ \A id \in DOMAIN active' : active'[id] \in Addrs
  BY <1>2, <1>3 DEF WideTypeOK
<1> QED
  BY <1>1, <1>3, <1>6, <1>7, <1>8 DEF Call, NewBatch, WideTypeOK, data

\* A callback keeps the types, whatever memory it acts on.
LEMMA WorkerTypes ==
  ASSUME MapInv, NEW w \in Workers, WorkerStep(w)
  PROVE  WideTypeOK'
<1> USE DEF MapInv
<1>1. /\ worker[w].addr \in Addrs /\ worker[w].mad \in MadSet
      /\ worker[w] \in WorkerType /\ mem[worker[w].addr] \in BlockType
  BY DEF WideTypeOK, WorkerType
<1>2. CASE Lookup(w)
  <2>1. worker' \in [Workers -> WorkerType]
    BY <1>1, <1>2, InitialValues DEF Lookup, WideTypeOK, WorkerType
  <2> QED
    BY <1>2, <2>1 DEF Lookup, WideTypeOK, WorkerStep, data, At
<1>3. CASE LockContext(w)
  <2>1. mem' \in [Addrs -> BlockType]
    BY <1>1, <1>3 DEF LockContext, WideTypeOK, BlockType, Threads
  <2>2. worker' \in [Workers -> WorkerType]
    BY <1>1, <1>3 DEF LockContext, WideTypeOK, WorkerType
  <2> QED
    BY <1>3, <2>1, <2>2, SMTT(30) DEF LockContext, WideTypeOK, WorkerStep, data, At
<1>4. CASE Record(w)
  <2>1. mem' \in [Addrs -> BlockType]
    BY <1>1, <1>4 DEF Record, WideTypeOK, BlockType
  <2>2. worker' \in [Workers -> WorkerType]
    BY <1>1, <1>4 DEF Record, WideTypeOK, WorkerType
  <2>3. results' \subseteq Ids \X MadSet
    BY <1>1, <1>4 DEF Record, Results, WideTypeOK
  <2> QED
    BY <1>1, <1>4, <2>1, <2>2, <2>3 DEF Record, WideTypeOK, WorkerStep, At
<1>5. CASE Finish(w)
  <2>1. mem' \in [Addrs -> BlockType]
    BY <1>1, <1>5 DEF Finish, BatchDone, WideTypeOK, BlockType, Threads
  <2>2. worker' \in [Workers -> WorkerType]
    BY <1>1, <1>5, InitialValues DEF Finish, WideTypeOK
  <2> QED
    BY <1>5, <2>1, <2>2 DEF Finish, WideTypeOK, WorkerStep, data, At
<1> QED
  BY <1>2, <1>3, <1>4, <1>5 DEF WorkerStep

\* The vendor layer keeps the types.
LEMMA VendorTypes ==
  ASSUME MapInv, VendorStep
  PROVE  WideTypeOK'
<1> USE DEF MapInv
<1>1. PICK w \in Workers, mad \in inflight, answer \in BOOLEAN : Report(w, mad, answer)
  BY DEF VendorStep
<1>2. mad \in MadSet
  BY DEF WideTypeOK
<1>3. worker' \in [Workers -> WorkerType]
  BY <1>1, <1>2, InitialValues DEF Report, WideTypeOK, WorkerType
<1> QED
  BY <1>1, <1>2, <1>3 DEF Report, VendorStep, WideTypeOK, At

\* A step that starts, removes and frees no batch leaves the ownership alone.
LEMMA OwnedFrame ==
  ASSUME MapInv, UNCHANGED <<nextId, active>>,
         \A d \in Callers : /\ caller'[d].addr = caller[d].addr
                            /\ Busy(d)' <=> Busy(d)
                            /\ At(d, "free")' <=> At(d, "free"),
         \A x \in Addrs : mem'[x].live = mem[x].live /\ mem'[x].id = mem[x].id
  PROVE  ContextsOwned'
<1>1. \A d \in Callers : caller[d].addr \in Addrs
  BY CallerFields DEF MapInv, WideTypeOK
<1>2. \A d \in Callers : Ctx(d)'.live = Ctx(d).live /\ Ctx(d)'.id = Ctx(d).id
  BY <1>1 DEF Ctx
<1> QED
  BY <1>2 DEF MapInv, ContextsOwned

\* The steps of a caller keep the ownership: only its own entry and block go.
LEMMA CallerOwned ==
  ASSUME MapInv, NEW c \in Callers, CallerStep(c)
  PROVE  ContextsOwned'
<1>1. /\ mem \in [Addrs -> BlockType] /\ caller \in [Callers -> CallerType]
      /\ caller[c].addr \in Addrs
  BY CallerFields DEF MapInv, WideTypeOK
<1>2. CASE SendMad(c) \/ SendFails(c) \/ ReadLimit(c) \/ RunOut(c)
  <2>1. UNCHANGED <<nextId, active, mem>>
    BY <1>2 DEF SendMad, SendFails, ReadLimit, RunOut
  <2>2. \A d \in Callers : /\ caller'[d].addr = caller[d].addr
                           /\ Busy(d)' <=> Busy(d)
                           /\ At(d, "free")' <=> At(d, "free")
    BY <1>1, <1>2 DEF SendMad, SendFails, ReadLimit, RunOut, CallerType, Busy, At
  <2> QED
    BY <2>1, <2>2, OwnedFrame
<1>3. CASE CountSent(c) \/ AllSent(c)
  <2>1. UNCHANGED <<nextId, active>>
    BY <1>3 DEF CountSent, AllSent
  <2>2. \A d \in Callers : /\ caller'[d].addr = caller[d].addr
                           /\ Busy(d)' <=> Busy(d)
                           /\ At(d, "free")' <=> At(d, "free")
    BY <1>1, <1>3 DEF CountSent, AllSent, CallerType, Busy, At
  <2>3. \A x \in Addrs : mem'[x].live = mem[x].live /\ mem'[x].id = mem[x].id
    BY <1>1, <1>3 DEF CountSent, AllSent, BlockType
  <2> QED
    BY <2>1, <2>2, <2>3, OwnedFrame
<1>4. CASE Awake(c) \/ Relock(c) \/ Unlock(c)
  <2>1. UNCHANGED <<nextId, active>>
    BY <1>4 DEF Awake, Relock, Unlock
  <2>2. \A d \in Callers : /\ caller'[d].addr = caller[d].addr
                           /\ Busy(d)' <=> Busy(d)
                           /\ At(d, "free")' <=> At(d, "free")
    BY <1>1, <1>4 DEF Awake, Relock, Unlock, CallerType, Busy, At
  <2>3. \A x \in Addrs : mem'[x].live = mem[x].live /\ mem'[x].id = mem[x].id
    BY <1>1, <1>4 DEF Awake, Relock, Unlock, BlockType
  <2> QED
    BY <2>1, <2>2, <2>3, OwnedFrame
<1>5. CASE Remove(c)
  <2>1. UNCHANGED <<nextId, mem>>
    BY <1>5 DEF Remove
  <2>2. \A d \in Callers : /\ caller'[d].addr = caller[d].addr
                           /\ Busy(d)' <=> Busy(d)
                           /\ d # c => (At(d, "free")' <=> At(d, "free"))
    BY <1>1, <1>5 DEF Remove, CallerType, Busy, At
  <2>3. /\ DOMAIN active' = DOMAIN active \ {Ctx(c).id}
        /\ \A id \in DOMAIN active' : active'[id] = active[id]
    BY <1>5 DEF Remove
  <2>4. \A d \in Callers : Ctx(d)' = Ctx(d)
    BY <2>1, <2>2 DEF Ctx
  <2> QED
    BY <2>1, <2>2, <2>3, <2>4 DEF MapInv, ContextsOwned
<1>6. CASE Free(c)
  <2>1. UNCHANGED <<nextId, active>> /\ At(c, "free")
    BY <1>6 DEF Free
  <2>2. /\ ~Busy(c)' /\ Busy(c)
        /\ \A d \in Callers : d # c => caller'[d] = caller[d]
    BY <1>1, <1>6, InitialValues DEF Free, Busy, At
  <2>3. \A x \in Addrs : x # caller[c].addr => mem'[x] = mem[x]
    BY <1>1, <1>6 DEF Free
  <2>4. \A d \in Callers : d # c /\ Busy(d) => Ctx(d)' = Ctx(d)
    <3> SUFFICES ASSUME NEW d \in Callers, d # c, Busy(d)
                 PROVE  Ctx(d)' = Ctx(d)
      OBVIOUS
    <3>1. caller[d].addr \in Addrs /\ caller[d].addr # caller[c].addr
      BY <2>2, CallerFields DEF MapInv, WideTypeOK, ContextsOwned
    <3> QED
      BY <2>2, <2>3, <3>1 DEF Ctx
  <2>5. \A d \in Callers : d # c => (Busy(d)' <=> Busy(d)) /\ (At(d, "free")' <=> At(d, "free"))
    BY <2>2 DEF Busy, At
  <2> QED
    BY <2>1, <2>2, <2>4, <2>5 DEF MapInv, ContextsOwned
<1> QED
  BY <1>2, <1>3, <1>4, <1>5, <1>6 DEF CallerStep

\* A new batch owns a block that nobody owns, under a new id.
LEMMA CallOwned ==
  ASSUME MapInv, NEW c \in Callers, Call(c)
  PROVE  ContextsOwned'
<1>1. PICK num \in 1 .. MaxMads : NewBatch(c, num)
  BY DEF Call
<1> DEFINE block == [Zeroed EXCEPT !.live = TRUE, !.id = nextId, !.lock = c]
           call(a) == [IdleCaller EXCEPT !.pc = "send", !.addr = a, !.left = num]
<1>2. PICK a \in Addrs :
        /\ ~mem[a].live
        /\ mem' = [mem EXCEPT ![a] = block]
        /\ active' = [id \in DOMAIN active \cup {nextId} |->
                        IF id = nextId THEN a ELSE active[id]]
        /\ caller' = [caller EXCEPT ![c] = call(a)]
  BY <1>1, Zenon DEF NewBatch
<1>3. block.live /\ block.id = nextId
  BY DEF Zeroed
<1>4. call(a).addr = a /\ call(a).pc = "send"
  BY DEF IdleCaller
<1> HIDE DEF block, call
<1>5. /\ mem \in [Addrs -> BlockType] /\ caller \in [Callers -> CallerType]
      /\ nextId \in Nat \ {0} /\ nextId' = nextId + 1 /\ ~Busy(c)
  BY <1>1 DEF MapInv, WideTypeOK, NewBatch, At, Busy
<1>6. /\ caller'[c] = call(a) /\ Busy(c)' /\ ~At(c, "free")'
      /\ \A d \in Callers : d # c => caller'[d] = caller[d]
  BY <1>2, <1>4, <1>5 DEF Busy, At
<1>7. Ctx(c)'.live /\ Ctx(c)'.id = nextId /\ caller'[c].addr = a
  BY <1>2, <1>3, <1>4, <1>5, <1>6 DEF Ctx
<1>8. \A d \in Callers : d # c => (Busy(d)' <=> Busy(d)) /\ (At(d, "free")' <=> At(d, "free"))
  BY <1>6 DEF Busy, At
<1>9. ASSUME NEW d \in Callers, d # c, Busy(d)
      PROVE  /\ caller[d].addr # a /\ caller'[d].addr = caller[d].addr
             /\ Ctx(d)' = Ctx(d) /\ Ctx(d).live /\ Ctx(d).id \in 1 .. nextId - 1
  <2>1. Ctx(d).live /\ Ctx(d).id \in 1 .. nextId - 1
    BY <1>9 DEF MapInv, ContextsOwned
  <2>2. caller[d].addr # a /\ caller[d].addr \in Addrs
    BY <1>2, <1>5, <2>1, CallerFields DEF Ctx
  <2> QED
    BY <1>2, <1>5, <1>6, <1>9, <2>1, <2>2 DEF Ctx
<1>10. \A d \in Callers : Busy(d)' => Ctx(d)'.live /\ Ctx(d)'.id \in 1 .. nextId' - 1
  <2> SUFFICES ASSUME NEW d \in Callers, Busy(d)'
               PROVE  Ctx(d)'.live /\ Ctx(d)'.id \in 1 .. nextId' - 1
    OBVIOUS
  <2>1. CASE d = c
    BY <1>5, <1>7, <2>1
  <2>2. CASE d # c
    BY <1>5, <1>8, <1>9, <2>2
  <2> QED
    BY <2>1, <2>2
<1>11. ASSUME NEW d \in Callers, NEW e \in Callers, d # e, Busy(d)', Busy(e)'
       PROVE  caller'[d].addr # caller'[e].addr /\ Ctx(d)'.id # Ctx(e)'.id
  <2>1. CASE d = c
    BY <1>5, <1>7, <1>8, <1>9, <1>11, <2>1
  <2>2. CASE e = c
    BY <1>5, <1>7, <1>8, <1>9, <1>11, <2>2
  <2>3. CASE d # c /\ e # c
    BY <1>8, <1>9, <1>11, <2>3 DEF MapInv, ContextsOwned
  <2> QED
    BY <2>1, <2>2, <2>3
<1>12. ASSUME NEW id \in DOMAIN active'
       PROVE  \E d \in Callers : /\ Busy(d)' /\ ~At(d, "free")'
                                 /\ caller'[d].addr = active'[id] /\ Ctx(d)'.id = id
  <2>1. CASE id = nextId
    BY <1>2, <1>6, <1>7, <2>1
  <2>2. CASE id # nextId
    <3>1. id \in DOMAIN active /\ active'[id] = active[id]
      BY <1>2, <2>2
    <3>2. PICK d \in Callers : /\ Busy(d) /\ ~At(d, "free")
                               /\ caller[d].addr = active[id] /\ Ctx(d).id = id
      BY <3>1 DEF MapInv, ContextsOwned
    <3>3. d # c
      BY <1>5, <3>2
    <3> QED
      BY <1>8, <1>9, <3>1, <3>2, <3>3
  <2> QED
    BY <2>1, <2>2
<1> QED
  BY <1>10, <1>11, <1>12 DEF ContextsOwned

\* A callback never revives a block and never changes its id.
LEMMA WorkerOwned ==
  ASSUME MapInv, NEW w \in Workers, WorkerStep(w)
  PROVE  ContextsOwned'
<1>1. mem \in [Addrs -> BlockType]
  BY DEF MapInv, WideTypeOK
<1>2. UNCHANGED <<nextId, active, caller>>
  BY DEF WorkerStep, Lookup, LockContext, Record, Finish
<1>3. \A d \in Callers : /\ caller'[d].addr = caller[d].addr
                         /\ Busy(d)' <=> Busy(d)
                         /\ At(d, "free")' <=> At(d, "free")
  BY <1>2 DEF Busy, At
<1>4. \A x \in Addrs : mem'[x].live = mem[x].live /\ mem'[x].id = mem[x].id
  <2>1. worker[w].addr \in Addrs
    BY DEF MapInv, WideTypeOK, WorkerType
  <2> QED
    BY <1>1, <2>1 DEF WorkerStep, Lookup, LockContext, Record, Finish, BatchDone, BlockType
<1> QED
  BY <1>2, <1>3, <1>4, OwnedFrame

\* Every step preserves the types and the ownership of the contexts.
LEMMA MapStep == MapInv /\ [Next]_vars => MapInv'
<1> SUFFICES ASSUME MapInv, [Next]_vars
             PROVE  WideTypeOK' /\ ContextsOwned'
  BY DEF MapInv
<1>1. ASSUME NEW c \in Callers, Call(c)
      PROVE  WideTypeOK' /\ ContextsOwned'
  BY <1>1, CallTypes, CallOwned
<1>2. ASSUME NEW c \in Callers, CallerStep(c)
      PROVE  WideTypeOK' /\ ContextsOwned'
  BY <1>2, CallerTypes, CallerOwned
<1>3. ASSUME NEW w \in Workers, WorkerStep(w)
      PROVE  WideTypeOK' /\ ContextsOwned'
  BY <1>3, WorkerTypes, WorkerOwned
<1>4. CASE VendorStep
  <2>1. UNCHANGED <<nextId, active, caller, mem>>
    BY <1>4 DEF VendorStep, Report
  <2>2. \A d \in Callers : (Busy(d)' <=> Busy(d)) /\ (At(d, "free")' <=> At(d, "free"))
    BY <2>1 DEF Busy, At
  <2>3. ContextsOwned'
    BY <2>1, <2>2, OwnedFrame
  <2> QED
    BY <1>4, <2>3, VendorTypes
<1>5. CASE UNCHANGED vars
  <2>1. WideTypeOK'
    BY <1>5 DEF vars, data, MapInv, WideTypeOK, At
  <2>2. UNCHANGED <<nextId, active, caller, mem>>
    BY <1>5 DEF vars
  <2>3. \A d \in Callers : (Busy(d)' <=> Busy(d)) /\ (At(d, "free")' <=> At(d, "free"))
    BY <2>2 DEF Busy, At
  <2> QED
    BY <2>1, <2>2, <2>3, OwnedFrame
<1> QED
  BY <1>1, <1>2, <1>3, <1>4, <1>5 DEF Next

\* The invariant holds in every reachable state, late answers or not.
LEMMA MapCorrect == Spec => []MapInv
  BY MapInit, MapStep, PTL DEF Spec

\* An entry of the map leads to the live context of its batch, even while late
\* callbacks write to memory that was freed or used again.
THEOREM MapLeadsHome == Spec => []MapLeadsToContext
<1>1. MapInv => MapLeadsToContext
  BY DEF MapInv, ContextsOwned, MapLeadsToContext, Ctx
<1> QED
  BY <1>1, MapCorrect, PTL

-----------------------------------------------------------------------------
(* Every answer comes in time. *)

Own(id) == {m \in sent : m.batch = id}
Pending(id) == {m \in sent \ counted : m.batch = id}

\* The MAD that a caller is about to send, or is about to count.
Leaving(c) == [batch |-> Ctx(c).id, idx |-> caller[c].left]

\* The callback has a MAD that it has not counted off.
Carries(w) == worker[w].pc \in {"lookup", "ctxlock", "record"}

\* The callback works on a context under its lock.
Serves(w) == worker[w].pc \in {"record", "finish"}

\* The caller has unlocked its context and will lock it again.
Awaits(c) == caller[c].pc \in {"limit", "wait", "relock"}

\* The caller has seen every answer, or knows that it has none to wait for.
Ended(c) ==
  \/ At(c, "wait") /\ caller[c].limit = 0
  \/ caller[c].pc \in {"relock", "unlock", "remove", "free"}

\* A call that is under way: its lock, the MADs it has still to send, which are
\* in order of their index, and the exact count of those that are outstanding.
CallerOK(c) == Busy(c) =>
  /\ caller[c].pc \in {"send", "count", "unlock"} => Ctx(c).lock = c
  /\ caller[c].pc \in {"send", "count"} => ~Ctx(c).allSent
  /\ At(c, "send") =>
       /\ \A m \in Own(Ctx(c).id) : m.idx > caller[c].left
       /\ ~caller[c].some => Own(Ctx(c).id) = {}
  /\ At(c, "count") =>
       /\ Leaving(c) \in Pending(Ctx(c).id)
       /\ \A m \in Own(Ctx(c).id) : m.idx >= caller[c].left
  /\ Ctx(c).out = Cardinality(Pending(Ctx(c).id)) - (IF At(c, "count") THEN 1 ELSE 0)
  /\ Ctx(c).signaled => Ctx(c).allSent /\ Pending(Ctx(c).id) = {}
  /\ Ended(c) => Pending(Ctx(c).id) = {}

\* A callback: its MAD is its own, and the context it works on is locked by it
\* and belongs to the batch of the MAD, whose call waits.
WorkerOK(w) ==
  /\ Carries(w) =>
       /\ worker[w].mad \in sent \ (counted \cup inflight)
       /\ \A v \in Workers : v # w /\ Carries(v) => worker[v].mad # worker[w].mad
  /\ worker[w].pc = "ctxlock" =>
       /\ mapLock = w
       /\ worker[w].mad.batch \in DOMAIN active
       /\ worker[w].addr = active[worker[w].mad.batch]
  /\ Serves(w) =>
       /\ mem[worker[w].addr].lock = w
       /\ \E c \in Callers : /\ Awaits(c) /\ caller[c].addr = worker[w].addr
                             /\ Ctx(c).id = worker[w].mad.batch

\* Each MAD is of a batch that has begun, and is reported and counted once.
MadsTracked ==
  /\ counted \subseteq sent /\ answered \subseteq sent
  /\ inflight \subseteq sent \ counted
  /\ \A m \in sent : m.batch < nextId

\* The arrays hold the answers that were counted, each in its own batch.
ResultsKept == results = {<<m.batch, m>> : m \in answered \cap counted}

\* A call that has returned is over, and none of its MADs is outstanding.
ReturnsKept ==
  \A id \in Ids : returned[id] # "none" =>
    /\ id < nextId /\ Pending(id) = {}
    /\ \A c \in Callers : Busy(c) => Ctx(c).id # id

\* Blocks that no call owns count nothing, and limits come from exact counts.
BlocksClean ==
  /\ \A a \in Addrs : mem[a].out # 0 => \E c \in Callers : Busy(c) /\ caller[c].addr = a
  /\ \A c \in Callers : caller[c].limit <= MaxMads

TimelyInv ==
  /\ MadsTracked /\ ResultsKept /\ ReturnsKept /\ BlocksClean
  /\ \A c \in Callers : CallerOK(c)
  /\ \A w \in Workers : WorkerOK(w)

\* At the start nothing was sent.
LEMMA TimelyInit == Init => TimelyInv
<1> SUFFICES ASSUME Init PROVE TimelyInv
  OBVIOUS
<1>1. MadsTracked /\ ResultsKept /\ ReturnsKept
  BY DEF Init, MadsTracked, ResultsKept, ReturnsKept
<1>2. \A c \in Callers : caller[c].limit = 0 /\ ~Busy(c)
  BY DEF Init, IdleCaller, Busy
<1>3. BlocksClean
  BY <1>2, Bounds DEF Init, BlocksClean, Zeroed
<1>4. \A w \in Workers : WorkerOK(w)
  BY InitialValues DEF Init, WorkerOK, Carries, Serves
<1> QED
  BY <1>1, <1>2, <1>3, <1>4 DEF TimelyInv, CallerOK

\* A batch has at most as many MADs outstanding as it has MADs.
LEMMA PendingBounded ==
  ASSUME MapInv, NEW id \in Ids
  PROVE  /\ IsFiniteSet(Pending(id))
         /\ Cardinality(Pending(id)) \in Nat /\ Cardinality(Pending(id)) <= MaxMads
<1> DEFINE index == [m \in Pending(id) |-> m.idx]
<1>1. IsFiniteSet(1 .. MaxMads) /\ Cardinality(1 .. MaxMads) = MaxMads
  BY Bounds, FS_Interval
<1>2. \A m \in Pending(id) : m.batch = id /\ m.idx \in 1 .. MaxMads
                             /\ m = [batch |-> m.batch, idx |-> m.idx]
  BY DEF Pending, MapInv, WideTypeOK, MadSet
<1>3. index \in Injection(Pending(id), 1 .. MaxMads)
  BY <1>2 DEF Injection, IsInjective
<1>4. IsFiniteSet(Pending(id)) /\ Cardinality(Pending(id)) <= Cardinality(1 .. MaxMads)
  BY <1>1, <1>3, FS_Injection
<1> QED
  BY <1>1, <1>4, FS_CardinalityType

\* What the invariant says of a call depends on its own context and MADs only.
LEMMA CallerFrame ==
  ASSUME NEW c \in Callers, CallerOK(c), caller'[c] = caller[c],
         Busy(c) => /\ Ctx(c)' = Ctx(c)
                    /\ Own(Ctx(c).id)' = Own(Ctx(c).id)
                    /\ Pending(Ctx(c).id)' = Pending(Ctx(c).id)
  PROVE  CallerOK(c)'
<1>1. (Busy(c)' <=> Busy(c)) /\ (Ended(c)' <=> Ended(c))
  BY DEF Busy, Ended, At
<1>2. Busy(c) => Leaving(c)' = Leaving(c)
  BY DEF Leaving
<1> QED
  BY <1>1, <1>2 DEF CallerOK, At

\* A step on the context of one call leaves the contexts of the others alone.
LEMMA OtherCallers ==
  ASSUME MapInv, NEW c \in Callers, Busy(c),
         \A x \in Addrs : x # caller[c].addr => mem'[x] = mem[x],
         NEW d \in Callers, d # c, caller'[d] = caller[d]
  PROVE  /\ Busy(d)' <=> Busy(d)
         /\ Busy(d) => Ctx(d)' = Ctx(d) /\ Ctx(d).id # Ctx(c).id
<1>1. caller[d].addr \in Addrs
  BY CallerFields DEF MapInv, WideTypeOK
<1> QED
  BY <1>1 DEF MapInv, ContextsOwned, Busy, Ctx

\* The context that a callback works on belongs to a call that awaits it.
LEMMA ServedCaller ==
  ASSUME MapInv, TimelyInv, NEW w \in Workers, Serves(w), NEW c \in Callers, Busy(c),
         worker[w].addr = caller[c].addr
  PROVE  Awaits(c) /\ Ctx(c).lock = w /\ Ctx(c).id = worker[w].mad.batch
<1>1. PICK d \in Callers : /\ Awaits(d) /\ caller[d].addr = worker[w].addr
                           /\ Ctx(d).id = worker[w].mad.batch
  BY DEF TimelyInv, WorkerOK
<1>2. d = c
  BY <1>1 DEF MapInv, ContextsOwned, Busy, Awaits
<1> QED
  BY <1>1, <1>2 DEF TimelyInv, WorkerOK, Ctx

\* A step of a call leaves the callbacks alone if it does not take the context
\* of a waiting call from the callback that locked it.
LEMMA WorkersFrame ==
  ASSUME MapInv, TimelyInv, NEW c \in Callers, Busy(c),
         UNCHANGED <<worker, mapLock, counted>>,
         active' = active \/ mapLock = NoOne,
         sent \subseteq sent',
         \A w \in Workers : Carries(w) => worker[w].mad \notin inflight' \ inflight,
         \A d \in Callers : d # c => caller'[d] = caller[d],
         \A x \in Addrs : x # caller[c].addr => mem'[x] = mem[x],
         Awaits(c) /\ Ctx(c).lock # NoOne =>
           /\ mem'[caller[c].addr].lock = mem[caller[c].addr].lock
           /\ mem'[caller[c].addr].id = mem[caller[c].addr].id
           /\ caller'[c].addr = caller[c].addr
           /\ Awaits(c)'
  PROVE  \A w \in Workers : WorkerOK(w)'
<1> SUFFICES ASSUME NEW w \in Workers
             PROVE  WorkerOK(w)'
  OBVIOUS
<1>1. WorkerOK(w) /\ w # NoOne
  BY BatchAssumption DEF TimelyInv
<1>2. (Carries(w)' <=> Carries(w)) /\ (Serves(w)' <=> Serves(w))
  BY DEF Carries, Serves
<1>3. ASSUME Carries(w)
      PROVE  /\ worker[w].mad \in sent' \ (counted \cup inflight')
             /\ \A v \in Workers : v # w /\ Carries(v)' => worker[v].mad # worker[w].mad
  BY <1>1, <1>3 DEF WorkerOK, Carries
<1>4. ASSUME worker[w].pc = "ctxlock"
      PROVE  /\ mapLock = w /\ worker[w].mad.batch \in DOMAIN active'
             /\ worker[w].addr = active'[worker[w].mad.batch]
  BY <1>1, <1>4 DEF WorkerOK
<1>5. ASSUME Serves(w)
      PROVE  /\ mem'[worker[w].addr].lock = w
             /\ \E d \in Callers : /\ Awaits(d)' /\ caller'[d].addr = worker[w].addr
                                   /\ Ctx(d)'.id = worker[w].mad.batch
  <2>1. worker[w].addr \in Addrs
    BY DEF MapInv, WideTypeOK, WorkerType
  <2>2. CASE worker[w].addr = caller[c].addr
    <3>1. Awaits(c) /\ Ctx(c).lock = w /\ Ctx(c).id = worker[w].mad.batch
      BY <1>5, <2>2, ServedCaller
    <3> QED
      BY <1>1, <2>2, <3>1 DEF Ctx
  <2>3. CASE worker[w].addr # caller[c].addr
    <3>1. PICK d \in Callers : /\ Awaits(d) /\ caller[d].addr = worker[w].addr
                               /\ Ctx(d).id = worker[w].mad.batch
      BY <1>1, <1>5 DEF WorkerOK
    <3>2. d # c /\ Awaits(d)' /\ caller'[d].addr = worker[w].addr
      BY <2>3, <3>1 DEF Awaits
    <3> QED
      BY <1>1, <1>5, <2>1, <2>3, <3>1, <3>2 DEF WorkerOK, Ctx
  <2> QED
    BY <2>2, <2>3
<1> QED
  BY <1>2, <1>3, <1>4, <1>5 DEF WorkerOK

\* What the types say of a call that is under way.
LEMMA CallerFacts ==
  ASSUME MapInv, NEW c \in Callers, Busy(c)
  PROVE  /\ mem \in [Addrs -> BlockType] /\ caller \in [Callers -> CallerType]
         /\ caller[c].addr \in Addrs /\ Ctx(c) = mem[caller[c].addr]
         /\ Ctx(c).id \in Ids /\ Ctx(c).id < nextId
         /\ IsFiniteSet(Pending(Ctx(c).id))
         /\ Cardinality(Pending(Ctx(c).id)) \in Nat
         /\ Cardinality(Pending(Ctx(c).id)) <= MaxMads
<1>1. Ctx(c).id \in Ids /\ Ctx(c).id < nextId
  BY Bounds DEF MapInv, WideTypeOK, ContextsOwned, Ids
<1> QED
  BY <1>1, PendingBounded, CallerFields DEF MapInv, WideTypeOK, Ctx

\* A step of a call that stays under way, and sends at most MADs of its own, has
\* to keep what the invariant says of this call only.
LEMMA OwnStep ==
  ASSUME MapInv, TimelyInv, NEW c \in Callers, Busy(c), Busy(c)',
         UNCHANGED <<mapLock, nextId, worker, counted, answered, results, returned>>,
         active' = active \/ mapLock = NoOne,
         \A d \in Callers : d # c => caller'[d] = caller[d],
         \A x \in Addrs : x # caller[c].addr => mem'[x] = mem[x],
         caller'[c].addr = caller[c].addr, caller'[c].limit <= MaxMads,
         mem'[caller[c].addr].id = Ctx(c).id,
         Awaits(c) /\ Ctx(c).lock # NoOne =>
           mem'[caller[c].addr].lock = Ctx(c).lock /\ Awaits(c)',
         sent \subseteq sent', inflight' = inflight \cup (sent' \ sent),
         \A m \in sent' \ sent : m.batch = Ctx(c).id,
         CallerOK(c)'
  PROVE  TimelyInv'
<1>1. Ctx(c).id < nextId /\ caller[c].addr \in Addrs
  BY CallerFacts
<1>2. Ctx(c)'.id = Ctx(c).id
  BY DEF Ctx
<1>3. \A id \in Ids : id # Ctx(c).id => Own(id)' = Own(id) /\ Pending(id)' = Pending(id)
  BY DEF Own, Pending
<1>4. \A d \in Callers : d # c => /\ Busy(d)' <=> Busy(d)
                                  /\ Busy(d) => Ctx(d)' = Ctx(d) /\ Ctx(d).id # Ctx(c).id
  BY OtherCallers
<1>5. MadsTracked'
  BY <1>1 DEF TimelyInv, MadsTracked
<1>6. ResultsKept'
  BY DEF TimelyInv, ResultsKept
<1>7. ReturnsKept'
  <2> SUFFICES ASSUME NEW id \in Ids, returned[id] # "none"
               PROVE  /\ id < nextId /\ Pending(id)' = {}
                      /\ \A d \in Callers : Busy(d)' => Ctx(d)'.id # id
    BY DEF ReturnsKept
  <2>1. /\ id < nextId /\ Pending(id) = {}
        /\ \A d \in Callers : Busy(d) => Ctx(d).id # id
    BY DEF TimelyInv, ReturnsKept
  <2> QED
    BY <1>2, <1>3, <1>4, <2>1
<1>8. BlocksClean'
  <2>1. \A x \in Addrs : mem'[x].out # 0 => \E d \in Callers : Busy(d)' /\ caller'[d].addr = x
    <3> SUFFICES ASSUME NEW x \in Addrs, x # caller[c].addr, mem'[x].out # 0
                 PROVE  \E d \in Callers : Busy(d)' /\ caller'[d].addr = x
      OBVIOUS
    <3>1. PICK d \in Callers : Busy(d) /\ caller[d].addr = x
      BY DEF TimelyInv, BlocksClean
    <3> QED
      BY <1>4, <3>1
  <2>2. \A d \in Callers : caller'[d].limit <= MaxMads
    BY DEF TimelyInv, BlocksClean
  <2> QED
    BY <2>1, <2>2 DEF BlocksClean
<1>9. \A d \in Callers : CallerOK(d)'
  <2> SUFFICES ASSUME NEW d \in Callers, d # c
               PROVE  CallerOK(d)'
    OBVIOUS
  <2>1. Busy(d) => Ctx(d).id \in Ids
    BY CallerFacts
  <2>2. Busy(d) => /\ Ctx(d)' = Ctx(d)
                   /\ Own(Ctx(d).id)' = Own(Ctx(d).id)
                   /\ Pending(Ctx(d).id)' = Pending(Ctx(d).id)
    <3> SUFFICES ASSUME Busy(d)
                 PROVE  /\ Ctx(d)' = Ctx(d)
                        /\ Own(Ctx(d).id)' = Own(Ctx(d).id)
                        /\ Pending(Ctx(d).id)' = Pending(Ctx(d).id)
      OBVIOUS
    <3>1. Ctx(d)' = Ctx(d) /\ Ctx(d).id # Ctx(c).id
      BY <1>4
    <3>2. /\ {m \in sent' : m.batch = Ctx(d).id} = Own(Ctx(d).id)
          /\ {m \in sent' \ counted' : m.batch = Ctx(d).id} = Pending(Ctx(d).id)
      BY <3>1 DEF Own, Pending
    <3> QED
      BY <3>1, <3>2 DEF Own, Pending
  <2>3. CallerOK(d) /\ caller'[d] = caller[d]
    BY DEF TimelyInv
  <2> QED
    BY <2>2, <2>3, CallerFrame
<1>10. \A w \in Workers : WorkerOK(w)'
  <2>1. \A w \in Workers : Carries(w) => worker[w].mad \notin inflight' \ inflight
    BY DEF TimelyInv, WorkerOK
  <2> QED
    BY <2>1, WorkersFrame DEF Ctx
<1> QED
  BY <1>5, <1>6, <1>7, <1>8, <1>9, <1>10 DEF TimelyInv

\* A MAD that is sent is a new one.
LEMMA TimelySend ==
  ASSUME MapInv, TimelyInv, NEW c \in Callers, SendMad(c)
  PROVE  TimelyInv'
<1> DEFINE mad == Leaving(c)
           id == Ctx(c).id
<1>1. /\ Busy(c) /\ At(c, "send") /\ caller[c].left > 0
      /\ sent' = sent \cup {mad} /\ inflight' = inflight \cup {mad}
      /\ UNCHANGED <<mem, mapLock, active, nextId, worker, counted, returned, answered, results>>
  BY DEF SendMad, Busy, At, Leaving, data
<1>2. /\ mem \in [Addrs -> BlockType] /\ caller \in [Callers -> CallerType]
      /\ IsFiniteSet(Pending(id)) /\ Cardinality(Pending(id)) \in Nat
      /\ Ctx(c) = mem[caller[c].addr]
  BY <1>1, CallerFacts
<1>3. /\ caller'[c].pc = "count" /\ caller'[c].addr = caller[c].addr
      /\ caller'[c].left = caller[c].left /\ caller'[c].limit = caller[c].limit
      /\ \A d \in Callers : d # c => caller'[d] = caller[d]
  BY <1>2 DEF SendMad, CallerType
<1>4. Ctx(c)' = Ctx(c) /\ Leaving(c)' = mad /\ mad.batch = id /\ mad.idx = caller[c].left
  BY <1>1, <1>3 DEF Ctx, Leaving
<1>5. CallerOK(c) /\ \A m \in Own(id) : m.idx \in Nat
  <2>1. \A m \in sent : m.idx \in Nat
    BY DEF MapInv, WideTypeOK, MadSet
  <2> QED
    BY <2>1 DEF TimelyInv, Own
<1>6. mad \notin sent /\ mad \notin counted
  <2>1. caller[c].left \in Nat
    BY CallerFields DEF MapInv, WideTypeOK
  <2> QED
    BY <1>1, <1>4, <1>5, <2>1 DEF CallerOK, Own, TimelyInv, MadsTracked
<1> HIDE DEF mad, id
<1>7. Own(Ctx(c).id)' = Own(id) \cup {mad} /\ Pending(Ctx(c).id)' = Pending(id) \cup {mad}
  <2>1. {m \in sent' : m.batch = id} = Own(id) \cup {mad}
    BY <1>1, <1>4 DEF Own
  <2>2. {m \in sent' \ counted' : m.batch = id} = Pending(id) \cup {mad}
    BY <1>1, <1>4, <1>6 DEF Pending
  <2> QED
    BY <1>4, <2>1, <2>2 DEF Own, Pending, id
<1>8. Cardinality(Pending(Ctx(c).id)') = Cardinality(Pending(id)) + 1
  <2>1. mad \notin Pending(id)
    BY <1>6 DEF Pending
  <2> QED
    BY <1>2, <1>7, <2>1, FS_AddElement
<1>9. CallerOK(c)'
  <2>1. ~Ended(c)' /\ Busy(c)
    BY <1>1, <1>3 DEF Ended, At
  <2>2. /\ ~Ctx(c).allSent /\ Ctx(c).lock = c /\ ~Ctx(c).signaled
        /\ \A m \in Own(id) : m.idx > caller[c].left
        /\ Ctx(c).out = Cardinality(Pending(id))
    BY <1>1, <1>2, <1>5 DEF CallerOK, At, id
  <2>3. caller[c].left \in Nat
    BY CallerFields DEF MapInv, WideTypeOK
  <2>4. \A m \in Own(Ctx(c).id)' : m.idx >= caller[c].left
    BY <1>4, <1>5, <1>7, <2>2, <2>3
  <2>5. Leaving(c)' \in Pending(Ctx(c).id)'
    BY <1>4, <1>7
  <2>6. Ctx(c)'.out = Cardinality(Pending(Ctx(c).id)') - 1
    BY <1>2, <1>4, <1>8, <2>2
  <2> QED
    BY <1>3, <1>4, <2>1, <2>2, <2>4, <2>5, <2>6 DEF CallerOK, At
<1>10. Busy(c)' /\ caller'[c].limit <= MaxMads /\ ~Awaits(c)
  BY <1>1, <1>3 DEF Busy, Awaits, At, TimelyInv, BlocksClean
<1>11. inflight' = inflight \cup (sent' \ sent) /\ \A m \in sent' \ sent : m.batch = Ctx(c).id
  BY <1>1, <1>4, <1>6 DEF id
<1> QED
  BY <1>1, <1>2, <1>3, <1>9, <1>10, <1>11, OwnStep DEF id

\* A step of a call that sends nothing has to keep its own part of the invariant.
LEMMA QuietStep ==
  ASSUME MapInv, TimelyInv, NEW c \in Callers, Busy(c), Busy(c)',
         UNCHANGED <<mapLock, nextId, worker, inflight, sent, counted, data, returned>>,
         active' = active \/ mapLock = NoOne,
         \A d \in Callers : d # c => caller'[d] = caller[d],
         \A x \in Addrs : x # caller[c].addr => mem'[x] = mem[x],
         caller'[c].addr = caller[c].addr, caller'[c].limit <= MaxMads,
         mem'[caller[c].addr].id = Ctx(c).id,
         Awaits(c) /\ Ctx(c).lock # NoOne =>
           mem'[caller[c].addr].lock = Ctx(c).lock /\ Awaits(c)',
         CallerOK(c)'
  PROVE  TimelyInv'
<1>1. inflight' = inflight \cup (sent' \ sent) /\ sent \subseteq sent' /\ sent' \ sent = {}
  OBVIOUS
<1>2. UNCHANGED <<answered, results>>
  BY DEF data
<1> QED
  BY <1>1, <1>2, OwnStep

\* While nothing is sent and nothing counted, the MADs of every batch stay.
LEMMA SameMads ==
  ASSUME UNCHANGED <<sent, counted>>, NEW c \in Callers, Ctx(c)'.id = Ctx(c).id
  PROVE  /\ Own(Ctx(c).id)' = Own(Ctx(c).id)
         /\ Pending(Ctx(c).id)' = Pending(Ctx(c).id)
  BY DEF Own, Pending

\* The steps of a call between its first MAD and the removal of its context.
LEMMA TimelySendFails ==
  ASSUME MapInv, TimelyInv, NEW c \in Callers, SendFails(c)
  PROVE  TimelyInv'
<1>1. /\ Busy(c) /\ At(c, "send") /\ caller[c].left > 0 /\ CallerOK(c)
      /\ UNCHANGED <<mem, mapLock, active, nextId, worker, inflight, sent, counted, data, returned>>
  BY DEF SendFails, Busy, At, TimelyInv, data
<1>2. /\ mem \in [Addrs -> BlockType] /\ caller \in [Callers -> CallerType]
      /\ Ctx(c) = mem[caller[c].addr] /\ caller[c].left \in Nat
  BY <1>1, CallerFacts, CallerFields, Bounds
<1>3. /\ caller'[c].pc = "send" /\ caller'[c].addr = caller[c].addr
      /\ caller'[c].left = caller[c].left - 1 /\ caller'[c].limit = caller[c].limit
      /\ caller'[c].some = caller[c].some
      /\ \A d \in Callers : d # c => caller'[d] = caller[d]
  BY <1>1, <1>2 DEF SendFails, CallerType, At
<1>4. Ctx(c)' = Ctx(c)
  BY <1>1, <1>3 DEF Ctx
<1>5. Own(Ctx(c).id)' = Own(Ctx(c).id) /\ Pending(Ctx(c).id)' = Pending(Ctx(c).id)
  BY <1>1, <1>4, SameMads
<1>6. Busy(c)' /\ ~Ended(c)' /\ ~Awaits(c)
  BY <1>1, <1>3 DEF Busy, Ended, Awaits, At
<1>7. CallerOK(c)'
  <2>1. \A m \in Own(Ctx(c).id) : m.idx \in Nat
    BY DEF MapInv, WideTypeOK, MadSet, Own
  <2>2. \A m \in Own(Ctx(c).id) : m.idx > caller[c].left - 1
    BY <1>1, <1>2, <2>1 DEF CallerOK
  <2> QED
    BY <1>1, <1>3, <1>4, <1>5, <1>6, <2>2 DEF CallerOK, At
<1>8. caller'[c].limit <= MaxMads
  BY <1>3 DEF TimelyInv, BlocksClean
<1> QED
  BY <1>1, <1>2, <1>3, <1>6, <1>7, <1>8, QuietStep

LEMMA TimelyCount ==
  ASSUME MapInv, TimelyInv, NEW c \in Callers, CountSent(c)
  PROVE  TimelyInv'
<1> DEFINE a == caller[c].addr
<1>1. /\ Busy(c) /\ At(c, "count") /\ CallerOK(c)
      /\ UNCHANGED <<mapLock, active, nextId, worker, inflight, sent, counted, data, returned>>
  BY DEF CountSent, Busy, At, TimelyInv, data
<1>2. /\ mem \in [Addrs -> BlockType] /\ caller \in [Callers -> CallerType]
      /\ a \in Addrs /\ Ctx(c) = mem[a] /\ caller[c].left \in Nat
      /\ IsFiniteSet(Pending(Ctx(c).id))
      /\ Cardinality(Pending(Ctx(c).id)) \in Nat
      /\ Cardinality(Pending(Ctx(c).id)) <= MaxMads
  BY <1>1, CallerFacts, CallerFields, Bounds
<1>3. /\ caller'[c].pc = "send" /\ caller'[c].addr = a
      /\ caller'[c].left = caller[c].left - 1 /\ caller'[c].limit = caller[c].limit
      /\ caller'[c].some
      /\ \A d \in Callers : d # c => caller'[d] = caller[d]
  BY <1>1, <1>2 DEF CountSent, CallerType, At
<1>4. /\ mem'[a].id = mem[a].id /\ mem'[a].lock = mem[a].lock
      /\ mem'[a].allSent = mem[a].allSent /\ mem'[a].signaled = mem[a].signaled
      /\ mem'[a].out = (mem[a].out + 1) % 65536
      /\ \A x \in Addrs : x # a => mem'[x] = mem[x]
  BY <1>1, <1>2 DEF CountSent, BlockType
<1>5. Ctx(c)' = mem'[a]
  BY <1>3 DEF Ctx
<1> HIDE DEF a
<1>6. Own(Ctx(c).id)' = Own(Ctx(c).id) /\ Pending(Ctx(c).id)' = Pending(Ctx(c).id)
  BY <1>1, <1>2, <1>4, <1>5, SameMads
<1>7. Busy(c)' /\ ~Ended(c)' /\ ~Awaits(c)
  BY <1>1, <1>3 DEF Busy, Ended, Awaits, At
<1>8. Ctx(c)'.out = Cardinality(Pending(Ctx(c).id))
  <2>1. mem[a].out = Cardinality(Pending(Ctx(c).id)) - 1
    BY <1>1, <1>2 DEF CallerOK, Busy, At
  <2>2. Pending(Ctx(c).id) # {}
    BY <1>1 DEF CallerOK
  <2>3. Cardinality(Pending(Ctx(c).id)) # 0
    BY <1>2, <2>2, FS_EmptySet
  <2> QED
    BY <1>2, <1>4, <1>5, <2>1, <2>3, BatchAssumption
<1>9. CallerOK(c)'
  <2>1. \A m \in Own(Ctx(c).id) : m.idx \in Nat
    BY DEF MapInv, WideTypeOK, MadSet, Own
  <2>2. \A m \in Own(Ctx(c).id) : m.idx > caller[c].left - 1
    BY <1>1, <1>2, <2>1 DEF CallerOK
  <2>3. Ctx(c).lock = c /\ ~Ctx(c).allSent /\ ~Ctx(c).signaled
    BY <1>1 DEF CallerOK, At
  <2> QED
    BY <1>2, <1>3, <1>4, <1>5, <1>6, <1>7, <1>8, <2>2, <2>3 DEF CallerOK, At
<1>10. caller'[c].limit <= MaxMads
  BY <1>3 DEF TimelyInv, BlocksClean
<1> QED
  BY <1>1, <1>2, <1>3, <1>4, <1>7, <1>9, <1>10, QuietStep DEF a

LEMMA TimelyAllSent ==
  ASSUME MapInv, TimelyInv, NEW c \in Callers, AllSent(c)
  PROVE  TimelyInv'
<1> DEFINE a == caller[c].addr
<1>1. /\ Busy(c) /\ At(c, "send") /\ CallerOK(c)
      /\ UNCHANGED <<mapLock, active, nextId, worker, inflight, sent, counted, data, returned>>
  BY DEF AllSent, Busy, At, TimelyInv, data
<1>2. /\ mem \in [Addrs -> BlockType] /\ caller \in [Callers -> CallerType]
      /\ a \in Addrs /\ Ctx(c) = mem[a] /\ caller[c].some \in BOOLEAN
      /\ Cardinality(Pending(Ctx(c).id)) \in Nat
  BY <1>1, CallerFacts, CallerFields
<1>3. /\ caller'[c].pc = IF caller[c].some THEN "limit" ELSE "unlock"
      /\ caller'[c].addr = a /\ caller'[c].limit = caller[c].limit
      /\ \A d \in Callers : d # c => caller'[d] = caller[d]
  BY <1>1, <1>2 DEF AllSent, CallerType, At
<1>4. /\ mem'[a].id = mem[a].id /\ mem'[a].out = mem[a].out /\ mem'[a].allSent
      /\ mem'[a].signaled = mem[a].signaled
      /\ ~caller[c].some => mem'[a].lock = mem[a].lock
      /\ \A x \in Addrs : x # a => mem'[x] = mem[x]
  BY <1>1, <1>2 DEF AllSent, BlockType
<1>5. Ctx(c)' = mem'[a]
  BY <1>3 DEF Ctx
<1> HIDE DEF a
<1>6. Own(Ctx(c).id)' = Own(Ctx(c).id) /\ Pending(Ctx(c).id)' = Pending(Ctx(c).id)
  BY <1>1, <1>2, <1>4, <1>5, SameMads
<1>7. Busy(c)' /\ ~Awaits(c)
  BY <1>1, <1>3 DEF Busy, Awaits, At
<1>8. CallerOK(c)'
  <2>1. /\ Ctx(c).lock = c /\ ~Ctx(c).signaled
        /\ Ctx(c).out = Cardinality(Pending(Ctx(c).id))
        /\ ~caller[c].some => Own(Ctx(c).id) = {}
    BY <1>1, <1>2 DEF CallerOK, At
  <2>2. ~caller[c].some => Pending(Ctx(c).id) = {}
    BY <2>1 DEF Own, Pending
  <2> QED
    BY <1>2, <1>3, <1>4, <1>5, <1>6, <2>1, <2>2 DEF CallerOK, At, Ended
<1>9. caller'[c].limit <= MaxMads
  BY <1>3 DEF TimelyInv, BlocksClean
<1> QED
  BY <1>1, <1>2, <1>3, <1>4, <1>7, <1>8, <1>9, QuietStep DEF a

LEMMA TimelyReadLimit ==
  ASSUME MapInv, TimelyInv, NEW c \in Callers, ReadLimit(c)
  PROVE  TimelyInv'
<1>1. /\ Busy(c) /\ At(c, "limit") /\ CallerOK(c) /\ Awaits(c)
      /\ UNCHANGED <<mem, mapLock, active, nextId, worker, inflight, sent, counted, data, returned>>
  BY DEF ReadLimit, Busy, At, TimelyInv, data, Awaits
<1>2. /\ mem \in [Addrs -> BlockType] /\ caller \in [Callers -> CallerType]
      /\ Ctx(c) = mem[caller[c].addr]
      /\ IsFiniteSet(Pending(Ctx(c).id))
      /\ Cardinality(Pending(Ctx(c).id)) \in Nat
      /\ Cardinality(Pending(Ctx(c).id)) <= MaxMads
  BY <1>1, CallerFacts
<1>3. /\ caller'[c].pc = "wait" /\ caller'[c].addr = caller[c].addr
      /\ caller'[c].limit = Ctx(c).out
      /\ \A d \in Callers : d # c => caller'[d] = caller[d]
  BY <1>1, <1>2 DEF ReadLimit, CallerType, At
<1>4. Ctx(c)' = Ctx(c)
  BY <1>1, <1>3 DEF Ctx
<1>5. Own(Ctx(c).id)' = Own(Ctx(c).id) /\ Pending(Ctx(c).id)' = Pending(Ctx(c).id)
  BY <1>1, <1>4, SameMads
<1>6. Busy(c)' /\ Awaits(c)'
  BY <1>1, <1>3 DEF Busy, Awaits, At
<1>7. Ctx(c).out = Cardinality(Pending(Ctx(c).id))
  BY <1>1, <1>2 DEF CallerOK, At
<1>8. caller'[c].limit = 0 => Pending(Ctx(c).id) = {}
  BY <1>2, <1>3, <1>7, FS_EmptySet
<1>9. CallerOK(c)'
  BY <1>1, <1>3, <1>4, <1>5, <1>7, <1>8 DEF CallerOK, At, Ended
<1> QED
  BY <1>1, <1>2, <1>3, <1>6, <1>7, <1>9, QuietStep

\* The wait ends by the signal, after the last answer, or was of length zero,
\* with no answer to wait for.
LEMMA TimelyWait ==
  ASSUME MapInv, TimelyInv, ~late, NEW c \in Callers, Awake(c) \/ RunOut(c)
  PROVE  TimelyInv'
<1> DEFINE a == caller[c].addr
<1>1. /\ Busy(c) /\ At(c, "wait") /\ CallerOK(c) /\ Awaits(c)
      /\ UNCHANGED <<mapLock, active, nextId, worker, inflight, sent, counted, data, returned>>
  BY DEF Awake, RunOut, Busy, At, TimelyInv, data, Awaits
<1>2. /\ mem \in [Addrs -> BlockType] /\ caller \in [Callers -> CallerType]
      /\ a \in Addrs /\ Ctx(c) = mem[a] /\ Cardinality(Pending(Ctx(c).id)) \in Nat
  BY <1>1, CallerFacts
<1>3. /\ caller'[c].pc = "relock" /\ caller'[c].addr = a
      /\ caller'[c].limit = caller[c].limit
      /\ \A d \in Callers : d # c => caller'[d] = caller[d]
  BY <1>1, <1>2 DEF Awake, RunOut, CallerType, At
<1>4. /\ mem'[a].id = mem[a].id /\ mem'[a].out = mem[a].out
      /\ mem'[a].allSent = mem[a].allSent /\ mem'[a].lock = mem[a].lock
      /\ mem'[a].signaled => mem[a].signaled
      /\ \A x \in Addrs : x # a => mem'[x] = mem[x]
  BY <1>1, <1>2 DEF Awake, RunOut, BlockType
<1>5. Ctx(c)' = mem'[a]
  BY <1>3 DEF Ctx
<1>6. Pending(Ctx(c).id) = {}
  <2>1. Ctx(c).signaled \/ caller[c].limit = 0
    BY DEF Awake, RunOut
  <2> QED
    BY <1>1, <2>1 DEF CallerOK, Ended
<1> HIDE DEF a
<1>7. Own(Ctx(c).id)' = Own(Ctx(c).id) /\ Pending(Ctx(c).id)' = Pending(Ctx(c).id)
  BY <1>1, <1>2, <1>4, <1>5, SameMads
<1>8. Busy(c)' /\ Awaits(c)'
  BY <1>3 DEF Busy, Awaits
<1>9. CallerOK(c)'
  <2>1. Ctx(c).out = Cardinality(Pending(Ctx(c).id)) /\ (Ctx(c).signaled => Ctx(c).allSent)
    BY <1>1, <1>2 DEF CallerOK, At
  <2>2. /\ Ctx(c)'.id = Ctx(c).id /\ Ctx(c)'.out = Ctx(c).out /\ Ctx(c)'.allSent = Ctx(c).allSent
        /\ Ctx(c)'.signaled => Ctx(c).signaled
    BY <1>2, <1>4, <1>5
  <2>3. ~At(c, "send")' /\ ~At(c, "count")' /\ caller'[c].pc \notin {"send", "count", "unlock"}
    BY <1>3 DEF At
  <2>4. Pending(Ctx(c).id)' = {} /\ Cardinality(Pending(Ctx(c).id))' = Cardinality(Pending(Ctx(c).id))
    BY <1>6, <1>7
  <2>5. Cardinality(Pending(Ctx(c).id)) - 0 = Cardinality(Pending(Ctx(c).id))
    BY <1>2
  <2>6. /\ Ctx(c)'.out = Cardinality(Pending(Ctx(c).id))' - (IF At(c, "count")' THEN 1 ELSE 0)
        /\ Ctx(c)'.signaled => Ctx(c)'.allSent
    BY <2>1, <2>2, <2>3, <2>4, <2>5
  <2> QED
    BY <2>3, <2>4, <2>6 DEF CallerOK
<1>10. caller'[c].limit <= MaxMads
  BY <1>3 DEF TimelyInv, BlocksClean
<1> QED
  BY <1>1, <1>2, <1>3, <1>4, <1>8, <1>9, <1>10, QuietStep DEF a

LEMMA TimelyRelock ==
  ASSUME MapInv, TimelyInv, NEW c \in Callers, Relock(c) \/ Unlock(c) \/ Remove(c)
  PROVE  TimelyInv'
<1> DEFINE a == caller[c].addr
<1>1. /\ Busy(c) /\ Ended(c) /\ CallerOK(c)
      /\ Awaits(c) => Ctx(c).lock = NoOne
      /\ UNCHANGED <<mapLock, nextId, worker, inflight, sent, counted, data, returned>>
      /\ active' = active \/ mapLock = NoOne
  BY DEF Relock, Unlock, Remove, Busy, Ended, At, TimelyInv, data, Awaits
<1>2. /\ mem \in [Addrs -> BlockType] /\ caller \in [Callers -> CallerType]
      /\ a \in Addrs /\ Ctx(c) = mem[a] /\ Cardinality(Pending(Ctx(c).id)) \in Nat
  BY <1>1, CallerFacts
<1>3. /\ caller'[c].pc \in {"unlock", "remove", "free"} /\ caller'[c].addr = a
      /\ caller'[c].limit = caller[c].limit
      /\ \A d \in Callers : d # c => caller'[d] = caller[d]
  BY <1>1, <1>2 DEF Relock, Unlock, Remove, CallerType, At
<1>4. /\ mem'[a].id = mem[a].id /\ mem'[a].out = mem[a].out
      /\ mem'[a].allSent = mem[a].allSent /\ mem'[a].signaled = mem[a].signaled
      /\ caller'[c].pc = "unlock" => mem'[a].lock = c
      /\ \A x \in Addrs : x # a => mem'[x] = mem[x]
  BY <1>1, <1>2 DEF Relock, Unlock, Remove, BlockType, CallerType, At
<1>5. Ctx(c)' = mem'[a]
  BY <1>3 DEF Ctx
<1>6. Pending(Ctx(c).id) = {} /\ Ctx(c).out = Cardinality(Pending(Ctx(c).id))
  <2>1. ~At(c, "count")
    BY <1>1 DEF Ended, At
  <2> QED
    BY <1>1, <1>2, <2>1 DEF CallerOK
<1> HIDE DEF a
<1>7. Own(Ctx(c).id)' = Own(Ctx(c).id) /\ Pending(Ctx(c).id)' = Pending(Ctx(c).id)
  BY <1>1, <1>2, <1>4, <1>5, SameMads
<1>8. Busy(c)'
  BY <1>3 DEF Busy
<1>9. CallerOK(c)'
  BY <1>1, <1>2, <1>3, <1>4, <1>5, <1>6, <1>7 DEF CallerOK, At
<1>10. caller'[c].limit <= MaxMads
  BY <1>3 DEF TimelyInv, BlocksClean
<1> QED
  BY <1>1, <1>2, <1>3, <1>4, <1>8, <1>9, <1>10, QuietStep DEF a

\* The context is freed when no MAD of the batch is outstanding.
LEMMA TimelyFree ==
  ASSUME MapInv, TimelyInv, NEW c \in Callers, Free(c)
  PROVE  TimelyInv'
<1> DEFINE a == caller[c].addr
           id == Ctx(c).id
<1>1. /\ Busy(c) /\ Ended(c) /\ CallerOK(c) /\ ~Awaits(c)
      /\ UNCHANGED <<mapLock, active, nextId, worker, inflight, sent, counted, answered, results>>
  BY DEF Free, Busy, Ended, At, TimelyInv, data, Awaits
<1>2. /\ mem \in [Addrs -> BlockType] /\ caller \in [Callers -> CallerType]
      /\ a \in Addrs /\ id \in Ids /\ id < nextId
  BY <1>1, CallerFacts
<1>3. /\ caller'[c] = IdleCaller /\ ~Busy(c)' /\ caller'[c].limit = 0
      /\ \A d \in Callers : d # c => caller'[d] = caller[d]
  <2>1. IdleCaller.limit = 0
    BY DEF IdleCaller
  <2> QED
    BY <1>1, <1>2, <2>1, InitialValues DEF Free, Busy
<1>4. mem'[a].out = 0 /\ \A x \in Addrs : x # a => mem'[x] = mem[x]
  <2>1. Zeroed.out = 0
    BY DEF Zeroed
  <2> QED
    BY <1>2, <2>1 DEF Free
<1>5. \A d \in Callers : d # c => /\ Busy(d)' <=> Busy(d)
                                  /\ Busy(d) => Ctx(d)' = Ctx(d) /\ Ctx(d).id # id
  BY <1>1, <1>3, <1>4, OtherCallers
<1>6. \A k \in Ids : k # id => returned'[k] = returned[k]
  BY DEF Free, MapInv, WideTypeOK
<1>7. Pending(id) = {}
  BY <1>1 DEF CallerOK
<1> HIDE DEF a, id
<1>8. MadsTracked' /\ ResultsKept'
  BY <1>1 DEF TimelyInv, MadsTracked, ResultsKept
<1>9. ReturnsKept'
  <2> SUFFICES ASSUME NEW k \in Ids, returned'[k] # "none"
               PROVE  /\ k < nextId /\ Pending(k)' = {}
                      /\ \A d \in Callers : Busy(d)' => Ctx(d)'.id # k
    BY <1>1 DEF ReturnsKept
  <2>1. Pending(k)' = Pending(k)
    BY <1>1 DEF Pending
  <2>2. CASE k = id
    BY <1>2, <1>3, <1>5, <1>7, <2>1, <2>2
  <2>3. CASE k # id
    <3>1. /\ k < nextId /\ Pending(k) = {}
          /\ \A d \in Callers : Busy(d) => Ctx(d).id # k
      BY <1>6, <2>3 DEF TimelyInv, ReturnsKept
    <3> QED
      BY <1>3, <1>5, <2>1, <3>1
  <2> QED
    BY <2>2, <2>3
<1>10. BlocksClean'
  <2>1. ASSUME NEW x \in Addrs, mem'[x].out # 0
        PROVE  \E d \in Callers : Busy(d)' /\ caller'[d].addr = x
    <3>1. x # a /\ mem[x].out # 0
      BY <1>4, <2>1
    <3>2. PICK d \in Callers : Busy(d) /\ caller[d].addr = x
      BY <3>1 DEF TimelyInv, BlocksClean
    <3> QED
      BY <1>3, <1>5, <3>1, <3>2 DEF a
  <2>2. \A d \in Callers : caller'[d].limit <= MaxMads
    BY <1>3, Bounds DEF TimelyInv, BlocksClean
  <2> QED
    BY <2>1, <2>2 DEF BlocksClean
<1>11. \A d \in Callers : CallerOK(d)'
  <2>1. CallerOK(c)'
    BY <1>3 DEF CallerOK
  <2>2. ASSUME NEW d \in Callers, d # c
        PROVE  CallerOK(d)'
    <3>1. Busy(d) => Ctx(d)' = Ctx(d)
      BY <1>5, <2>2
    <3>2. Busy(d) => /\ Own(Ctx(d).id)' = Own(Ctx(d).id)
                     /\ Pending(Ctx(d).id)' = Pending(Ctx(d).id)
      BY <1>1, <3>1, SameMads
    <3>3. CallerOK(d) /\ caller'[d] = caller[d]
      BY <1>3, <2>2 DEF TimelyInv
    <3> QED
      BY <3>1, <3>2, <3>3, CallerFrame
  <2> QED
    BY <2>1, <2>2
<1>12. \A w \in Workers : WorkerOK(w)'
  BY <1>1, <1>3, <1>4, WorkersFrame DEF a
<1> QED
  BY <1>8, <1>9, <1>10, <1>11, <1>12 DEF TimelyInv

\* A new batch has sent nothing, under an id that no MAD carries.
LEMMA TimelyCall ==
  ASSUME MapInv, TimelyInv, NEW c \in Callers, Call(c)
  PROVE  TimelyInv'
<1>1. PICK num \in 1 .. MaxMads : NewBatch(c, num)
  BY DEF Call
<1> DEFINE block == [Zeroed EXCEPT !.live = TRUE, !.id = nextId, !.lock = c]
           call(a) == [IdleCaller EXCEPT !.pc = "send", !.addr = a, !.left = num]
<1>2. PICK a \in Addrs :
        /\ ~mem[a].live
        /\ mem' = [mem EXCEPT ![a] = block]
        /\ active' = [id \in DOMAIN active \cup {nextId} |->
                        IF id = nextId THEN a ELSE active[id]]
        /\ caller' = [caller EXCEPT ![c] = call(a)]
  BY <1>1, Zenon DEF NewBatch
<1>3. /\ block.id = nextId /\ block.lock = c /\ block.out = 0
      /\ ~block.allSent /\ ~block.signaled
  BY DEF Zeroed
<1>4. call(a).addr = a /\ call(a).pc = "send" /\ call(a).limit = 0
  BY DEF IdleCaller
<1> HIDE DEF block, call
<1>5. /\ mem \in [Addrs -> BlockType] /\ caller \in [Callers -> CallerType]
      /\ nextId \in Nat \ {0} /\ nextId' = nextId + 1 /\ ~Busy(c) /\ mapLock = NoOne
      /\ UNCHANGED <<mapLock, worker, inflight, sent, counted, returned, answered, results>>
  BY <1>1 DEF MapInv, WideTypeOK, NewBatch, At, Busy, data
<1>6. /\ caller'[c] = call(a) /\ Busy(c)'
      /\ \A d \in Callers : d # c => caller'[d] = caller[d]
      /\ mem'[a] = block /\ \A x \in Addrs : x # a => mem'[x] = mem[x]
      /\ Ctx(c)' = block
  BY <1>2, <1>4, <1>5 DEF Busy, Ctx
<1>7. \A d \in Callers : d # c => (Busy(d)' <=> Busy(d))
  BY <1>6 DEF Busy
<1>8. ASSUME NEW d \in Callers, Busy(d)
      PROVE  d # c /\ caller[d].addr # a /\ caller'[d].addr = caller[d].addr /\ Ctx(d)' = Ctx(d)
  <2>1. Ctx(d).live /\ caller[d].addr \in Addrs /\ d # c
    BY <1>5, <1>8, CallerFacts DEF MapInv, ContextsOwned
  <2> QED
    BY <1>2, <1>6, <2>1 DEF Ctx
<1>9. MadsTracked'
  <2>1. \A m \in sent : m.batch \in Nat
    BY Bounds DEF MapInv, WideTypeOK, MadSet, Ids
  <2> QED
    BY <1>5, <2>1 DEF TimelyInv, MadsTracked
<1>10. ResultsKept'
  BY <1>5 DEF TimelyInv, ResultsKept
<1>11. ReturnsKept'
  <2> SUFFICES ASSUME NEW k \in Ids, returned[k] # "none"
               PROVE  /\ k < nextId' /\ Pending(k)' = {}
                      /\ \A d \in Callers : Busy(d)' => Ctx(d)'.id # k
    BY <1>5 DEF ReturnsKept
  <2>1. /\ k < nextId /\ Pending(k) = {} /\ k \in Nat
        /\ \A d \in Callers : Busy(d) => Ctx(d).id # k
    BY Bounds DEF TimelyInv, ReturnsKept, Ids
  <2>2. Pending(k)' = {}
    BY <1>5, <2>1 DEF Pending
  <2>3. ASSUME NEW d \in Callers, Busy(d)'
        PROVE  Ctx(d)'.id # k
    <3>1. CASE d = c
      BY <1>3, <1>5, <1>6, <2>1, <3>1
    <3>2. CASE d # c
      BY <1>7, <1>8, <2>1, <2>3, <3>2
    <3> QED
      BY <3>1, <3>2
  <2> QED
    BY <1>5, <2>1, <2>2, <2>3
<1>12. BlocksClean'
  <2>1. ASSUME NEW x \in Addrs, mem'[x].out # 0
        PROVE  \E d \in Callers : Busy(d)' /\ caller'[d].addr = x
    <3>1. mem[x].out # 0
      BY <1>3, <1>6, <2>1
    <3>2. PICK d \in Callers : Busy(d) /\ caller[d].addr = x
      BY <3>1 DEF TimelyInv, BlocksClean
    <3> QED
      BY <1>7, <1>8, <3>2
  <2>2. \A d \in Callers : caller'[d].limit <= MaxMads
    BY <1>4, <1>6, Bounds DEF TimelyInv, BlocksClean
  <2> QED
    BY <2>1, <2>2 DEF BlocksClean
<1>13. \A d \in Callers : CallerOK(d)'
  <2>1. CallerOK(c)'
    <3>1. \A m \in sent : m.batch # nextId
      BY Bounds DEF TimelyInv, MadsTracked, MapInv, WideTypeOK, MadSet, Ids
    <3>2. Own(Ctx(c).id)' = {} /\ Pending(Ctx(c).id)' = {}
      BY <1>3, <1>5, <1>6, <3>1 DEF Own, Pending
    <3>3. caller'[c].pc = "send"
      BY <1>4, <1>6
    <3>4. ~Ended(c)'
      BY <3>3 DEF Ended, At
    <3>5. Cardinality({}) = 0
      BY FS_EmptySet
    <3>6. /\ Ctx(c)'.lock = c /\ ~Ctx(c)'.allSent /\ ~Ctx(c)'.signaled
          /\ Ctx(c)'.out = Cardinality(Pending(Ctx(c).id)') - 0
      BY <1>3, <1>6, <3>2, <3>5
    <3> QED
      BY <3>2, <3>3, <3>4, <3>6 DEF CallerOK, At
  <2>2. ASSUME NEW d \in Callers, d # c
        PROVE  CallerOK(d)'
    <3>1. Busy(d) => Ctx(d)' = Ctx(d)
      BY <1>8
    <3>2. Busy(d) => /\ Own(Ctx(d).id)' = Own(Ctx(d).id)
                     /\ Pending(Ctx(d).id)' = Pending(Ctx(d).id)
      BY <1>5, <3>1, SameMads
    <3>3. CallerOK(d) /\ caller'[d] = caller[d]
      BY <1>6, <2>2 DEF TimelyInv
    <3> QED
      BY <3>1, <3>2, <3>3, CallerFrame
  <2> QED
    BY <2>1, <2>2
<1>14. \A w \in Workers : WorkerOK(w)'
  <2> SUFFICES ASSUME NEW w \in Workers
               PROVE  WorkerOK(w)'
    OBVIOUS
  <2>1. WorkerOK(w) /\ w # NoOne
    BY BatchAssumption DEF TimelyInv
  <2>2. worker[w].pc # "ctxlock"
    BY <1>5, <2>1 DEF WorkerOK
  <2>3. ASSUME Serves(w)
        PROVE  /\ mem'[worker[w].addr].lock = w
               /\ \E d \in Callers : /\ Awaits(d)' /\ caller'[d].addr = worker[w].addr
                                     /\ Ctx(d)'.id = worker[w].mad.batch
    <3>1. PICK d \in Callers : /\ Awaits(d) /\ caller[d].addr = worker[w].addr
                               /\ Ctx(d).id = worker[w].mad.batch
      BY <2>1, <2>3 DEF WorkerOK
    <3>2. Busy(d)
      BY <3>1 DEF Awaits, Busy
    <3>3. Awaits(d)'
      BY <1>6, <1>8, <3>1, <3>2 DEF Awaits
    <3>4. worker[w].addr \in Addrs
      BY DEF MapInv, WideTypeOK, WorkerType
    <3>5. mem'[worker[w].addr].lock = w
      BY <1>6, <1>8, <2>1, <2>3, <3>1, <3>2, <3>4 DEF WorkerOK
    <3> QED
      BY <1>8, <3>1, <3>2, <3>3, <3>5
  <2>4. /\ Carries(w)' <=> Carries(w)
        /\ Serves(w)' <=> Serves(w)
        /\ \A v \in Workers : Carries(v)' <=> Carries(v)
    BY <1>5 DEF Carries, Serves
  <2> QED
    BY <1>5, <2>1, <2>2, <2>3, <2>4 DEF WorkerOK
<1> QED
  BY <1>9, <1>10, <1>11, <1>12, <1>13, <1>14 DEF TimelyInv

-----------------------------------------------------------------------------
(* The callbacks, when every answer comes in time. *)

\* A callback keeps the record of returned batches: it only counts MADs.
LEMMA ReturnsFrame ==
  ASSUME MapInv, TimelyInv, UNCHANGED <<nextId, caller, returned, sent>>,
         counted \subseteq counted',
         \A x \in Addrs : mem'[x].id = mem[x].id
  PROVE  ReturnsKept'
<1>1. \A d \in Callers : (Busy(d)' <=> Busy(d)) /\ Ctx(d)'.id = Ctx(d).id
  BY CallerFields DEF MapInv, WideTypeOK, Busy, Ctx
<1>2. \A k \in Ids : Pending(k)' \subseteq Pending(k)
  BY DEF Pending
<1> QED
  BY <1>1, <1>2 DEF TimelyInv, ReturnsKept

\* A callback that works on the context of one call leaves the others alone.
LEMMA CallersFrame ==
  ASSUME MapInv, TimelyInv, NEW c \in Callers, Busy(c), UNCHANGED <<caller, sent>>,
         counted \subseteq counted', \A m \in counted' \ counted : m.batch = Ctx(c).id,
         \A x \in Addrs : x # caller[c].addr => mem'[x] = mem[x],
         NEW d \in Callers, d # c
  PROVE  CallerOK(d)'
<1>1. /\ Busy(d)' <=> Busy(d)
      /\ Busy(d) => Ctx(d)' = Ctx(d) /\ Ctx(d).id # Ctx(c).id
  BY OtherCallers
<1>2. Busy(d) => /\ Own(Ctx(d).id)' = Own(Ctx(d).id)
                 /\ Pending(Ctx(d).id)' = Pending(Ctx(d).id)
  <2> SUFFICES ASSUME Busy(d)
               PROVE  /\ Own(Ctx(d).id)' = Own(Ctx(d).id)
                      /\ Pending(Ctx(d).id)' = Pending(Ctx(d).id)
    OBVIOUS
  <2>1. {m \in sent : m.batch = Ctx(d).id} = Own(Ctx(d).id)
    BY DEF Own
  <2>2. {m \in sent \ counted' : m.batch = Ctx(d).id} = Pending(Ctx(d).id)
    BY <1>1 DEF Pending
  <2> QED
    BY <1>1, <2>1, <2>2 DEF Own, Pending
<1> QED
  BY <1>1, <1>2, CallerFrame DEF TimelyInv

\* A step that changes no context, no call and no MAD keeps what the invariant
\* says of calls.
LEMMA QuietCallers ==
  ASSUME MapInv, TimelyInv, UNCHANGED <<nextId, mem, caller, sent, counted, returned>>
  PROVE  ReturnsKept' /\ BlocksClean' /\ \A d \in Callers : CallerOK(d)'
<1>1. ReturnsKept'
  BY ReturnsFrame
<1>2. \A d \in Callers : (Busy(d)' <=> Busy(d)) /\ Ctx(d)' = Ctx(d)
  BY DEF Busy, Ctx
<1>3. BlocksClean'
  BY <1>2 DEF TimelyInv, BlocksClean
<1>4. ASSUME NEW d \in Callers
      PROVE  CallerOK(d)'
  <2>1. Own(Ctx(d).id)' = Own(Ctx(d).id) /\ Pending(Ctx(d).id)' = Pending(Ctx(d).id)
    BY <1>2, SameMads
  <2> QED
    BY <1>2, <2>1, CallerFrame DEF TimelyInv
<1> QED
  BY <1>1, <1>3, <1>4

\* A step of one callback leaves another one alone if it takes neither its MAD
\* nor the lock of its context.
LEMMA OtherWorkers ==
  ASSUME MapInv, TimelyInv, NEW w \in Workers, NEW v \in Workers, v # w,
         UNCHANGED <<active, caller, sent>>,
         \A u \in Workers : u # w => worker'[u] = worker[u],
         mapLock' = mapLock \/ mapLock \in {NoOne, w},
         inflight' \subseteq inflight,
         Carries(v) => worker[v].mad \notin counted' \ counted,
         Carries(v) /\ Carries(w)' => worker'[w].mad # worker[v].mad,
         \A x \in Addrs : mem'[x].id = mem[x].id,
         Serves(v) => mem'[worker[v].addr].lock = mem[worker[v].addr].lock
  PROVE  WorkerOK(v)'
<1>1. WorkerOK(v) /\ v # NoOne /\ worker'[v] = worker[v]
  BY BatchAssumption DEF TimelyInv
<1>2. \A u \in Workers : u # w => (Carries(u)' <=> Carries(u))
  BY DEF Carries
<1>3. Serves(v)' <=> Serves(v)
  BY <1>1 DEF Serves
<1>4. ASSUME Carries(v)
      PROVE  /\ worker[v].mad \in sent \ (counted' \cup inflight')
             /\ \A u \in Workers : u # v /\ Carries(u)' => worker'[u].mad # worker[v].mad
  BY <1>1, <1>2, <1>4 DEF WorkerOK
<1>5. ASSUME worker[v].pc = "ctxlock"
      PROVE  /\ mapLock' = v /\ worker[v].mad.batch \in DOMAIN active
             /\ worker[v].addr = active[worker[v].mad.batch]
  BY <1>1, <1>5 DEF WorkerOK
<1>6. ASSUME Serves(v)
      PROVE  /\ mem'[worker[v].addr].lock = v
             /\ \E d \in Callers : /\ Awaits(d)' /\ caller'[d].addr = worker[v].addr
                                   /\ Ctx(d)'.id = worker[v].mad.batch
  <2>1. PICK d \in Callers : /\ Awaits(d) /\ caller[d].addr = worker[v].addr
                             /\ Ctx(d).id = worker[v].mad.batch
    BY <1>1, <1>6 DEF WorkerOK
  <2>2. Awaits(d)' /\ Ctx(d)'.id = Ctx(d).id
    BY <2>1, CallerFields DEF Awaits, Ctx, MapInv, WideTypeOK
  <2> QED
    BY <1>1, <1>6, <2>1, <2>2 DEF WorkerOK
<1> QED
  BY <1>1, <1>2, <1>3, <1>4, <1>5, <1>6 DEF WorkerOK

\* A MAD that is reported goes from the vendor layer to one callback.
LEMMA TimelyReport ==
  ASSUME MapInv, TimelyInv, NEW w \in Workers, NEW mad \in inflight,
         NEW answer \in BOOLEAN, Report(w, mad, answer)
  PROVE  TimelyInv'
<1>1. /\ worker[w].pc = "idle" /\ inflight' = inflight \ {mad}
      /\ UNCHANGED <<mapLock, active, nextId, mem, caller, sent, counted, returned, results>>
      /\ answered \subseteq answered' /\ answered' \subseteq answered \cup {mad}
  BY DEF Report
<1>2. /\ worker'[w].pc = "lookup" /\ worker'[w].mad = mad
      /\ \A v \in Workers : v # w => worker'[v] = worker[v]
  BY DEF Report, IdleWorker, MapInv, WideTypeOK
<1>3. mad \in sent \ counted
  BY DEF TimelyInv, MadsTracked
<1>4. MadsTracked'
  BY <1>1, <1>3 DEF TimelyInv, MadsTracked
<1>5. ResultsKept'
  <2>1. answered' \cap counted' = answered \cap counted
    BY <1>1, <1>3
  <2> QED
    BY <1>1, <2>1 DEF TimelyInv, ResultsKept
<1>6. ReturnsKept' /\ BlocksClean' /\ \A d \in Callers : CallerOK(d)'
  BY <1>1, QuietCallers
<1>7. \A v \in Workers : Carries(v) => worker[v].mad # mad
  BY DEF TimelyInv, WorkerOK
<1>8. WorkerOK(w)'
  <2>1. Carries(w)' /\ ~Serves(w)' /\ \A v \in Workers : v # w => (Carries(v)' <=> Carries(v))
    BY <1>2 DEF Carries, Serves
  <2> QED
    BY <1>1, <1>2, <1>3, <1>7, <2>1 DEF WorkerOK
<1>9. ASSUME NEW v \in Workers, v # w
      PROVE  WorkerOK(v)'
  BY <1>1, <1>2, <1>7, <1>9, OtherWorkers
<1> QED
  BY <1>4, <1>5, <1>6, <1>8, <1>9 DEF TimelyInv

\* A callback that finds its context holds the map until it has locked it.
LEMMA TimelyLookup ==
  ASSUME MapInv, TimelyInv, NEW w \in Workers, Lookup(w)
  PROVE  TimelyInv'
<1>1. /\ worker[w].pc = "lookup" /\ mapLock = NoOne
      /\ UNCHANGED <<active, nextId, mem, caller, inflight, sent, counted, returned, answered, results>>
  BY DEF Lookup, data
<1>2. \A v \in Workers : v # w => worker'[v] = worker[v]
  BY DEF Lookup, MapInv, WideTypeOK
<1>3. \/ /\ worker'[w].pc = "ctxlock" /\ mapLock' = w
         /\ worker[w].mad.batch \in DOMAIN active
         /\ worker'[w].mad = worker[w].mad
         /\ worker'[w].addr = active[worker[w].mad.batch]
      \/ worker'[w].pc = "idle"
  BY InitialValues DEF Lookup, MapInv, WideTypeOK, WorkerType
<1>4. MadsTracked' /\ ResultsKept'
  BY <1>1 DEF TimelyInv, MadsTracked, ResultsKept
<1>5. ReturnsKept' /\ BlocksClean' /\ \A d \in Callers : CallerOK(d)'
  BY <1>1, QuietCallers
<1>6. Carries(w) /\ WorkerOK(w)
  BY <1>1 DEF Carries, TimelyInv
<1>7. WorkerOK(w)'
  <2>1. ~Serves(w)' /\ \A v \in Workers : v # w => (Carries(v)' <=> Carries(v))
    BY <1>2, <1>3 DEF Carries, Serves
  <2>2. Carries(w)' => worker'[w].mad = worker[w].mad
    BY <1>3 DEF Carries
  <2> QED
    BY <1>1, <1>2, <1>3, <1>6, <2>1, <2>2 DEF WorkerOK
<1>8. ASSUME NEW v \in Workers, v # w
      PROVE  WorkerOK(v)'
  <2>1. Carries(v) /\ Carries(w)' => worker'[w].mad # worker[v].mad
    BY <1>3, <1>6, <1>8 DEF WorkerOK, Carries
  <2> QED
    BY <1>1, <1>2, <1>8, <2>1, OtherWorkers
<1> QED
  BY <1>4, <1>5, <1>7, <1>8 DEF TimelyInv

\* The context that the map gives belongs to a call that awaits it: the MAD of
\* the callback is outstanding, so the call is not over, and the lock is free.
LEMMA TimelyLockContext ==
  ASSUME MapInv, TimelyInv, NEW w \in Workers, LockContext(w)
  PROVE  TimelyInv'
<1> DEFINE a == worker[w].addr
           mad == worker[w].mad
<1>1. /\ worker[w].pc = "ctxlock" /\ Carries(w) /\ ~Serves(w)
      /\ mem[a].lock = NoOne /\ mapLock' = NoOne
      /\ UNCHANGED <<active, nextId, caller, inflight, sent, counted, returned, answered, results>>
  BY DEF LockContext, data, Carries, Serves
<1>2. /\ mem \in [Addrs -> BlockType] /\ a \in Addrs
      /\ WorkerOK(w) /\ w # NoOne
  BY BatchAssumption DEF MapInv, WideTypeOK, WorkerType, TimelyInv
<1>3. /\ worker'[w].pc = "record" /\ worker'[w].addr = a /\ worker'[w].mad = mad
      /\ \A v \in Workers : v # w => worker'[v] = worker[v]
  BY DEF LockContext, MapInv, WideTypeOK, WorkerType
<1>4. /\ mem'[a].id = mem[a].id /\ mem'[a].out = mem[a].out
      /\ mem'[a].allSent = mem[a].allSent /\ mem'[a].signaled = mem[a].signaled
      /\ mem'[a].lock = w
      /\ \A x \in Addrs : x # a => mem'[x] = mem[x]
  BY <1>2 DEF LockContext, BlockType
<1> HIDE DEF a, mad
<1>5. PICK c \in Callers : Busy(c) /\ ~At(c, "free") /\ caller[c].addr = a /\ Ctx(c).id = mad.batch
  BY <1>1, <1>2 DEF WorkerOK, MapInv, ContextsOwned, a, mad
<1>6. Ctx(c) = mem[a] /\ Ctx(c)' = mem'[a] /\ CallerOK(c)
  BY <1>1, <1>5 DEF Ctx, TimelyInv
<1>7. mad \in Pending(Ctx(c).id)
  BY <1>1, <1>2, <1>5 DEF WorkerOK, Pending, mad
<1>8. Awaits(c)
  <2>1. c # NoOne /\ caller[c].pc \in {"idle", "send", "count", "limit", "wait", "relock",
                                       "unlock", "remove", "free"}
    BY BatchAssumption DEF MapInv, WideTypeOK, CallerType
  <2>2. ~Ended(c) /\ caller[c].pc \notin {"send", "count", "unlock"}
    BY <1>1, <1>5, <1>6, <1>7, <2>1 DEF CallerOK
  <2> QED
    BY <1>5, <2>1, <2>2 DEF Awaits, Ended, Busy, At
<1>9. MadsTracked' /\ ResultsKept'
  BY <1>1 DEF TimelyInv, MadsTracked, ResultsKept
<1>10. ReturnsKept'
  BY <1>1, <1>4, ReturnsFrame
<1>11. BlocksClean'
  <2>1. \A d \in Callers : Busy(d)' <=> Busy(d)
    BY <1>1 DEF Busy
  <2>2. \A x \in Addrs : mem'[x].out = mem[x].out
    BY <1>4
  <2> QED
    BY <1>1, <2>1, <2>2 DEF TimelyInv, BlocksClean
<1>12. CallerOK(c)'
  <2>1. Own(Ctx(c).id)' = Own(Ctx(c).id) /\ Pending(Ctx(c).id)' = Pending(Ctx(c).id)
    BY <1>1, <1>4, <1>6, SameMads
  <2>2. Ended(c)' <=> Ended(c)
    BY <1>1 DEF Ended, At
  <2>3. caller'[c].pc \notin {"send", "count", "unlock"}
    BY <1>1, <1>8 DEF Awaits
  <2> QED
    BY <1>1, <1>4, <1>5, <1>6, <2>1, <2>2, <2>3 DEF CallerOK, At
<1>13. \A d \in Callers : d # c => CallerOK(d)'
  BY <1>1, <1>4, <1>5, CallersFrame
<1>14. WorkerOK(w)'
  <2>1. Carries(w)' /\ Serves(w)' /\ \A v \in Workers : v # w => (Carries(v)' <=> Carries(v))
    BY <1>3 DEF Carries, Serves
  <2>2. Awaits(c)' /\ Ctx(c)'.id = mad.batch
    BY <1>1, <1>4, <1>5, <1>6, <1>8 DEF Awaits
  <2> QED
    BY <1>1, <1>2, <1>3, <1>4, <1>5, <2>1, <2>2 DEF WorkerOK, mad
<1>15. ASSUME NEW v \in Workers, v # w
       PROVE  WorkerOK(v)'
  <2>1. Carries(v) => worker'[w].mad # worker[v].mad
    BY <1>1, <1>2, <1>3, <1>15 DEF WorkerOK, mad
  <2>2. Serves(v) => worker[v].addr # a /\ worker[v].addr \in Addrs
    <3>1. Serves(v) => mem[worker[v].addr].lock = v /\ v # NoOne
      BY BatchAssumption DEF TimelyInv, WorkerOK
    <3> QED
      BY <1>1, <3>1 DEF MapInv, WideTypeOK, WorkerType, a
  <2>3. /\ Serves(v) => mem'[worker[v].addr].lock = mem[worker[v].addr].lock
        /\ \A x \in Addrs : mem'[x].id = mem[x].id
    BY <1>4, <2>2
  <2>4. mapLock' = mapLock \/ mapLock \in {NoOne, w}
    BY <1>1, <1>2 DEF WorkerOK
  <2> QED
    BY <1>1, <1>3, <1>15, <2>1, <2>3, <2>4, OtherWorkers
<1> QED
  BY <1>9, <1>10, <1>11, <1>12, <1>13, <1>14, <1>15 DEF TimelyInv

\* The callback counts its MAD off in the context of its own batch.
LEMMA TimelyRecord ==
  ASSUME MapInv, TimelyInv, NEW w \in Workers, Record(w)
  PROVE  TimelyInv'
<1> DEFINE a == worker[w].addr
           mad == worker[w].mad
<1>1. /\ worker[w].pc = "record" /\ Carries(w) /\ Serves(w)
      /\ counted' = counted \cup {mad} /\ results' = results \cup Results(w)
      /\ UNCHANGED <<mapLock, active, nextId, caller, inflight, sent, returned, answered>>
  BY DEF Record, Carries, Serves
<1>2. /\ mem \in [Addrs -> BlockType] /\ a \in Addrs /\ mad \in MadSet /\ WorkerOK(w)
  BY DEF MapInv, WideTypeOK, WorkerType, TimelyInv
<1>3. /\ worker'[w].pc = "finish" /\ worker'[w].addr = a /\ worker'[w].mad = mad
      /\ \A v \in Workers : v # w => worker'[v] = worker[v]
  BY DEF Record, MapInv, WideTypeOK, WorkerType
<1>4. /\ mem'[a].id = mem[a].id /\ mem'[a].out = (mem[a].out - 1) % 65536
      /\ mem'[a].allSent = mem[a].allSent /\ mem'[a].signaled = mem[a].signaled
      /\ mem'[a].lock = mem[a].lock
      /\ \A x \in Addrs : x # a => mem'[x] = mem[x]
  BY <1>2 DEF Record, BlockType
<1>5. Results(w) = ({mem[a].id} \cap Ids) \X ({mad} \cap answered)
  BY DEF Results
<1> HIDE DEF a, mad
<1>6. mad \in sent \ (counted \cup inflight)
  BY <1>1, <1>2 DEF WorkerOK, mad
<1>7. PICK c \in Callers : Awaits(c) /\ caller[c].addr = a /\ Ctx(c).id = mad.batch
  BY <1>1, <1>2 DEF WorkerOK, a, mad
<1>8. /\ Ctx(c) = mem[a] /\ Ctx(c)' = mem'[a] /\ CallerOK(c) /\ Busy(c)
      /\ mem[a].id = mad.batch /\ mem[a].lock = w
  BY <1>1, <1>2, <1>7 DEF Ctx, TimelyInv, Awaits, Busy, WorkerOK, a
<1>9. /\ IsFiniteSet(Pending(mad.batch)) /\ Cardinality(Pending(mad.batch)) \in Nat
      /\ Cardinality(Pending(mad.batch)) <= MaxMads /\ mad.batch \in Ids
  BY <1>7, <1>8, CallerFacts
<1>10. mad \in Pending(mad.batch) /\ Pending(mad.batch)' = Pending(mad.batch) \ {mad}
  <2>1. {m \in sent \ counted' : m.batch = mad.batch} = Pending(mad.batch) \ {mad}
    BY <1>1 DEF Pending
  <2> QED
    BY <1>1, <1>3, <1>6, <2>1 DEF Pending, mad
<1>11. ~At(c, "count") /\ ~At(c, "send") /\ caller[c].pc # "unlock"
  BY <1>7 DEF Awaits, At
<1>12. MadsTracked'
  BY <1>1, <1>6 DEF TimelyInv, MadsTracked
<1>13. ResultsKept'
  <2>1. Results(w) = IF mad \in answered THEN {<<mad.batch, mad>>} ELSE {}
    BY <1>5, <1>8, <1>9
  <2>2. results = {<<m.batch, m>> : m \in answered \cap counted}
    BY DEF TimelyInv, ResultsKept
  <2>3. results' = {<<m.batch, m>> : m \in answered \cap (counted \cup {mad})}
    BY <1>1, <2>1, <2>2
  <2> QED
    BY <1>1, <2>3 DEF ResultsKept
<1>14. ReturnsKept'
  BY <1>1, <1>4, ReturnsFrame
<1>15. BlocksClean'
  <2>1. \A d \in Callers : Busy(d)' <=> Busy(d)
    BY <1>1 DEF Busy
  <2>2. \A x \in Addrs : x # a => mem'[x].out = mem[x].out
    BY <1>4
  <2> QED
    BY <1>1, <1>7, <1>8, <2>1, <2>2 DEF TimelyInv, BlocksClean
<1>16. CallerOK(c)'
  <2>1. Ctx(c).out = Cardinality(Pending(mad.batch)) - 0 /\ ~Ctx(c).signaled /\ ~Ended(c)
    BY <1>7, <1>8, <1>10, <1>11 DEF CallerOK
  <2>2. Cardinality(Pending(mad.batch)') = Cardinality(Pending(mad.batch)) - 1
    BY <1>9, <1>10, FS_RemoveElement
  <2>3. Cardinality(Pending(mad.batch)) # 0
    BY <1>9, <1>10, FS_EmptySet
  <2>4. Ctx(c)'.out = Cardinality(Pending(mad.batch)')
    BY <1>4, <1>8, <1>9, <2>1, <2>2, <2>3, BatchAssumption
  <2>5. Ctx(c)'.id = mad.batch /\ ~Ctx(c)'.signaled /\ Busy(c)'
    BY <1>1, <1>4, <1>8, <2>1 DEF Busy
  <2>6. ~Ended(c)' /\ ~At(c, "count")' /\ ~At(c, "send")' /\ caller'[c].pc # "unlock"
    BY <1>1, <1>11, <2>1 DEF Ended, At
  <2>7. Pending(Ctx(c).id)' = Pending(mad.batch)'
    BY <1>3, <1>4, <1>8 DEF Pending, mad
  <2>8. Cardinality(Pending(mad.batch)') \in Nat
    BY <1>9, <2>2, <2>3
  <2> QED
    BY <2>4, <2>5, <2>6, <2>7, <2>8 DEF CallerOK, At
<1>17. \A d \in Callers : d # c => CallerOK(d)'
  BY <1>1, <1>4, <1>7, <1>8, CallersFrame
<1>18. WorkerOK(w)'
  <2>1. ~Carries(w)' /\ Serves(w)'
    BY <1>3 DEF Carries, Serves
  <2>2. Awaits(c)' /\ Ctx(c)'.id = mad.batch /\ caller'[c].addr = a
    BY <1>1, <1>4, <1>7, <1>8 DEF Awaits
  <2> QED
    BY <1>3, <1>4, <1>8, <2>1, <2>2 DEF WorkerOK
<1>19. ASSUME NEW v \in Workers, v # w
       PROVE  WorkerOK(v)'
  <2>1. Carries(v) => worker[v].mad # mad
    BY <1>1, <1>2, <1>19 DEF WorkerOK, mad
  <2>2. Serves(v) => worker[v].addr # a /\ worker[v].addr \in Addrs
    <3>1. Serves(v) => mem[worker[v].addr].lock = v
      BY DEF TimelyInv, WorkerOK
    <3> QED
      BY <1>8, <1>19, <3>1 DEF MapInv, WideTypeOK, WorkerType
  <2>3. ~Carries(w)'
    BY <1>3 DEF Carries
  <2> QED
    BY <1>1, <1>3, <1>4, <1>19, <2>1, <2>2, <2>3, OtherWorkers
<1> QED
  BY <1>12, <1>13, <1>14, <1>15, <1>16, <1>17, <1>18, <1>19 DEF TimelyInv

\* The callback signals a batch that was sent and has no MAD outstanding.
LEMMA TimelyFinish ==
  ASSUME MapInv, TimelyInv, NEW w \in Workers, Finish(w)
  PROVE  TimelyInv'
<1> DEFINE a == worker[w].addr
<1>1. /\ worker[w].pc = "finish" /\ Serves(w)
      /\ UNCHANGED <<mapLock, active, nextId, caller, inflight, sent, counted, returned, answered, results>>
  BY DEF Finish, Serves, data
<1>2. /\ mem \in [Addrs -> BlockType] /\ a \in Addrs /\ WorkerOK(w)
  BY DEF MapInv, WideTypeOK, WorkerType, TimelyInv
<1>3. /\ worker'[w].pc = "idle"
      /\ \A v \in Workers : v # w => worker'[v] = worker[v]
  BY InitialValues DEF Finish, MapInv, WideTypeOK
<1>4. /\ mem'[a].id = mem[a].id /\ mem'[a].out = mem[a].out
      /\ mem'[a].allSent = mem[a].allSent
      /\ mem'[a].signaled => mem[a].signaled \/ (mem[a].out = 0 /\ mem[a].allSent)
      /\ \A x \in Addrs : x # a => mem'[x] = mem[x]
  BY <1>2 DEF Finish, BatchDone, BlockType
<1> HIDE DEF a
<1>5. PICK c \in Callers : Awaits(c) /\ caller[c].addr = a
  BY <1>1, <1>2 DEF WorkerOK, a
<1>6. Ctx(c) = mem[a] /\ Ctx(c)' = mem'[a] /\ CallerOK(c) /\ Busy(c) /\ mem[a].lock = w
  BY <1>1, <1>2, <1>5 DEF Ctx, TimelyInv, Awaits, Busy, WorkerOK, a
<1>7. MadsTracked' /\ ResultsKept'
  BY <1>1 DEF TimelyInv, MadsTracked, ResultsKept
<1>8. ReturnsKept'
  BY <1>1, <1>4, ReturnsFrame
<1>9. BlocksClean'
  <2>1. \A d \in Callers : Busy(d)' <=> Busy(d)
    BY <1>1 DEF Busy
  <2>2. \A x \in Addrs : mem'[x].out = mem[x].out
    BY <1>4
  <2> QED
    BY <1>1, <2>1, <2>2 DEF TimelyInv, BlocksClean
<1>10. CallerOK(c)'
  <2>1. Own(Ctx(c).id)' = Own(Ctx(c).id) /\ Pending(Ctx(c).id)' = Pending(Ctx(c).id)
    BY <1>1, <1>4, <1>6, SameMads
  <2>2. caller[c].pc \notin {"send", "count", "unlock"}
    BY <1>5 DEF Awaits
  <2>3. IsFiniteSet(Pending(Ctx(c).id)) /\ Cardinality(Pending(Ctx(c).id)) \in Nat
    BY <1>6, CallerFacts
  <2>4. Ctx(c).out = Cardinality(Pending(Ctx(c).id))
    BY <1>6, <2>2, <2>3 DEF CallerOK, At
  <2>5. Ctx(c)'.signaled => Ctx(c)'.allSent /\ Pending(Ctx(c).id) = {}
    BY <1>4, <1>6, <2>3, <2>4, FS_EmptySet DEF CallerOK
  <2>6. (Ended(c)' <=> Ended(c)) /\ (Busy(c)' <=> Busy(c))
    BY <1>1 DEF Ended, At, Busy
  <2> QED
    BY <1>1, <1>4, <1>6, <2>1, <2>2, <2>3, <2>4, <2>5, <2>6 DEF CallerOK, At
<1>11. \A d \in Callers : d # c => CallerOK(d)'
  BY <1>1, <1>4, <1>5, <1>6, CallersFrame
<1>12. WorkerOK(w)'
  BY <1>3 DEF WorkerOK, Carries, Serves
<1>13. ASSUME NEW v \in Workers, v # w
       PROVE  WorkerOK(v)'
  <2>1. Serves(v) => worker[v].addr # a /\ worker[v].addr \in Addrs
    <3>1. Serves(v) => mem[worker[v].addr].lock = v
      BY DEF TimelyInv, WorkerOK
    <3> QED
      BY <1>6, <1>13, <3>1 DEF MapInv, WideTypeOK, WorkerType
  <2>2. ~Carries(w)'
    BY <1>3 DEF Carries
  <2> QED
    BY <1>1, <1>3, <1>4, <1>13, <2>1, <2>2, OtherWorkers
<1> QED
  BY <1>7, <1>8, <1>9, <1>10, <1>11, <1>12, <1>13 DEF TimelyInv

\* Whether waits may run out never changes; while they do not, every step
\* preserves the invariant.
LEMMA TimelyStep == MapInv /\ (~late => TimelyInv) /\ [Next]_vars => (~late => TimelyInv)'
<1> SUFFICES ASSUME MapInv, ~late => TimelyInv, [Next]_vars, ~late'
             PROVE  TimelyInv'
  OBVIOUS
<1>1. ~late /\ TimelyInv
  BY DEF Next, Call, CallerStep, WorkerStep, VendorStep, vars
<1>2. ASSUME NEW c \in Callers, Call(c) \/ CallerStep(c)
      PROVE  TimelyInv'
  BY <1>1, <1>2, TimelySend, TimelyCount, TimelySendFails, TimelyAllSent, TimelyReadLimit,
     TimelyWait, TimelyRelock, TimelyFree, TimelyCall DEF CallerStep
<1>3. ASSUME NEW w \in Workers, WorkerStep(w)
      PROVE  TimelyInv'
  BY <1>1, <1>3, TimelyLookup, TimelyLockContext, TimelyRecord, TimelyFinish DEF WorkerStep
<1>4. CASE VendorStep
  BY <1>1, <1>4, TimelyReport DEF VendorStep
<1>5. CASE UNCHANGED vars
  <2>1. UNCHANGED <<mapLock, active, nextId, mem, caller, worker, inflight, sent, counted,
                    returned, answered, results>>
    BY <1>5 DEF vars, data
  <2>2. ReturnsKept' /\ BlocksClean' /\ \A d \in Callers : CallerOK(d)'
    BY <1>1, <2>1, QuietCallers
  <2>3. MadsTracked' /\ ResultsKept'
    BY <1>1, <2>1 DEF TimelyInv, MadsTracked, ResultsKept
  <2>4. \A w \in Workers : WorkerOK(w)'
    <3>1. \A w \in Workers : Carries(w)' = Carries(w) /\ Serves(w)' = Serves(w)
      BY <2>1 DEF Carries, Serves
    <3>2. \A c \in Callers : Awaits(c)' = Awaits(c) /\ Ctx(c)' = Ctx(c)
      BY <2>1 DEF Awaits, Ctx
    <3> QED
      BY <1>1, <2>1, <3>1, <3>2 DEF TimelyInv, WorkerOK
  <2> QED
    BY <2>2, <2>3, <2>4 DEF TimelyInv
<1> QED
  BY <1>2, <1>3, <1>4, <1>5 DEF Next

\* Both parts of the invariant hold in every reachable state.
LEMMA TimelyCorrect == Spec => [](MapInv /\ (~late => TimelyInv))
<1>1. Init => MapInv /\ (~late => TimelyInv)
  BY MapInit, TimelyInit
<1>2. MapInv /\ (~late => TimelyInv) /\ [Next]_vars => (MapInv /\ (~late => TimelyInv))'
  BY MapStep, TimelyStep
<1> QED
  BY <1>1, <1>2, PTL DEF Spec

\* While no wait runs out the count of outstanding MADs never wraps, so that
\* every variable keeps the type that the bounds of a batch give it.
THEOREM TypesInTime == Spec => [](~late => TypeOK)
<1>1. MapInv /\ (~late => TimelyInv) => (~late => TypeOK)
  <2> SUFFICES ASSUME MapInv, TimelyInv
               PROVE  TypeOK
    OBVIOUS
  <2>1. mem \in [Addrs -> Contexts]
    <3>1. ASSUME NEW x \in Addrs
          PROVE  mem[x].out \in 0 .. MaxMads
      <4>1. mem[x].out \in Nat
        BY DEF MapInv, WideTypeOK, BlockType
      <4>2. CASE mem[x].out # 0
        <5>1. PICK c \in Callers : Busy(c) /\ caller[c].addr = x
          BY <4>2 DEF TimelyInv, BlocksClean
        <5>2. Ctx(c).out \in {Cardinality(Pending(Ctx(c).id)), Cardinality(Pending(Ctx(c).id)) - 1}
          BY <5>1, CallerFacts DEF TimelyInv, CallerOK
        <5>3. /\ Cardinality(Pending(Ctx(c).id)) \in Nat
              /\ Cardinality(Pending(Ctx(c).id)) <= MaxMads /\ Ctx(c) = mem[x]
          BY <5>1, CallerFacts
        <5> QED
          BY <4>1, <5>2, <5>3, Bounds
      <4> QED
        BY <4>1, <4>2, Bounds
    <3> QED
      BY <3>1 DEF MapInv, WideTypeOK, BlockType, Contexts
  <2>2. caller \in [Callers ->
          [pc : {"idle", "send", "count", "limit", "wait", "relock", "unlock",
                 "remove", "free"},
           addr : Addrs, left : 0 .. MaxMads, some : BOOLEAN, limit : 0 .. MaxMads,
           status : {"success", "error"}]]
    <3>1. \A c \in Callers : caller[c].limit \in 0 .. MaxMads
      BY Bounds, CallerFields DEF MapInv, WideTypeOK, TimelyInv, BlocksClean
    <3> QED
      BY <3>1 DEF MapInv, WideTypeOK, CallerType
  <2> QED
    BY <2>1, <2>2 DEF MapInv, WideTypeOK, WorkerType, TimelyInv, MadsTracked, TypeOK
<1> QED
  BY <1>1, TimelyCorrect, PTL

\* While no wait runs out, num_outstanding is the number of MADs that were sent
\* and not reported, less the one that has left and is not counted yet.
THEOREM CountIsExact == Spec => []OutstandingExact
<1>1. MapInv /\ (~late => TimelyInv) => OutstandingExact
  <2> SUFFICES ASSUME MapInv, ~late => TimelyInv
               PROVE  OutstandingExact
    OBVIOUS
  <2> SUFFICES ASSUME TimelyInv, NEW id \in DOMAIN active
               PROVE  mem[active[id]].out =
                        Cardinality({m \in sent \ counted : m.batch = id})
                        - Cardinality({c \in Callers : At(c, "count") /\ Ctx(c).id = id
                                         /\ [batch |-> id, idx |-> caller[c].left] \notin counted})
    BY DEF OutstandingExact
  <2> DEFINE leaving == {c \in Callers : At(c, "count") /\ Ctx(c).id = id
                           /\ [batch |-> id, idx |-> caller[c].left] \notin counted}
  <2>1. PICK c \in Callers : Busy(c) /\ caller[c].addr = active[id] /\ Ctx(c).id = id
    BY DEF MapInv, ContextsOwned
  <2>2. /\ Cardinality(Pending(id)) \in Nat /\ Ctx(c) = mem[active[id]]
    BY <2>1, CallerFacts
  <2>3. \A d \in leaving : d = c
    BY <2>1 DEF MapInv, ContextsOwned, Busy, At
  <2>4. CASE At(c, "count")
    <3>1. mem[active[id]].out = Cardinality(Pending(id)) - 1
      BY <2>1, <2>2, <2>4 DEF TimelyInv, CallerOK
    <3>2. [batch |-> id, idx |-> caller[c].left] \notin counted
      BY <2>1, <2>4 DEF TimelyInv, CallerOK, Leaving, Pending
    <3>3. leaving = {c}
      BY <2>1, <2>3, <2>4, <3>2
    <3>4. Cardinality(leaving) = 1
      BY <3>3, FS_Singleton
    <3> QED
      BY <3>1, <3>4 DEF Pending
  <2>5. CASE ~At(c, "count")
    <3>1. mem[active[id]].out = Cardinality(Pending(id)) - 0
      BY <2>1, <2>2, <2>5 DEF TimelyInv, CallerOK
    <3>2. leaving = {}
      BY <2>3, <2>5
    <3>3. Cardinality(leaving) = 0
      BY <3>2, FS_EmptySet
    <3> QED
      BY <3>1, <3>3 DEF Pending
  <2> QED
    BY <2>4, <2>5
<1> QED
  BY <1>1, TimelyCorrect, PTL

\* While no wait runs out, a callback works on the live context of its own
\* batch, which its lock keeps from being freed.
THEOREM CallbackUsesOwnContext == Spec => []UsesLiveContext
<1>1. MapInv /\ (~late => TimelyInv) => UsesLiveContext
  <2> SUFFICES ASSUME MapInv, ~late => TimelyInv
               PROVE  UsesLiveContext
    OBVIOUS
  <2> SUFFICES ASSUME TimelyInv, NEW w \in Workers, Serves(w)
               PROVE  mem[worker[w].addr].live /\ mem[worker[w].addr].id = worker[w].mad.batch
    BY DEF UsesLiveContext, Serves
  <2>1. PICK c \in Callers : /\ Awaits(c) /\ caller[c].addr = worker[w].addr
                             /\ Ctx(c).id = worker[w].mad.batch
    BY DEF TimelyInv, WorkerOK
  <2> QED
    BY <2>1 DEF MapInv, ContextsOwned, Awaits, Busy, Ctx
<1> QED
  BY <1>1, TimelyCorrect, PTL

\* While no wait runs out, a call that returns success has the report of every
\* MAD that it sent, and the data of every answer to them.
THEOREM SuccessHasEveryAnswer == Spec => []SuccessIsComplete
<1>1. MapInv /\ (~late => TimelyInv) => SuccessIsComplete
  <2> SUFFICES ASSUME MapInv, ~late => TimelyInv
               PROVE  SuccessIsComplete
    OBVIOUS
  <2> SUFFICES ASSUME TimelyInv, NEW id \in Ids, returned[id] = "success"
               PROVE  /\ Own(id) \subseteq counted
                      /\ {r[2] : r \in {r \in results : r[1] = id}} = Own(id) \cap answered
    BY DEF SuccessIsComplete, Own
  <2>1. Pending(id) = {}
    BY DEF TimelyInv, ReturnsKept
  <2>2. Own(id) \subseteq counted
    BY <2>1 DEF Own, Pending
  <2>3. /\ results = {<<m.batch, m>> : m \in answered \cap counted}
        /\ answered \subseteq sent
    BY DEF TimelyInv, ResultsKept, MadsTracked
  <2>4. {r \in results : r[1] = id} = {<<m.batch, m>> : m \in Own(id) \cap answered}
    <3>1. \A m : m \in Own(id) \cap answered <=> m \in answered \cap counted /\ m.batch = id
      BY <2>2, <2>3 DEF Own
    <3>2. \A m : <<m.batch, m>>[1] = m.batch
      OBVIOUS
    <3> QED
      BY <2>3, <3>1, <3>2, Zenon
  <2>5. {r[2] : r \in {r \in results : r[1] = id}} = Own(id) \cap answered
    <3> DEFINE stored == {r \in results : r[1] = id}
    <3>1. ASSUME NEW m \in Own(id) \cap answered
          PROVE  m \in {r[2] : r \in stored}
      <4>1. <<m.batch, m>> \in stored /\ <<m.batch, m>>[2] = m
        BY <2>4
      <4> QED
        BY <4>1, Zenon
    <3>2. ASSUME NEW r \in stored
          PROVE  r[2] \in Own(id) \cap answered
      BY <2>4
    <3> QED
      BY <3>1, <3>2
  <2> QED
    BY <2>2, <2>5
<1> QED
  BY <1>1, TimelyCorrect, PTL
=============================================================================
