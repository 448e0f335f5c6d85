------------------------------- MODULE GsiBatch -------------------------------
(***************************************************************************)
(* Synchronous batches of MADs in IBIS (ibis_gsi_mad_ctrl.c): a caller     *)
(* sends a batch and waits on an event; dispatcher threads run a callback  *)
(* for every MAD that is answered or fails, find the batch context by its  *)
(* id in a global map, store the answer and count it off.                  *)
(*                                                                         *)
(* Contexts live in memory that is allocated and freed, so a thread that   *)
(* holds the address of a freed context acts on zeroed memory or on the    *)
(* context of another batch, as the C program does.  What precedes the     *)
(* first step of another thread on the new memory is one action, NewBatch. *)
(***************************************************************************)
EXTENDS Integers, FiniteSets

CONSTANTS
  Callers,     \* threads that call ibis_gsi_send_sync_mad_batch
  Workers,     \* threads of the dispatcher, which run the callback
  Addrs,       \* memory blocks that malloc may return for a context
  NoOne,       \* the owner of a free lock
  MaxMads,     \* bound: MADs in one batch
  MaxBatches,  \* bound: batches in all
  Lateness     \* {FALSE}: answers are never so late that a wait runs out

ASSUME BatchAssumption ==
  /\ MaxMads \in Nat \ {0} /\ MaxMads < 65536
  /\ MaxBatches \in Nat \ {0}
  /\ Lateness \subseteq BOOLEAN
  /\ NoOne \notin Callers \cup Workers
  /\ Callers \cap Workers = {}
  /\ Addrs # {}

VARIABLES
  late,      \* in this behaviour waits may run out; it never changes
  mapLock,   \* owner of g_ibis_batch_contexts_map_lock
  active,    \* g_ibis_active_batch_contexts_map: from batch ids to addresses
  nextId,    \* g_ibis_next_batch_context_id
  mem,       \* the batch context at each address, zero when it is free
  caller,    \* program counter and locals of ibis_gsi_send_sync_mad_batch
  worker,    \* program counter and locals of the callback
  inflight,  \* MADs the vendor layer has to report, by an answer or an error
  answered,  \* MADs reported with the data of a GetResp
  results,   \* what the arrays of the callers hold: pairs of a batch and a MAD
  sent,      \* history: MADs that were sent
  counted,   \* history: MADs whose callback has recorded them
  returned   \* history: what the call for each batch returned

data == <<answered, results>>

vars == <<late, mapLock, active, nextId, mem, caller, worker, inflight, sent,
          counted, returned, data>>

Ids == 1 .. MaxBatches
MadSet == [batch : Ids, idx : 1 .. MaxMads]
Threads == Callers \cup Workers

Zeroed == [live |-> FALSE, id |-> 0, out |-> 0, allSent |-> FALSE,
           signaled |-> FALSE, lock |-> NoOne]

IdleCaller == [pc |-> "idle", addr |-> CHOOSE a \in Addrs : TRUE, left |-> 0,
               some |-> FALSE, limit |-> 0, status |-> "success"]

IdleWorker == [pc |-> "idle", addr |-> CHOOSE a \in Addrs : TRUE,
               mad |-> [batch |-> 1, idx |-> 1]]

Init ==
  /\ late \in Lateness
  /\ mapLock = NoOne
  /\ active = [id \in {} |-> 0]
  /\ nextId = 1
  /\ mem = [a \in Addrs |-> Zeroed]
  /\ caller = [c \in Callers |-> IdleCaller]
  /\ worker = [w \in Workers |-> IdleWorker]
  /\ inflight = {}
  /\ answered = {}
  /\ results = {}
  /\ sent = {}
  /\ counted = {}
  /\ returned = [id \in Ids |-> "none"]

-----------------------------------------------------------------------------
(* ibis_gsi_send_sync_mad_batch *)

Ctx(c) == mem[caller[c].addr]

At(c, pc) == caller[c].pc = pc

\* Mutant of NewBatch: the batch is sent without its lock.
NewBatchUnlocked(c, num) ==
  /\ At(c, "idle")
  /\ nextId <= MaxBatches
  /\ mapLock = NoOne
  /\ \E a \in Addrs :
       /\ ~mem[a].live
       /\ mem' = [mem EXCEPT ![a] = [Zeroed EXCEPT !.live = TRUE, !.id = nextId]]
       /\ active' = [id \in DOMAIN active \cup {nextId} |->
                       IF id = nextId THEN a ELSE active[id]]
       /\ caller' = [caller EXCEPT ![c] = [IdleCaller EXCEPT
                       !.pc = "send", !.addr = a, !.left = num]]
  /\ nextId' = nextId + 1
  /\ UNCHANGED <<mapLock, worker, inflight, sent, counted, returned, data>>

\* Allocate a context, enter it in the map, lock it.
NewBatch(c, num) ==
  /\ At(c, "idle")
  /\ nextId <= MaxBatches
  /\ mapLock = NoOne
  /\ \E a \in Addrs :
       /\ ~mem[a].live
       /\ mem' = [mem EXCEPT ![a] = [Zeroed EXCEPT
                    !.live = TRUE, !.id = nextId, !.lock = c]]
       /\ active' = [id \in DOMAIN active \cup {nextId} |->
                       IF id = nextId THEN a ELSE active[id]]
       /\ caller' = [caller EXCEPT ![c] = [IdleCaller EXCEPT
                       !.pc = "send", !.addr = a, !.left = num]]
  /\ nextId' = nextId + 1
  /\ UNCHANGED <<mapLock, worker, inflight, sent, counted, returned, data>>

\* osm_vendor_send takes the next MAD ...
SendMad(c) ==
  /\ At(c, "send")
  /\ caller[c].left > 0
  /\ LET mad == [batch |-> Ctx(c).id, idx |-> caller[c].left]
     IN  /\ inflight' = inflight \cup {mad}
         /\ sent' = sent \cup {mad}
  /\ caller' = [caller EXCEPT ![c].pc = "count"]
  /\ UNCHANGED <<mapLock, active, nextId, mem, worker, counted, returned, data>>

\* ... which is counted as outstanding after it has left ...
CountSent(c) ==
  /\ At(c, "count")
  /\ mem' = [mem EXCEPT ![caller[c].addr].out = (@ + 1) % 65536]
  /\ caller' = [caller EXCEPT ![c].pc = "send", ![c].left = @ - 1, ![c].some = TRUE]
  /\ UNCHANGED <<mapLock, active, nextId, worker, inflight, sent, counted, returned, data>>

\* ... or refuses it.
SendFails(c) ==
  /\ At(c, "send")
  /\ caller[c].left > 0
  /\ caller' = [caller EXCEPT ![c].left = @ - 1]
  /\ UNCHANGED <<mapLock, active, nextId, mem, worker, inflight, sent, counted,
                 returned, data>>

\* Every MAD was tried: unlock and wait, or give up with the lock held.
AllSent(c) ==
  /\ At(c, "send")
  /\ caller[c].left = 0
  /\ IF caller[c].some
       THEN /\ mem' = [mem EXCEPT ![caller[c].addr].allSent = TRUE,
                                  ![caller[c].addr].lock = NoOne]
            /\ caller' = [caller EXCEPT ![c].pc = "limit"]
       ELSE /\ mem' = [mem EXCEPT ![caller[c].addr].allSent = TRUE]
            /\ caller' = [caller EXCEPT ![c].pc = "unlock", ![c].status = "error"]
  /\ UNCHANGED <<mapLock, active, nextId, worker, inflight, sent, counted, returned, data>>

\* num_outstanding, read without a lock, becomes the limit of the wait, in
\* units of the transaction timeout.
ReadLimit(c) ==
  /\ At(c, "limit")
  /\ caller' = [caller EXCEPT ![c].pc = "wait", ![c].limit = Ctx(c).out]
  /\ UNCHANGED <<mapLock, active, nextId, mem, worker, inflight, sent, counted,
                 returned, data>>

\* cl_event_wait_on finds the event signaled and resets it ...
Awake(c) ==
  /\ At(c, "wait")
  /\ Ctx(c).signaled
  /\ mem' = [mem EXCEPT ![caller[c].addr].signaled = FALSE]
  /\ caller' = [caller EXCEPT ![c].pc = "relock"]
  /\ UNCHANGED <<mapLock, active, nextId, worker, inflight, sent, counted, returned, data>>

\* ... or runs out: a wait of length zero does not wait at all.
RunOut(c) ==
  /\ At(c, "wait")
  /\ ~Ctx(c).signaled
  /\ caller[c].limit = 0 \/ late
  /\ caller' = [caller EXCEPT ![c].pc = "relock", ![c].status = "error"]
  /\ UNCHANGED <<mapLock, active, nextId, mem, worker, inflight, sent, counted,
                 returned, data>>

\* Mutant of Relock: the caller goes on without the lock.
RelockSkipped(c) ==
  /\ At(c, "relock")
  /\ caller' = [caller EXCEPT ![c].pc = "unlock"]
  /\ UNCHANGED <<mapLock, active, nextId, mem, worker, inflight, sent, counted,
                 returned, data>>

Relock(c) ==
  /\ At(c, "relock")
  /\ Ctx(c).lock = NoOne
  /\ mem' = [mem EXCEPT ![caller[c].addr].lock = c]
  /\ caller' = [caller EXCEPT ![c].pc = "unlock"]
  /\ UNCHANGED <<mapLock, active, nextId, worker, inflight, sent, counted, returned, data>>

\* Mutant of Unlock: the context stays locked until it is freed.
UnlockAtTheEnd(c) ==
  /\ At(c, "unlock")
  /\ caller' = [caller EXCEPT ![c].pc = "remove"]
  /\ UNCHANGED <<mapLock, active, nextId, mem, worker, inflight, sent, counted,
                 returned, data>>

Unlock(c) ==
  /\ At(c, "unlock")
  /\ mem' = [mem EXCEPT ![caller[c].addr].lock = NoOne]
  /\ caller' = [caller EXCEPT ![c].pc = "remove"]
  /\ UNCHANGED <<mapLock, active, nextId, worker, inflight, sent, counted, returned, data>>

\* Mutant of Remove: the entry of the previous batch is removed.
RemovePrevious(c) ==
  /\ At(c, "remove")
  /\ mapLock = NoOne
  /\ active' = [id \in DOMAIN active \ {Ctx(c).id - 1} |-> active[id]]
  /\ caller' = [caller EXCEPT ![c].pc = "free"]
  /\ UNCHANGED <<mapLock, nextId, mem, worker, inflight, sent, counted, returned, data>>

\* __gsi_delete_mad_batch_context: out of the map ...
Remove(c) ==
  /\ At(c, "remove")
  /\ mapLock = NoOne
  /\ active' = [id \in DOMAIN active \ {Ctx(c).id} |-> active[id]]
  /\ caller' = [caller EXCEPT ![c].pc = "free"]
  /\ UNCHANGED <<mapLock, nextId, mem, worker, inflight, sent, counted, returned, data>>

\* ... destroyed, zeroed and freed; the call returns.
Free(c) ==
  /\ At(c, "free")
  /\ returned' = [returned EXCEPT ![Ctx(c).id] = caller[c].status]
  /\ mem' = [mem EXCEPT ![caller[c].addr] = Zeroed]
  /\ caller' = [caller EXCEPT ![c] = IdleCaller]
  /\ UNCHANGED <<mapLock, active, nextId, worker, inflight, sent, counted, data>>

-----------------------------------------------------------------------------
(* ibis_gsi_sync_mad_batch_callback *)

\* The vendor layer reports a MAD, once: with its answer, or as a send error.
Report(w, mad, answer) ==
  /\ worker[w].pc = "idle"
  /\ mad \in inflight
  /\ inflight' = inflight \ {mad}
  /\ worker' = [worker EXCEPT ![w] = [IdleWorker EXCEPT
                  !.pc = "lookup", !.mad = mad]]
  /\ answered' = IF answer THEN answered \cup {mad} ELSE answered
  /\ UNCHANGED <<mapLock, active, nextId, mem, caller, sent, counted, returned,
                 results>>

\* The context is looked up by id; the map stays locked if it is found.
Lookup(w) ==
  /\ worker[w].pc = "lookup"
  /\ mapLock = NoOne
  /\ IF worker[w].mad.batch \in DOMAIN active
       THEN /\ mapLock' = w
            /\ worker' = [worker EXCEPT ![w].pc = "ctxlock",
                                        ![w].addr = active[worker[w].mad.batch]]
       ELSE /\ worker' = [worker EXCEPT ![w] = IdleWorker]
            /\ UNCHANGED mapLock
  /\ UNCHANGED <<active, nextId, mem, caller, inflight, sent, counted, returned, data>>

\* The lock of the context replaces the lock of the map.
LockContext(w) ==
  /\ worker[w].pc = "ctxlock"
  /\ mem[worker[w].addr].lock = NoOne
  /\ mem' = [mem EXCEPT ![worker[w].addr].lock = w]
  /\ mapLock' = NoOne
  /\ worker' = [worker EXCEPT ![w].pc = "record"]
  /\ UNCHANGED <<active, nextId, caller, inflight, sent, counted, returned, data>>

\* The data of an answer goes into the array of the context; a zeroed context
\* has none.
Results(w) ==
  ({mem[worker[w].addr].id} \cap Ids) \X ({worker[w].mad} \cap answered)

\* Mutant of Record: what is not a GetResp is left alone.
RecordAnswersOnly(w) ==
  /\ worker[w].pc = "record"
  /\ results' = results \cup Results(w)
  /\ counted' = counted \cup {worker[w].mad}
  /\ IF worker[w].mad \in answered
       THEN mem' = [mem EXCEPT ![worker[w].addr].out = (@ - 1) % 65536]
       ELSE UNCHANGED mem
  /\ worker' = [worker EXCEPT ![w].pc = "finish"]
  /\ UNCHANGED <<mapLock, active, nextId, caller, inflight, answered, sent, returned>>

\* Store the data of an answer and count the MAD off.
Record(w) ==
  /\ worker[w].pc = "record"
  /\ results' = results \cup Results(w)
  /\ mem' = [mem EXCEPT ![worker[w].addr].out = (@ - 1) % 65536]
  /\ counted' = counted \cup {worker[w].mad}
  /\ worker' = [worker EXCEPT ![w].pc = "finish"]
  /\ UNCHANGED <<mapLock, active, nextId, caller, inflight, answered, sent, returned>>

\* Mutant of BatchDone: any answer ends the wait.
FirstAnswer(ctx) == ctx.allSent

BatchDone(ctx) == ctx.out = 0 /\ ctx.allSent

\* The last answer signals the event; the context is unlocked.
Finish(w) ==
  /\ worker[w].pc = "finish"
  /\ mem' = [mem EXCEPT ![worker[w].addr].signaled = @ \/ BatchDone(mem[worker[w].addr]),
                        ![worker[w].addr].lock = NoOne]
  /\ worker' = [worker EXCEPT ![w] = IdleWorker]
  /\ UNCHANGED <<mapLock, active, nextId, caller, inflight, sent, counted, returned, data>>

-----------------------------------------------------------------------------
CallerStep(c) ==
  /\ \/ SendMad(c) \/ CountSent(c) \/ SendFails(c) \/ AllSent(c) \/ ReadLimit(c)
     \/ Awake(c) \/ RunOut(c) \/ Relock(c) \/ Unlock(c) \/ Remove(c) \/ Free(c)
  /\ UNCHANGED late

WorkerStep(w) ==
  /\ Lookup(w) \/ LockContext(w) \/ Record(w) \/ Finish(w)
  /\ UNCHANGED late

VendorStep ==
  /\ \E w \in Workers, mad \in inflight, answer \in BOOLEAN : Report(w, mad, answer)
  /\ UNCHANGED late

Call(c) == (\E num \in 1 .. MaxMads : NewBatch(c, num)) /\ UNCHANGED late

Next ==
  \/ \E c \in Callers : Call(c) \/ CallerStep(c)
  \/ \E w \in Workers : WorkerStep(w)
  \/ VendorStep

\* Threads go on; the vendor layer reports every MAD.  Nobody has to call.
Fairness ==
  /\ \A c \in Callers : WF_vars(CallerStep(c))
  /\ \A w \in Workers : WF_vars(WorkerStep(w))
  /\ WF_vars(VendorStep)

Spec == Init /\ [][Next]_vars

FairSpec == Spec /\ Fairness
-----------------------------------------------------------------------------
Contexts == [live : BOOLEAN, id : 0 .. MaxBatches, out : 0 .. MaxMads,
             allSent : BOOLEAN, signaled : BOOLEAN, lock : Threads \cup {NoOne}]

\* Types of the variables.  The count of outstanding MADs is a 16-bit number
\* that never passes below zero: an answer that overtakes the count of its own
\* MAD finds the context locked.
TypeOK ==
  /\ late \in BOOLEAN
  /\ mapLock \in Workers \cup {NoOne}
  /\ DOMAIN active \subseteq Ids /\ \A id \in DOMAIN active : active[id] \in Addrs
  /\ nextId \in 1 .. MaxBatches + 1
  /\ mem \in [Addrs -> Contexts]
  /\ caller \in [Callers ->
       [pc : {"idle", "send", "count", "limit", "wait", "relock", "unlock",
              "remove", "free"},
        addr : Addrs, left : 0 .. MaxMads, some : BOOLEAN, limit : 0 .. MaxMads,
        status : {"success", "error"}]]
  /\ worker \in [Workers ->
       [pc : {"idle", "lookup", "ctxlock", "record", "finish"}, addr : Addrs,
        mad : MadSet]]
  /\ answered \subseteq sent /\ results \subseteq Ids \X MadSet
  /\ inflight \subseteq MadSet /\ sent \subseteq MadSet /\ counted \subseteq sent
  /\ returned \in [Ids -> {"none", "success", "error"}]

\* The count of outstanding MADs is exact: the MADs that were sent and are not
\* counted off, except the one that has just left.
OutstandingExact ==
  ~late => \A id \in DOMAIN active :
    mem[active[id]].out =
      Cardinality({m \in sent \ counted : m.batch = id})
      - Cardinality({c \in Callers : At(c, "count") /\ Ctx(c).id = id
                       /\ [batch |-> id, idx |-> caller[c].left] \notin counted})

\* A call that returns success has the report of every MAD that it sent, and
\* its array holds the data of every answer to it and nothing else.
SuccessIsComplete ==
  ~late => \A id \in Ids : returned[id] = "success" =>
    LET own == {m \in sent : m.batch = id}
    IN  /\ own \subseteq counted
        /\ {r[2] : r \in {r \in results : r[1] = id}} = own \cap answered

\* A callback touches the context of its own batch only, and never after the
\* call has freed it (ibis_gsi_mad_ctrl.c:532, NOTE THE LOCK SHOULD BE PERFORMED
\* DURING THE ENTIRE USAGE).  This and the two before need answers in time: a wait
\* that runs out lets the caller free the context that a callback has just locked,
\* since the callback gives up the lock of the map at once (850).
UsesLiveContext ==
  ~late => \A w \in Workers : worker[w].pc \in {"record", "finish"} =>
    mem[worker[w].addr].live /\ mem[worker[w].addr].id = worker[w].mad.batch

\* An entry of the map leads to the live context of its batch, whatever late
\* callbacks do to the memory of batches that are gone.
MapLeadsToContext ==
  \A id \in DOMAIN active : mem[active[id]].live /\ mem[active[id]].id = id

\* Every call returns: the signal is not lost when it comes before the wait, and
\* callers and callbacks never wait for each other's locks in a circle.
EveryCallReturns == \A c \in Callers : ~At(c, "idle") ~> At(c, "idle")
===============================================================================
