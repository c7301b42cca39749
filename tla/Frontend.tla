------------------------------ MODULE Frontend ------------------------------
(***************************************************************************)
(* The front-end driver (src/myrepo/frontend/frontend.c), in the           *)
(* application domain.                                                     *)
(*                                                                         *)
(* Everything but the interrupt handler runs under io_lock, which is also  *)
(* the lock of the block queue: fpc is the program counter of whoever      *)
(* holds it ("unlocked": nobody), tpc where the response thread is when it *)
(* does not, fipc the interrupt handler.  A step makes at most one access  *)
(* to the shared page.                                                     *)
(***************************************************************************)
EXTENDS SharedRing, Sequences

CONSTANTS
  Request,         \* block requests of the application domain
  NonFs,           \* those whose cmd_type is not REQ_TYPE_FS
  NoReq,           \* NULL
  FrontSleeps,     \* bound: the response thread may pass the sleep threshold
  MaxGrantFaults,  \* bound: how often the grant table may be exhausted
  FrontSmp         \* the interrupt may run beside the thread, on another CPU

ASSUME FrontAssumption ==
  /\ NonFs \subseteq Request
  /\ NoReq \notin Request
  /\ FrontSleeps \in BOOLEAN
  /\ MaxGrantFaults \in Nat
  /\ FrontSmp \in BOOLEAN

VARIABLES
  blk,            \* what the block layer knows of each request
  queue,          \* the request queue, in dispatch order
  queue_stopped,  \* QUEUE_FLAG_STOPPED
  shadow,         \* shadow table: the request of each id; free ids are linked
  shadow_free,    \* first free id
  req_prod_pvt,   \* private producer index of requests
  rsp_cons,       \* consumer index of responses
  waiting_rsps,   \* condition of the wait queue the thread sleeps on
  fpc, site,      \* holder of io_lock; which call of do_idd_request it is in
  f_rp, f_i,      \* locals rp and i of the loop over the responses
  tpc,            \* response thread outside the lock
  fipc,           \* interrupt handler
  grant_faults    \* grant failures so far

fblkVars    == <<blk, queue, queue_stopped>>
fshadowVars == <<shadow, shadow_free>>
fidxVars    == <<req_prod_pvt, rsp_cons>>
fctlVars    == <<fpc, site, f_rp, f_i, tpc, fipc, grant_faults>>
frontVars   == <<fblkVars, fshadowVars, fidxVars, waiting_rsps, fctlVars>>

EndOfList == RingSize  \* 0x0fffffff: any value no id can have

RequestPath == {"submit", "peek", "push", "notify", "poll", "drain"}
ThreadPath  == {"read", "consume", "kick", "spun", "sleep", "recheck"}

FrontTypeOK ==
  /\ blk \in [Request -> {"new", "submitted", "ok", "eio"}]
  /\ queue \in Seq(Request)
  /\ queue_stopped \in BOOLEAN
  /\ shadow \in [Ids -> [request : Request \cup {NoReq}, seq_no : Ids \cup {EndOfList}]]
  /\ shadow_free \in Ids \cup {EndOfList}
  /\ req_prod_pvt \in RING_IDX /\ rsp_cons \in RING_IDX
  /\ waiting_rsps \in BOOLEAN
  /\ fpc \in {"unlocked"} \cup RequestPath \cup ThreadPath
  /\ site \in {"blk", "kick1", "kick2"}
  /\ f_rp \in RING_IDX /\ f_i \in RING_IDX
  /\ tpc \in {"wait", "asleep", "locked"}
  /\ fipc \in {"idle", "flagged", "woken"}
  /\ grant_faults \in 0 .. MaxGrantFaults

\* idd_init.  The thread starts in wait_event with waiting_rsps set.
FrontInit ==
  /\ blk = [r \in Request |-> "new"]
  /\ queue = <<>>
  /\ queue_stopped = FALSE
  /\ shadow = [id \in Ids |-> [request |-> NoReq, seq_no |-> id + 1]]
  /\ shadow_free = 0
  /\ req_prod_pvt = 0 /\ rsp_cons = 0
  /\ waiting_rsps = TRUE
  /\ fpc = "unlocked" /\ site = "blk"
  /\ f_rp = 0 /\ f_i = 0
  /\ tpc = "wait" /\ fipc = "idle"
  /\ grant_faults = 0

-----------------------------------------------------------------------------
(* Helpers *)

\* On one CPU nothing of the driver runs while the handler does.
FrontCpuFree == FrontSmp \/ fipc = "idle"

At(pc)   == fpc = pc /\ FrontCpuFree
Goto(pc) == fpc' = pc

\* get_id_from_freelist, and the shadow entry idd_queue_request fills.
TakeId(r) ==
  /\ shadow_free' = shadow[shadow_free].seq_no
  /\ shadow' = [shadow EXCEPT ![shadow_free] = [request |-> r, seq_no |-> shadow_free]]

\* The test of add_id_to_freelist.
Recyclable(id) == shadow[id].seq_no = id /\ shadow[id].request # NoReq

\* Mutant of HandleResponse: the id becomes the head before it is linked.
HandleResponseHeadFirst(id) ==
  IF Recyclable(id)
  THEN /\ shadow_free' = id
       /\ shadow' = [shadow EXCEPT ![id] = [request |-> NoReq, seq_no |-> id]]
       /\ blk' = [blk EXCEPT ![shadow[id].request] = "ok"]
  ELSE UNCHANGED <<shadow, shadow_free, blk>>

\* One response: add_id_to_freelist, then __blk_end_request_all(req, 0).  The
\* error computed from the response is not used: the request ends without one.
HandleResponse(id) ==
  IF Recyclable(id)
  THEN /\ shadow' = [shadow EXCEPT ![id] = [request |-> NoReq, seq_no |-> shadow_free]]
       /\ shadow_free' = id
       /\ blk' = [blk EXCEPT ![shadow[id].request] = "ok"]
  ELSE UNCHANGED <<shadow, shadow_free, blk>>

\* do_idd_request returns: to the block layer, or into
\* kick_pending_request_queues, which calls it twice (blk_start_queue runs
\* the queue too).  Here and below a local out of scope is set back to its
\* initial value.
ReturnToCaller ==
  \/ site = "blk" /\ fpc' = "unlocked" /\ site' = "blk"
  \/ site = "kick1" /\ fpc' = "peek" /\ site' = "kick2"
  \/ site = "kick2" /\ fpc' = "spun" /\ site' = "blk"

-----------------------------------------------------------------------------
(* The block layer *)

\* Requests enter the queue under its lock, several at a time if they were
\* plugged ...
Submit(r) ==
  /\ At("unlocked") \/ At("submit")
  /\ blk[r] # "submitted"
  /\ blk' = [blk EXCEPT ![r] = "submitted"]
  /\ queue' = Append(queue, r)
  /\ Goto("submit")
  /\ UNCHANGED <<queue_stopped, fshadowVars, fidxVars, waiting_rsps, site, f_rp, f_i>>
  /\ UNCHANGED <<tpc, fipc, grant_faults, sringVars, evtVars>>

\* ... and before the lock is released the driver's request function is called,
\* unless the queue is stopped.
RunQueue ==
  /\ At("submit")
  /\ Goto(IF queue_stopped THEN "unlocked" ELSE "peek")
  /\ UNCHANGED <<fblkVars, fshadowVars, fidxVars, waiting_rsps, site, f_rp, f_i>>
  /\ UNCHANGED <<tpc, fipc, grant_faults, sringVars, evtVars>>

-----------------------------------------------------------------------------
(* do_idd_request *)

PeekEmpty ==
  /\ At("peek")
  /\ queue = <<>>
  /\ ReturnToCaller
  /\ UNCHANGED <<fblkVars, fshadowVars, fidxVars, waiting_rsps>>
  /\ UNCHANGED <<f_rp, f_i, tpc, fipc, grant_faults, sringVars, evtVars>>

PeekFull ==
  /\ At("peek")
  /\ queue # <<>>
  /\ RING_FULL(req_prod_pvt, rsp_cons)
  /\ queue_stopped' = TRUE
  /\ ReturnToCaller
  /\ UNCHANGED <<blk, queue, fshadowVars, fidxVars, waiting_rsps>>
  /\ UNCHANGED <<f_rp, f_i, tpc, fipc, grant_faults, sringVars, evtVars>>

PeekNonFs ==
  /\ At("peek")
  /\ queue # <<>>
  /\ ~RING_FULL(req_prod_pvt, rsp_cons)
  /\ Head(queue) \in NonFs
  /\ queue' = Tail(queue)
  /\ blk' = [blk EXCEPT ![Head(queue)] = "eio"]
  /\ UNCHANGED <<queue_stopped, fshadowVars, fidxVars, waiting_rsps, fctlVars>>
  /\ UNCHANGED <<sringVars, evtVars>>

\* No grant references: the request goes back to the head of the queue, and
\* the queue is stopped.
QueueRequestFails ==
  /\ At("peek")
  /\ queue # <<>>
  /\ ~RING_FULL(req_prod_pvt, rsp_cons)
  /\ Head(queue) \notin NonFs
  /\ grant_faults < MaxGrantFaults
  /\ grant_faults' = grant_faults + 1
  /\ queue_stopped' = TRUE
  /\ ReturnToCaller
  /\ UNCHANGED <<blk, queue, fshadowVars, fidxVars, waiting_rsps>>
  /\ UNCHANGED <<f_rp, f_i, tpc, fipc, sringVars, evtVars>>

\* idd_queue_request; BUG_ON(free >= IDD_RING_SIZE) is the last guard.
QueueRequest ==
  /\ At("peek")
  /\ queue # <<>>
  /\ ~RING_FULL(req_prod_pvt, rsp_cons)
  /\ Head(queue) \notin NonFs
  /\ shadow_free < RingSize
  /\ queue' = Tail(queue)
  /\ ring' = [ring EXCEPT ![SlotOf(req_prod_pvt)] = ReqMsg(shadow_free)]
  /\ TakeId(Head(queue))
  /\ req_prod_pvt' = Succ(req_prod_pvt)
  /\ Goto("push")
  /\ UNCHANGED <<blk, queue_stopped, rsp_cons, waiting_rsps, site, f_rp, f_i>>
  /\ UNCHANGED <<tpc, fipc, grant_faults, req_prod, rsp_prod, req_status, rsp_status, evtVars>>

\* flush_requests: publish ...
PushRequests ==
  /\ At("push")
  /\ req_prod' = req_prod_pvt
  /\ Goto("notify")
  /\ UNCHANGED <<fblkVars, fshadowVars, fidxVars, waiting_rsps, site, f_rp, f_i>>
  /\ UNCHANGED <<tpc, fipc, grant_faults, rsp_prod, ring, req_status, rsp_status, evtVars>>

\* ... then interrupt the back end if its thread says it sleeps.
NotifyBack ==
  /\ At("notify")
  /\ evt_back' = (evt_back \/ req_status = SLEEPING)
  /\ Goto("poll")
  /\ UNCHANGED <<fblkVars, fshadowVars, fidxVars, waiting_rsps, site, f_rp, f_i>>
  /\ UNCHANGED <<tpc, fipc, grant_faults, sringVars, evt_front>>

\* cont_counter: after some polls that find nothing, back to the queue.  How
\* many (6 at first, then 1) is left open: such a poll changes nothing else.
PollGivesUp ==
  /\ At("poll")
  /\ rsp_cons = rsp_prod
  /\ Goto("peek")
  /\ UNCHANGED <<fblkVars, fshadowVars, fidxVars, waiting_rsps, site, f_rp, f_i>>
  /\ UNCHANGED <<tpc, fipc, grant_faults, sringVars, evtVars>>

\* Mutant of PollFound: the wrong producer index bounds the loop.
PollFoundReqProd ==
  /\ At("poll")
  /\ rsp_cons # rsp_prod
  /\ f_rp' = req_prod /\ f_i' = rsp_cons
  /\ Goto("drain")
  /\ UNCHANGED <<fblkVars, fshadowVars, fidxVars, waiting_rsps, site>>
  /\ UNCHANGED <<tpc, fipc, grant_faults, sringVars, evtVars>>

PollFound ==
  /\ At("poll")
  /\ rsp_cons # rsp_prod
  /\ f_rp' = rsp_prod /\ f_i' = rsp_cons
  /\ Goto("drain")
  /\ UNCHANGED <<fblkVars, fshadowVars, fidxVars, waiting_rsps, site>>
  /\ UNCHANGED <<tpc, fipc, grant_faults, sringVars, evtVars>>

DrainOne ==
  /\ At("drain")
  /\ f_i # f_rp
  /\ HandleResponse(ring[SlotOf(f_i)].seq_no)
  /\ f_i' = Succ(f_i)
  /\ UNCHANGED <<queue, queue_stopped, fidxVars, waiting_rsps, fpc, site, f_rp>>
  /\ UNCHANGED <<tpc, fipc, grant_faults, sringVars, evtVars>>

\* Mutant of DrainDone: rsp_cons is not stored.
DrainDoneForgetsCons ==
  /\ At("drain")
  /\ f_i = f_rp
  /\ f_rp' = 0 /\ f_i' = 0
  /\ Goto("poll")
  /\ UNCHANGED <<fblkVars, fshadowVars, fidxVars, waiting_rsps, site>>
  /\ UNCHANGED <<tpc, fipc, grant_faults, sringVars, evtVars>>

DrainDone ==
  /\ At("drain")
  /\ f_i = f_rp
  /\ rsp_cons' = f_i
  /\ f_rp' = 0 /\ f_i' = 0
  /\ Goto("poll")
  /\ UNCHANGED <<fblkVars, fshadowVars, req_prod_pvt, waiting_rsps, site>>
  /\ UNCHANGED <<tpc, fipc, grant_faults, sringVars, evtVars>>

-----------------------------------------------------------------------------
(* idd_read_response, the response thread *)

\* wait_event_interruptible: the condition is tested before every sleep.
ThreadSleep ==
  /\ tpc = "wait" /\ FrontCpuFree
  /\ ~waiting_rsps
  /\ tpc' = "asleep"
  /\ UNCHANGED <<fblkVars, fshadowVars, fidxVars, waiting_rsps, fpc, site, f_rp, f_i>>
  /\ UNCHANGED <<fipc, grant_faults, sringVars, evtVars>>

\* Only the thread clears the condition, so it still holds under the lock.
ThreadLock ==
  /\ tpc = "wait" /\ At("unlocked")
  /\ waiting_rsps
  /\ tpc' = "locked"
  /\ Goto("read")
  /\ UNCHANGED <<fblkVars, fshadowVars, fidxVars, waiting_rsps, site, f_rp, f_i>>
  /\ UNCHANGED <<fipc, grant_faults, sringVars, evtVars>>

\* The label "again".
ThreadRead ==
  /\ At("read")
  /\ f_rp' = rsp_prod /\ f_i' = rsp_cons
  /\ Goto("consume")
  /\ UNCHANGED <<fblkVars, fshadowVars, fidxVars, waiting_rsps, site>>
  /\ UNCHANGED <<tpc, fipc, grant_faults, sringVars, evtVars>>

ConsumeOne ==
  /\ At("consume")
  /\ f_i # f_rp
  /\ HandleResponse(ring[SlotOf(f_i)].seq_no)
  /\ f_i' = Succ(f_i)
  /\ UNCHANGED <<queue, queue_stopped, fidxVars, waiting_rsps, fpc, site, f_rp>>
  /\ UNCHANGED <<tpc, fipc, grant_faults, sringVars, evtVars>>

\* Then RING_FINAL_CHECK_FOR_RESPONSES, while requests are outstanding.
ConsumeDone ==
  /\ At("consume")
  /\ f_i = f_rp
  /\ rsp_cons' = f_i
  /\ f_rp' = 0 /\ f_i' = 0
  /\ Goto(IF /\ f_i # req_prod_pvt
             /\ RING_HAS_UNCONSUMED_RESPONSES(rsp_prod, f_i) # 0
          THEN "read" ELSE "kick")
  /\ UNCHANGED <<fblkVars, fshadowVars, req_prod_pvt, waiting_rsps, site>>
  /\ UNCHANGED <<tpc, fipc, grant_faults, sringVars, evtVars>>

\* kick_pending_request_queues.
KickFull ==
  /\ At("kick")
  /\ RING_FULL(req_prod_pvt, rsp_cons)
  /\ Goto("spun")
  /\ UNCHANGED <<fblkVars, fshadowVars, fidxVars, waiting_rsps, site, f_rp, f_i>>
  /\ UNCHANGED <<tpc, fipc, grant_faults, sringVars, evtVars>>

\* Mutant of KickQueue: without blk_start_queue the queue stays stopped.
KickQueueNotStarted ==
  /\ At("kick")
  /\ ~RING_FULL(req_prod_pvt, rsp_cons)
  /\ UNCHANGED queue_stopped
  /\ Goto("peek") /\ site' = "kick2"
  /\ UNCHANGED <<blk, queue, fshadowVars, fidxVars, waiting_rsps, f_rp, f_i>>
  /\ UNCHANGED <<tpc, fipc, grant_faults, sringVars, evtVars>>

KickQueue ==
  /\ At("kick")
  /\ ~RING_FULL(req_prod_pvt, rsp_cons)
  /\ queue_stopped' = FALSE
  /\ Goto("peek") /\ site' = "kick1"
  /\ UNCHANGED <<blk, queue, fshadowVars, fidxVars, waiting_rsps, f_rp, f_i>>
  /\ UNCHANGED <<tpc, fipc, grant_faults, sringVars, evtVars>>

ThreadUnlock ==
  /\ fpc' = "unlocked"
  /\ tpc' = "wait"

\* sleep_cond counts the rounds that found nothing, and 50000 of them precede
\* a sleep.  A round that finds nothing changes no state the model keeps, so
\* their number is left open: the thread starts the next round ...
ThreadSpin ==
  /\ At("spun")
  /\ ThreadUnlock
  /\ UNCHANGED <<fblkVars, fshadowVars, fidxVars, waiting_rsps, site, f_rp, f_i>>
  /\ UNCHANGED <<fipc, grant_faults, sringVars, evtVars>>

\* ... or the threshold is passed, and unless it is SLEEPING already it is
\* marked so ...
ThreadMarkSleeping ==
  /\ At("spun")
  /\ FrontSleeps
  /\ rsp_status = RUNNING
  /\ rsp_status' = SLEEPING
  /\ Goto("sleep")
  /\ UNCHANGED <<fblkVars, fshadowVars, fidxVars, waiting_rsps, site, f_rp, f_i>>
  /\ UNCHANGED <<tpc, fipc, grant_faults, req_prod, rsp_prod, ring, req_status, evtVars>>

\* ... then clear the condition it will sleep on ...
ThreadClearWaiting ==
  /\ At("sleep")
  /\ waiting_rsps' = FALSE
  /\ Goto("recheck")
  /\ UNCHANGED <<fblkVars, fshadowVars, fidxVars, site, f_rp, f_i>>
  /\ UNCHANGED <<tpc, fipc, grant_faults, sringVars, evtVars>>

\* Mutant of ThreadRecheck: no second look at the ring.
ThreadNoRecheck ==
  /\ At("recheck")
  /\ ThreadUnlock
  /\ UNCHANGED <<fblkVars, fshadowVars, fidxVars, waiting_rsps, site, f_rp, f_i>>
  /\ UNCHANGED <<fipc, grant_faults, sringVars, evtVars>>

\* ... and look at the ring once more before letting go of the lock.
ThreadRecheck ==
  /\ At("recheck")
  /\ IF RING_HAS_UNCONSUMED_RESPONSES(rsp_prod, rsp_cons) # 0
     THEN Goto("read") /\ UNCHANGED tpc
     ELSE ThreadUnlock
  /\ UNCHANGED <<fblkVars, fshadowVars, fidxVars, waiting_rsps, site, f_rp, f_i>>
  /\ UNCHANGED <<fipc, grant_faults, sringVars, evtVars>>

-----------------------------------------------------------------------------
(* irq_ring_interrupt.  io_lock is taken with interrupts disabled, so on    *)
(* one CPU the handler starts only while nobody holds it.                   *)

FrontIrqFlag ==
  /\ fipc = "idle"
  /\ evt_front
  /\ FrontSmp \/ fpc = "unlocked"
  /\ evt_front' = FALSE
  /\ waiting_rsps' = TRUE
  /\ fipc' = "flagged"
  /\ UNCHANGED <<fblkVars, fshadowVars, fidxVars, fpc, site, f_rp, f_i>>
  /\ UNCHANGED <<tpc, grant_faults, sringVars, evt_back>>

\* wake_up, if the thread is marked SLEEPING.
FrontIrqWake ==
  /\ fipc = "flagged"
  /\ tpc' = IF rsp_status = SLEEPING /\ tpc = "asleep" THEN "wait" ELSE tpc
  /\ fipc' = "woken"
  /\ UNCHANGED <<fblkVars, fshadowVars, fidxVars, waiting_rsps, fpc, site, f_rp, f_i>>
  /\ UNCHANGED <<grant_faults, sringVars, evtVars>>

FrontIrqDone ==
  /\ fipc = "woken"
  /\ rsp_status' = RUNNING
  /\ fipc' = "idle"
  /\ UNCHANGED <<fblkVars, fshadowVars, fidxVars, waiting_rsps, fpc, site, f_rp, f_i>>
  /\ UNCHANGED <<tpc, grant_faults, req_prod, rsp_prod, ring, req_status, evtVars>>

-----------------------------------------------------------------------------

DoIddRequest ==
  \/ RunQueue \/ PeekEmpty \/ PeekFull \/ PeekNonFs \/ QueueRequestFails \/ QueueRequest
  \/ PushRequests \/ NotifyBack
  \/ PollGivesUp \/ PollFound \/ DrainOne \/ DrainDone

ResponseThread ==
  \/ ThreadRead \/ ConsumeOne \/ ConsumeDone \/ KickFull \/ KickQueue
  \/ ThreadSpin \/ ThreadMarkSleeping \/ ThreadClearWaiting \/ ThreadRecheck

FrontIrq == FrontIrqFlag \/ FrontIrqWake \/ FrontIrqDone

FrontNext ==
  \/ \E r \in Request : Submit(r)
  \/ DoIddRequest
  \/ ThreadSleep \/ ThreadLock \/ ResponseThread
  \/ FrontIrq

=============================================================================
