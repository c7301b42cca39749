------------------------------ MODULE Backend -------------------------------
(***************************************************************************)
(* The back-end driver (src/myrepo/backend/backend.c), in the driver       *)
(* domain.                                                                 *)
(*                                                                         *)
(* One kernel thread takes requests off the ring (bpc); the block layer    *)
(* calls end_block_io_op for every finished bio, in any context, so each   *)
(* claimed pending_req advances on its own (stage[p]); bipc is the         *)
(* interrupt handler.  The xenpv reference count, the plug and the         *)
(* geometry of a request (sectors, segments) are left out.                 *)
(***************************************************************************)
EXTENDS SharedRing, FiniteSets

CONSTANTS
  Pending,         \* the pool: xen_idd_reqs = 64 pending_req structures
  NoPending,       \* NULL
  MaxBios,         \* bios a request may be split into
  MaxFinishing,    \* contexts that can be between the last bio and free_req
  BackSleeps,      \* bound: the request thread may pass the sleep threshold
  BackFaults,      \* failures enabled: "reject", "io", "nobio"
  MaxBioFaults,    \* bound: how often bio_alloc may fail
  BackSmp          \* the interrupt may run beside the thread, on another CPU

ASSUME BackAssumption ==
  /\ IsFiniteSet(Pending) /\ NoPending \notin Pending
  /\ MaxBios \in Nat \ {0}
  /\ MaxFinishing \in Nat \ {0}
  /\ BackSleeps \in BOOLEAN
  /\ BackFaults \subseteq {"reject", "io", "nobio"}
  /\ MaxBioFaults \in Nat
  /\ BackSmp \in BOOLEAN

VARIABLES
  req_cons,      \* consumer index of requests; also the local rc
  rsp_prod_pvt,  \* private producer index of responses
  waiting_reqs,  \* condition of the wait queue the thread sleeps on
  bpc,           \* request thread
  b_rp,          \* local rp of __do_block_io_op (a local out of scope is reset)
  cur,           \* local pending_req of __do_block_io_op
  stage,         \* how far each pending_req has come
  pending,       \* the pending_req structures
  bipc,          \* interrupt handler
  bio_faults     \* failures of bio_alloc so far

bidxVars  == <<req_cons, rsp_prod_pvt>>
bctlVars  == <<waiting_reqs, bpc, b_rp, cur, bio_faults>>
backVars  == <<bidxVars, bctlVars, stage, pending, bipc>>

\* A structure in the pool.  pendcnt is only ever set once bios are ready to
\* be submitted; in the pool it is what the last use left, 0.
FreePending == [id |-> 0, pendcnt |-> 0, status |-> 0, mapped |-> FALSE]

Pool      == {p \in Pending : stage[p] = "free"}
Finishing == {p \in Pending : stage[p] \in {"respond", "notify", "release"}}
RingLocked == \E p \in Pending : stage[p] = "notify"

BackTypeOK ==
  /\ req_cons \in RING_IDX /\ rsp_prod_pvt \in RING_IDX
  /\ waiting_reqs \in BOOLEAN
  /\ bpc \in {"wait", "asleep", "again", "batch", "fetch", "dispatch", "reject",
              "final", "spun", "sleep", "recheck"}
  /\ b_rp \in RING_IDX
  /\ cur \in Pending \cup {NoPending}
  /\ stage \in [Pending -> {"free", "claimed", "io", "respond", "notify", "release"}]
  /\ pending \in [Pending -> [id : Ids, pendcnt : -1 .. MaxBios,
                              status : {0, -1}, mapped : BOOLEAN]]
  /\ bipc \in {"idle", "flagged", "woken"}
  /\ bio_faults \in 0 .. MaxBioFaults

\* blk_init.  The thread starts in wait_event with waiting_reqs set.
BackInit ==
  /\ req_cons = 0 /\ rsp_prod_pvt = 0
  /\ waiting_reqs = TRUE
  /\ bpc = "wait" /\ b_rp = 0 /\ cur = NoPending
  /\ stage = [p \in Pending |-> "free"]
  /\ pending = [p \in Pending |-> FreePending]
  /\ bipc = "idle"
  /\ bio_faults = 0

-----------------------------------------------------------------------------
(* Helpers *)

\* On one CPU nothing of the driver runs while the handler does, or while
\* blk_ring_lock is held, which is taken with interrupts disabled.
BackCpuFree == BackSmp \/ (bipc = "idle" /\ ~RingLocked)

BackAt(pc)   == bpc = pc /\ BackCpuFree
BackGoto(pc) == bpc' = pc

Unconsumed == RING_HAS_UNCONSUMED_REQUESTS(req_prod, req_cons, rsp_prod_pvt)
Takeable   == req_cons # b_rp /\ ~RING_REQUEST_CONS_OVERFLOW(req_cons, rsp_prod_pvt)

-----------------------------------------------------------------------------
(* idd_request_schedule, the request thread *)

\* wait_event_interruptible: the condition is tested before every sleep.
BackWait ==
  /\ BackAt("wait")
  /\ BackGoto(IF waiting_reqs THEN "again" ELSE "asleep")
  /\ UNCHANGED <<bidxVars, waiting_reqs, b_rp, cur, bio_faults, stage, pending, bipc>>
  /\ UNCHANGED <<sringVars, evtVars>>

\* The label "again": wait for the pool, then look at the ring.
BackLook ==
  /\ BackAt("again")
  /\ Pool # {}
  /\ IF req_cons # req_prod /\ ~RING_REQUEST_CONS_OVERFLOW(req_cons, rsp_prod_pvt)
     THEN BackGoto("batch") ELSE BackGoto("spun")
  /\ UNCHANGED <<bidxVars, waiting_reqs, b_rp, cur, bio_faults, stage, pending, bipc>>
  /\ UNCHANGED <<sringVars, evtVars>>

\* __do_block_io_op reads the indices again ...
BatchStart ==
  /\ BackAt("batch")
  /\ b_rp' = req_prod
  /\ BackGoto("fetch")
  /\ UNCHANGED <<bidxVars, waiting_reqs, cur, bio_faults, stage, pending, bipc>>
  /\ UNCHANGED <<sringVars, evtVars>>

BatchEnd ==
  /\ BackAt("fetch")
  /\ ~Takeable
  /\ b_rp' = 0
  /\ BackGoto("final")
  /\ UNCHANGED <<bidxVars, waiting_reqs, cur, bio_faults, stage, pending, bipc>>
  /\ UNCHANGED <<sringVars, evtVars>>

\* The pool is empty: leave with more_to_do set, which no caller looks at.
AllocFails ==
  /\ BackAt("fetch")
  /\ Takeable
  /\ Pool = {}
  /\ b_rp' = 0
  /\ BackGoto("spun")
  /\ UNCHANGED <<bidxVars, waiting_reqs, cur, bio_faults, stage, pending, bipc>>
  /\ UNCHANGED <<sringVars, evtVars>>

\* ... claims a pending_req, copies the request out of its slot and consumes it ...
Claim(p) ==
  /\ BackAt("fetch")
  /\ Takeable
  /\ p \in Pool
  /\ stage' = [stage EXCEPT ![p] = "claimed"]
  /\ pending' = [pending EXCEPT ![p].id = ring[SlotOf(req_cons)].seq_no]
  /\ cur' = p
  /\ req_cons' = Succ(req_cons)
  /\ BackGoto("dispatch")
  /\ UNCHANGED <<rsp_prod_pvt, waiting_reqs, b_rp, bio_faults, bipc>>
  /\ UNCHANGED <<sringVars, evtVars>>

\* ... and dispatches it as n bios.
Dispatch(n) ==
  /\ BackAt("dispatch")
  /\ stage' = [stage EXCEPT ![cur] = "io"]
  /\ pending' = [pending EXCEPT ![cur] =
                   [id |-> @.id, pendcnt |-> n, status |-> 0, mapped |-> TRUE]]
  /\ cur' = NoPending
  /\ BackGoto("fetch")
  /\ UNCHANGED <<bidxVars, waiting_reqs, b_rp, bio_faults, bipc>>
  /\ UNCHANGED <<sringVars, evtVars>>

\* fail_flush and fail_response: nothing stays mapped, and the thread itself
\* answers -1 and frees the structure.
DispatchRejects ==
  /\ BackAt("dispatch")
  /\ "reject" \in BackFaults
  /\ Cardinality(Finishing) < MaxFinishing
  /\ stage' = [stage EXCEPT ![cur] = "respond"]
  /\ pending' = [pending EXCEPT ![cur].status = -1]
  /\ BackGoto("reject")
  /\ UNCHANGED <<bidxVars, waiting_reqs, b_rp, cur, bio_faults, bipc>>
  /\ UNCHANGED <<sringVars, evtVars>>

RejectDone ==
  /\ BackAt("reject")
  /\ stage[cur] = "free"
  /\ cur' = NoPending /\ b_rp' = 0
  /\ BackGoto("final")
  /\ UNCHANGED <<bidxVars, waiting_reqs, bio_faults, stage, pending, bipc>>
  /\ UNCHANGED <<sringVars, evtVars>>

\* fail_put_bio: no bio was submitted and pendcnt was not set yet, so the
\* decrement of __end_block_io_op does not reach 0 and nothing more happens.
DispatchNoBio ==
  /\ BackAt("dispatch")
  /\ "nobio" \in BackFaults /\ bio_faults < MaxBioFaults
  /\ bio_faults' = bio_faults + 1
  /\ stage' = [stage EXCEPT ![cur] = "io"]
  /\ pending' = [pending EXCEPT ![cur] =
                   [id |-> @.id, pendcnt |-> @.pendcnt - 1, status |-> -1, mapped |-> TRUE]]
  /\ cur' = NoPending /\ b_rp' = 0
  /\ BackGoto("final")
  /\ UNCHANGED <<bidxVars, waiting_reqs, bipc>>
  /\ UNCHANGED <<sringVars, evtVars>>

\* do_block_io_op: RING_FINAL_CHECK_FOR_REQUESTS.
BatchFinalCheck ==
  /\ BackAt("final")
  /\ BackGoto(IF Unconsumed # 0 THEN "batch" ELSE "spun")
  /\ UNCHANGED <<bidxVars, waiting_reqs, b_rp, cur, bio_faults, stage, pending, bipc>>
  /\ UNCHANGED <<sringVars, evtVars>>

\* sleep_cond, as in the front end: the thread starts the next round ...
BackSpin ==
  /\ BackAt("spun")
  /\ BackGoto("wait")
  /\ UNCHANGED <<bidxVars, waiting_reqs, b_rp, cur, bio_faults, stage, pending, bipc>>
  /\ UNCHANGED <<sringVars, evtVars>>

\* ... or the threshold is passed, and unless it is SLEEPING already it is
\* marked so ...
BackMarkSleeping ==
  /\ BackAt("spun")
  /\ BackSleeps
  /\ req_status = RUNNING
  /\ req_status' = SLEEPING
  /\ BackGoto("sleep")
  /\ UNCHANGED <<bidxVars, waiting_reqs, b_rp, cur, bio_faults, stage, pending, bipc>>
  /\ UNCHANGED <<req_prod, rsp_prod, ring, rsp_status, evtVars>>

\* ... then clear the condition it will sleep on ...
BackClearWaiting ==
  /\ BackAt("sleep")
  /\ waiting_reqs' = FALSE
  /\ BackGoto("recheck")
  /\ UNCHANGED <<bidxVars, b_rp, cur, bio_faults, stage, pending, bipc>>
  /\ UNCHANGED <<sringVars, evtVars>>

\* Mutant of BackRecheck: no second look at the ring.
BackNoRecheck ==
  /\ BackAt("recheck")
  /\ BackGoto("wait")
  /\ UNCHANGED <<bidxVars, waiting_reqs, b_rp, cur, bio_faults, stage, pending, bipc>>
  /\ UNCHANGED <<sringVars, evtVars>>

\* ... and look at the ring once more.
BackRecheck ==
  /\ BackAt("recheck")
  /\ BackGoto(IF Unconsumed # 0 THEN "again" ELSE "wait")
  /\ UNCHANGED <<bidxVars, waiting_reqs, b_rp, cur, bio_faults, stage, pending, bipc>>
  /\ UNCHANGED <<sringVars, evtVars>>

-----------------------------------------------------------------------------
(* Completion of a request, in the context of its last bio; make_response   *)
(* holds blk_ring_lock from Respond to NotifyFront.                         *)

\* Mutant of EndBio: the first bio answers for all.
EndBioFirstAnswers(p, err) ==
  /\ BackCpuFree
  /\ stage[p] = "io" /\ pending[p].pendcnt > 0
  /\ err = 0 \/ "io" \in BackFaults
  /\ Cardinality(Finishing) < MaxFinishing
  /\ stage' = [stage EXCEPT ![p] = "respond"]
  /\ pending' = [pending EXCEPT ![p] =
                   [id |-> @.id, pendcnt |-> @.pendcnt - 1,
                    status |-> IF err # 0 THEN -1 ELSE @.status, mapped |-> FALSE]]
  /\ UNCHANGED <<bidxVars, bctlVars, bipc, sringVars, evtVars>>

\* end_block_io_op: one bio is done.  The last one unmaps the pages.
EndBio(p, err) ==
  /\ BackCpuFree
  /\ stage[p] = "io" /\ pending[p].pendcnt > 0
  /\ err = 0 \/ "io" \in BackFaults
  /\ pending[p].pendcnt = 1 => Cardinality(Finishing) < MaxFinishing
  /\ stage' = [stage EXCEPT ![p] = IF pending[p].pendcnt = 1 THEN "respond" ELSE "io"]
  /\ pending' = [pending EXCEPT ![p] =
                   [id |-> @.id, pendcnt |-> @.pendcnt - 1,
                    status |-> IF err # 0 THEN -1 ELSE @.status, mapped |-> @.pendcnt > 1]]
  /\ UNCHANGED <<bidxVars, bctlVars, bipc, sringVars, evtVars>>

\* Mutant of Respond: the slot of the consumer index of requests.
RespondAtReqCons(p) ==
  /\ BackCpuFree
  /\ stage[p] = "respond" /\ ~RingLocked
  /\ ring' = [ring EXCEPT ![SlotOf(req_cons)] = RspMsg(pending[p].id, pending[p].status)]
  /\ rsp_prod_pvt' = Succ(rsp_prod_pvt)
  /\ rsp_prod' = rsp_prod_pvt'
  /\ stage' = [stage EXCEPT ![p] = "notify"]
  /\ UNCHANGED <<pending, req_cons, bctlVars, bipc, req_prod, req_status, rsp_status, evtVars>>

\* make_response: fill the slot and publish it.
Respond(p) ==
  /\ BackCpuFree
  /\ stage[p] = "respond" /\ ~RingLocked
  /\ ring' = [ring EXCEPT ![SlotOf(rsp_prod_pvt)] = RspMsg(pending[p].id, pending[p].status)]
  /\ rsp_prod_pvt' = Succ(rsp_prod_pvt)
  /\ rsp_prod' = rsp_prod_pvt'
  /\ stage' = [stage EXCEPT ![p] = "notify"]
  /\ UNCHANGED <<pending, req_cons, bctlVars, bipc, req_prod, req_status, rsp_status, evtVars>>

\* Still under the lock: interrupt the front end if its thread says it sleeps.
NotifyFront(p) ==
  /\ stage[p] = "notify"
  /\ evt_front' = (evt_front \/ rsp_status = SLEEPING)
  /\ stage' = [stage EXCEPT ![p] = "release"]
  /\ UNCHANGED <<pending, bidxVars, bctlVars, bipc, sringVars, evt_back>>

\* Mutant of Release: only a request that was rejected gives back its structure.
ReleaseIfRejected(p) ==
  /\ BackCpuFree
  /\ stage[p] = "release"
  /\ stage' = [stage EXCEPT ![p] = IF p = cur THEN "free" ELSE "claimed"]
  /\ pending' = [pending EXCEPT ![p] = FreePending]
  /\ UNCHANGED <<bidxVars, bctlVars, bipc, sringVars, evtVars>>

\* free_req.
Release(p) ==
  /\ BackCpuFree
  /\ stage[p] = "release"
  /\ stage' = [stage EXCEPT ![p] = "free"]
  /\ pending' = [pending EXCEPT ![p] = FreePending]
  /\ UNCHANGED <<bidxVars, bctlVars, bipc, sringVars, evtVars>>

-----------------------------------------------------------------------------
(* irq_ring_interrupt *)

BackIrqFlag ==
  /\ bipc = "idle"
  /\ evt_back
  /\ BackCpuFree
  /\ evt_back' = FALSE
  /\ waiting_reqs' = TRUE
  /\ bipc' = "flagged"
  /\ UNCHANGED <<bidxVars, bpc, b_rp, cur, bio_faults, stage, pending>>
  /\ UNCHANGED <<sringVars, evt_front>>

\* wake_up, if the thread is marked SLEEPING.
BackIrqWake ==
  /\ bipc = "flagged"
  /\ bpc' = IF req_status = SLEEPING /\ bpc = "asleep" THEN "wait" ELSE bpc
  /\ bipc' = "woken"
  /\ UNCHANGED <<bidxVars, waiting_reqs, b_rp, cur, bio_faults, stage, pending>>
  /\ UNCHANGED <<sringVars, evtVars>>

BackIrqDone ==
  /\ bipc = "woken"
  /\ req_status' = RUNNING
  /\ bipc' = "idle"
  /\ UNCHANGED <<bidxVars, bctlVars, stage, pending>>
  /\ UNCHANGED <<req_prod, rsp_prod, ring, rsp_status, evtVars>>

-----------------------------------------------------------------------------

DoBlockIoOp ==
  \/ BatchStart \/ BatchEnd \/ AllocFails
  \/ \E p \in Pending : Claim(p)
  \/ \E n \in 1 .. MaxBios : Dispatch(n)
  \/ DispatchRejects \/ RejectDone \/ DispatchNoBio
  \/ BatchFinalCheck

RequestThread ==
  \/ BackWait \/ BackLook
  \/ DoBlockIoOp
  \/ BackSpin \/ BackMarkSleeping \/ BackClearWaiting \/ BackRecheck

BackIrq == BackIrqFlag \/ BackIrqWake \/ BackIrqDone

BackNext ==
  \/ RequestThread
  \/ \E p \in Pending : \/ \E err \in {0, -1} : EndBio(p, err)
                        \/ Respond(p) \/ NotifyFront(p) \/ Release(p)
  \/ BackIrq

=============================================================================
