----------------------------- MODULE Idd_proofs -----------------------------
(***************************************************************************)
(* Theorems about the isolated driver domain, for every size of the ring,  *)
(* width of the indices, set of requests and pool, with every failure of   *)
(* both drivers and every interleaving: the types, the waking of the two   *)
(* threads, the protocol of the ring, and the pair as a block service - no *)
(* request is lost, answered twice or overwritten, an id is free whenever  *)
(* a slot is, the pool is never found empty, and the pair implements       *)
(* BlockService.                                                           *)
(***************************************************************************)
EXTENDS Idd, FiniteSetTheorems, WellFoundedInduction, TLAPS

-----------------------------------------------------------------------------
(* Ring arithmetic *)

\* ++idx stays a RING_IDX.
LEMMA SuccType == ASSUME NEW x \in RING_IDX PROVE Succ(x) \in RING_IDX
  BY RingAssumption, SMT DEF Succ, RING_IDX

\* Masking an index gives a slot.
LEMMA SlotType == ASSUME NEW x \in RING_IDX PROVE SlotOf(x) \in Slots
<1>1. x \in Nat /\ RingSize \in Nat \ {0}
  BY RingAssumption DEF RING_IDX
<1>2. x % RingSize \in 0 .. RingSize - 1
  BY <1>1, SMT
<1> QED BY <1>2 DEF SlotOf, Slots

\* Two indices are equal when nothing lies between them.
LEMMA NothingBetween ==
  ASSUME NEW a \in RING_IDX, NEW b \in RING_IDX, Minus(a, b) = 0 PROVE a = b
  BY RingAssumption, SMT DEF Minus, RING_IDX

-----------------------------------------------------------------------------
(* Types *)

\* Between two uses pendcnt is 0, so that the decrement of a failed dispatch
\* stays in its range; the structure being dispatched is a claimed one.
PendingInv ==
  /\ bpc = "dispatch" => cur \in Pending /\ stage[cur] = "claimed"
  /\ \A p \in Pending : stage[p] # "io" => pending[p].pendcnt = 0

TypeInv == TypeOK /\ PendingInv

LEMMA TypeInit == Init => TypeInv
<1> SUFFICES ASSUME Init PROVE TypeInv
  OBVIOUS
<1> USE RingAssumption, FrontAssumption, BackAssumption
<1>1. 0 \in RING_IDX /\ 0 \in Ids
  BY DEF RING_IDX, Ids
<1>2. SharedTypeOK
  BY <1>1 DEF Init, SharedInit, SharedTypeOK, Message, ZeroMsg, SLEEPING, RUNNING
<1>3. FrontTypeOK
  <2>1. \A id \in Ids : id + 1 \in Ids \cup {EndOfList}
    BY DEF Ids, EndOfList
  <2>2. shadow \in [Ids -> [request : Request \cup {NoReq}, seq_no : Ids \cup {EndOfList}]]
    BY <2>1 DEF Init, FrontInit
  <2>3. queue \in Seq(Request)
    BY DEF Init, FrontInit
  <2>4. grant_faults \in 0 .. MaxGrantFaults
    BY DEF Init, FrontInit
  <2> QED BY <1>1, <2>2, <2>3, <2>4 DEF Init, FrontInit, FrontTypeOK
<1>4. BackTypeOK /\ PendingInv
  BY <1>1 DEF Init, BackInit, BackTypeOK, PendingInv, FreePending
<1> QED BY <1>2, <1>3, <1>4 DEF TypeInv, TypeOK

\* Handling a response keeps the shadow table and the requests well typed.
LEMMA HandleResponseType ==
  ASSUME FrontTypeOK, NEW id \in Ids, HandleResponse(id)
  PROVE  /\ shadow' \in [Ids -> [request : Request \cup {NoReq}, seq_no : Ids \cup {EndOfList}]]
         /\ shadow_free' \in Ids \cup {EndOfList}
         /\ blk' \in [Request -> {"new", "submitted", "ok", "eio"}]
<1>1. CASE Recyclable(id)
  BY <1>1, FrontAssumption DEF HandleResponse, Recyclable, FrontTypeOK
<1>2. CASE ~Recyclable(id)
  BY <1>2 DEF HandleResponse, FrontTypeOK
<1> QED BY <1>1, <1>2

\* Every slot names an id.
LEMMA SlotNamesId ==
  ASSUME SharedTypeOK, NEW x \in RING_IDX PROVE ring[SlotOf(x)].seq_no \in Ids
  BY SlotType DEF SharedTypeOK, Message

\* Every step of the front end keeps the types; PendingInv does not mention
\* what it changes.
LEMMA FrontStepType == TypeInv /\ FrontNext /\ UNCHANGED backVars => TypeInv'
<1> SUFFICES ASSUME TypeInv, FrontNext, UNCHANGED backVars PROVE TypeInv'
  OBVIOUS
<1> USE DEF TypeInv, TypeOK
<1>1. BackTypeOK' /\ PendingInv'
  BY DEF backVars, bidxVars, bctlVars, BackTypeOK, PendingInv
<1> SUFFICES SharedTypeOK' /\ FrontTypeOK'
  BY <1>1
<1> USE DEF SharedTypeOK, FrontTypeOK, At, Goto, RequestPath, ThreadPath, SLEEPING, RUNNING,
            fblkVars, fshadowVars, fidxVars, fctlVars, sringVars, evtVars
<1>2. ASSUME NEW r \in Request, Submit(r) PROVE SharedTypeOK' /\ FrontTypeOK'
  BY <1>2 DEF Submit
<1>3. CASE RunQueue
  BY <1>3 DEF RunQueue
<1>4. CASE PeekEmpty
  BY <1>4 DEF PeekEmpty, ReturnToCaller
<1>5. CASE PeekFull
  BY <1>5 DEF PeekFull, ReturnToCaller
<1>6. CASE PeekNonFs
  BY <1>6 DEF PeekNonFs
<1>7. CASE QueueRequestFails
  BY <1>7, FrontAssumption DEF QueueRequestFails, ReturnToCaller
<1>8. CASE QueueRequest
  <2>1. shadow_free \in Ids /\ Succ(req_prod_pvt) \in RING_IDX
    BY <1>8, SuccType, RingAssumption DEF QueueRequest, Ids, EndOfList
  <2>2. ReqMsg(shadow_free) \in Message
    BY <2>1 DEF ReqMsg, Message
  <2>3. ring' \in [Slots -> Message]
    BY <1>8, <2>2 DEF QueueRequest
  <2>4. queue # <<>> /\ Head(queue) \in Request /\ queue' \in Seq(Request)
    BY <1>8 DEF QueueRequest
  <2>5. /\ shadow' \in [Ids -> [request : Request \cup {NoReq}, seq_no : Ids \cup {EndOfList}]]
        /\ shadow_free' \in Ids \cup {EndOfList}
    BY <1>8, <2>1, <2>4 DEF QueueRequest, TakeId
  <2> QED BY <1>8, <2>1, <2>3, <2>4, <2>5 DEF QueueRequest
<1>9. CASE PushRequests
  BY <1>9 DEF PushRequests
<1>10. CASE NotifyBack
  BY <1>10 DEF NotifyBack
<1>11. CASE PollGivesUp
  BY <1>11 DEF PollGivesUp
<1>12. CASE PollFound
  BY <1>12 DEF PollFound
<1>13. CASE DrainOne
  <2>1. ring[SlotOf(f_i)].seq_no \in Ids
    BY SlotNamesId
  <2>2. Succ(f_i) \in RING_IDX
    BY SuccType
  <2> QED BY <2>1, <2>2, <1>13, HandleResponseType DEF DrainOne
<1>14. CASE DrainDone
  <2>1. 0 \in RING_IDX
    BY RingAssumption DEF RING_IDX
  <2> QED BY <1>14, <2>1 DEF DrainDone
<1>15. CASE ThreadSleep
  BY <1>15 DEF ThreadSleep
<1>16. CASE ThreadLock
  BY <1>16 DEF ThreadLock
<1>17. CASE ThreadRead
  BY <1>17 DEF ThreadRead
<1>18. CASE ConsumeOne
  <2>1. ring[SlotOf(f_i)].seq_no \in Ids
    BY SlotNamesId
  <2>2. Succ(f_i) \in RING_IDX
    BY SuccType
  <2> QED BY <2>1, <2>2, <1>18, HandleResponseType DEF ConsumeOne
<1>19. CASE ConsumeDone
  <2>1. 0 \in RING_IDX
    BY RingAssumption DEF RING_IDX
  <2> QED BY <1>19, <2>1 DEF ConsumeDone
<1>20. CASE KickFull
  BY <1>20 DEF KickFull
<1>21. CASE KickQueue
  BY <1>21, ZenonT(60) DEF KickQueue
<1>22. CASE ThreadSpin
  BY <1>22 DEF ThreadSpin, ThreadUnlock
<1>23. CASE ThreadMarkSleeping
  BY <1>23 DEF ThreadMarkSleeping
<1>24. CASE ThreadClearWaiting
  BY <1>24, ZenonT(60) DEF ThreadClearWaiting
<1>25. CASE ThreadRecheck
  BY <1>25 DEF ThreadRecheck, ThreadUnlock
<1>26. CASE FrontIrqFlag
  <2>1. evt_front' \in BOOLEAN /\ waiting_rsps' \in BOOLEAN /\ evt_back' \in BOOLEAN
    BY <1>26 DEF FrontIrqFlag
  <2>2. fipc' \in {"idle", "flagged", "woken"}
    BY <1>26 DEF FrontIrqFlag
  <2> QED BY <2>1, <2>2, <1>26 DEF FrontIrqFlag
<1>27. CASE FrontIrqWake
  BY <1>27 DEF FrontIrqWake
<1>28. CASE FrontIrqDone
  BY <1>28 DEF FrontIrqDone
<1> QED BY <1>2, <1>3, <1>4, <1>5, <1>6, <1>7, <1>8, <1>9, <1>10, <1>11, <1>12, <1>13, <1>14, <1>15, <1>16, <1>17, <1>18, <1>19, <1>20, <1>21, <1>22, <1>23, <1>24, <1>25, <1>26, <1>27, <1>28
         DEF FrontNext, DoIddRequest, ResponseThread, FrontIrq

\* The type of a pending_req.
PendingRec == [id : Ids, pendcnt : -1 .. MaxBios, status : {0, -1}, mapped : BOOLEAN]

\* So does every step of the back end.
LEMMA BackStepType == TypeInv /\ BackNext /\ UNCHANGED frontVars => TypeInv'
<1> SUFFICES ASSUME TypeInv, BackNext, UNCHANGED frontVars PROVE TypeInv'
  OBVIOUS
<1> USE DEF TypeInv, TypeOK
<1>1. FrontTypeOK'
  BY DEF frontVars, fblkVars, fshadowVars, fidxVars, fctlVars, FrontTypeOK
<1> SUFFICES SharedTypeOK' /\ BackTypeOK' /\ PendingInv'
  BY <1>1
<1> USE DEF SharedTypeOK, BackTypeOK, PendingInv, BackAt, BackGoto, SLEEPING, RUNNING,
            bidxVars, bctlVars, sringVars, evtVars
<1>2. 0 \in RING_IDX /\ 0 \in Ids
  BY RingAssumption DEF RING_IDX, Ids
<1>3. CASE BackWait
  BY <1>2, <1>3, BackAssumption DEF BackWait
<1>4. CASE BackLook
  BY <1>2, <1>4, BackAssumption DEF BackLook
<1>5. CASE BatchStart
  BY <1>2, <1>5, BackAssumption DEF BatchStart
<1>6. CASE BatchEnd
  BY <1>2, <1>6, BackAssumption DEF BatchEnd
<1>7. CASE AllocFails
  BY <1>2, <1>7, BackAssumption DEF AllocFails
<1>8. CASE DispatchRejects
  <2>1. cur \in Pending /\ pending[cur].pendcnt = 0
    BY <1>8 DEF DispatchRejects
  <2>2. pending' \in [Pending -> PendingRec]
    BY <1>8, <2>1 DEF DispatchRejects, PendingRec
  <2>3. pending'[cur].pendcnt = 0 /\ \A p \in Pending : p # cur => pending'[p] = pending[p]
    BY <1>8, <2>1 DEF DispatchRejects
  <2> QED BY <1>8, <2>1, <2>2, <2>3 DEF DispatchRejects, PendingRec
<1>9. CASE RejectDone
  BY <1>2, <1>9, BackAssumption DEF RejectDone
<1>10. CASE DispatchNoBio
  BY <1>2, <1>10, BackAssumption DEF DispatchNoBio
<1>11. CASE BatchFinalCheck
  BY <1>2, <1>11, BackAssumption DEF BatchFinalCheck
<1>12. CASE BackSpin
  BY <1>2, <1>12, BackAssumption DEF BackSpin
<1>13. CASE BackMarkSleeping
  BY <1>2, <1>13, BackAssumption DEF BackMarkSleeping
<1>14. CASE BackClearWaiting
  BY <1>2, <1>14, BackAssumption DEF BackClearWaiting
<1>15. CASE BackRecheck
  BY <1>2, <1>15, BackAssumption DEF BackRecheck
<1>16. CASE BackIrqFlag
  BY <1>2, <1>16, BackAssumption DEF BackIrqFlag
<1>17. CASE BackIrqWake
  BY <1>2, <1>17, BackAssumption DEF BackIrqWake
<1>18. CASE BackIrqDone
  BY <1>2, <1>18, BackAssumption DEF BackIrqDone
<1>19. ASSUME NEW p \in Pending, Claim(p) PROVE SharedTypeOK' /\ BackTypeOK' /\ PendingInv'
  BY <1>19, SuccType, SlotNamesId DEF Claim, Pool
<1>20. ASSUME NEW k \in 1 .. MaxBios, Dispatch(k) PROVE SharedTypeOK' /\ BackTypeOK' /\ PendingInv'
  BY <1>20, BackAssumption DEF Dispatch
<1>21. ASSUME NEW p \in Pending, NEW err \in {0, -1}, EndBio(p, err)
      PROVE SharedTypeOK' /\ BackTypeOK' /\ PendingInv'
  BY <1>21, BackAssumption DEF EndBio
<1>22. ASSUME NEW p \in Pending, Respond(p) PROVE SharedTypeOK' /\ BackTypeOK' /\ PendingInv'
  BY <1>22, SuccType, SlotType DEF Respond, RspMsg, Message
<1>23. ASSUME NEW p \in Pending, NotifyFront(p) PROVE SharedTypeOK' /\ BackTypeOK' /\ PendingInv'
  BY <1>23 DEF NotifyFront
<1>24. ASSUME NEW p \in Pending, Release(p) PROVE SharedTypeOK' /\ BackTypeOK' /\ PendingInv'
  BY <1>24, <1>2, BackAssumption DEF Release, FreePending
<1> QED BY <1>3, <1>4, <1>5, <1>6, <1>7, <1>8, <1>9, <1>10, <1>11, <1>12, <1>13, <1>14, <1>15, <1>16, <1>17, <1>18, <1>19, <1>20, <1>21, <1>22, <1>23, <1>24
         DEF BackNext, DoBlockIoOp, RequestThread, BackIrq

LEMMA TypeInvariant == Spec => []TypeInv
<1>1. TypeInv /\ Next => TypeInv'
  BY FrontStepType, BackStepType DEF Next
<1>2. TypeInv /\ UNCHANGED vars => TypeInv'
  BY DEF vars, frontVars, backVars, fblkVars, fshadowVars, fidxVars, fctlVars, sringVars,
         evtVars, bidxVars, bctlVars, TypeInv, TypeOK, SharedTypeOK, FrontTypeOK, BackTypeOK,
         PendingInv
<1> QED BY <1>1, <1>2, TypeInit, PTL DEF Spec

\* Every variable keeps its type in every reachable state, whatever the
\* constants: in particular no index leaves the width of a RING_IDX and no
\* response names an id outside the shadow table.
THEOREM TypeCorrect == Spec => []TypeOK
<1>1. TypeInv => TypeOK
  BY DEF TypeInv
<1> QED BY <1>1, TypeInvariant, PTL

-----------------------------------------------------------------------------
(* The response thread is always woken *)

\* The front end never touches blk_ring_lock.
LEMMA FrontStepSleep ==
  ASSUME TypeInv, SleepInv, ~FrontRace, FrontNext, UNCHANGED backVars
  PROVE  SleepInv'
<1>1. RingLocked' = RingLocked
  BY DEF backVars, RingLocked
<1> USE <1>1 DEF SleepInv, FrontRace, FrontSeen, FrontWakeupDue, At, Goto, FrontCpuFree, ThreadPath,
    SLEEPING, RUNNING, fblkVars, fshadowVars, fidxVars, fctlVars, sringVars, evtVars
<1> USE DEF TypeInv, TypeOK, SharedTypeOK, FrontTypeOK, RequestPath
<1>2. ASSUME NEW r \in Request, Submit(r) PROVE SleepInv'
  BY <1>2 DEF Submit
<1>3. CASE RunQueue
  BY <1>3 DEF RunQueue
<1>4. CASE PeekEmpty
  BY <1>4 DEF PeekEmpty, ReturnToCaller
<1>5. CASE PeekFull
  BY <1>5 DEF PeekFull, ReturnToCaller
<1>6. CASE PeekNonFs
  BY <1>6 DEF PeekNonFs
<1>7. CASE QueueRequestFails
  BY <1>7 DEF QueueRequestFails, ReturnToCaller
<1>8. CASE QueueRequest
  BY <1>8 DEF QueueRequest
<1>9. CASE PushRequests
  BY <1>9 DEF PushRequests
<1>10. CASE NotifyBack
  BY <1>10 DEF NotifyBack
<1>11. CASE PollGivesUp
  BY <1>11 DEF PollGivesUp
<1>12. CASE PollFound
  BY <1>12 DEF PollFound
<1>13. CASE DrainOne
  BY <1>13 DEF DrainOne
<1>14. CASE DrainDone
  BY <1>14 DEF DrainDone
<1>15. CASE ThreadSleep
  BY <1>15 DEF ThreadSleep
<1>16. CASE ThreadLock
  BY <1>16 DEF ThreadLock
<1>17. CASE ThreadRead
  BY <1>17 DEF ThreadRead
<1>18. CASE ConsumeOne
  BY <1>18 DEF ConsumeOne
<1>19. CASE ConsumeDone
  BY <1>19 DEF ConsumeDone
<1>20. CASE KickFull
  BY <1>20 DEF KickFull
<1>21. CASE KickQueue
  BY <1>21 DEF KickQueue
<1>22. CASE ThreadSpin
  BY <1>22 DEF ThreadSpin, ThreadUnlock
<1>23. CASE ThreadMarkSleeping
  BY <1>23 DEF ThreadMarkSleeping
<1>24. CASE ThreadClearWaiting
  BY <1>24 DEF ThreadClearWaiting
<1>25. CASE ThreadRecheck
  <2>1. CASE RING_HAS_UNCONSUMED_RESPONSES(rsp_prod, rsp_cons) # 0
    BY <1>25, <2>1 DEF ThreadRecheck
  <2>2. CASE RING_HAS_UNCONSUMED_RESPONSES(rsp_prod, rsp_cons) = 0
    <3>1. rsp_prod = rsp_cons
      BY <2>2, NothingBetween DEF RING_HAS_UNCONSUMED_RESPONSES
    <3> QED BY <1>25, <2>2, <3>1 DEF ThreadRecheck, ThreadUnlock
  <2> QED BY <2>1, <2>2
<1>26. CASE FrontIrqFlag
  BY <1>26 DEF FrontIrqFlag
<1>27. CASE FrontIrqWake
  BY <1>27 DEF FrontIrqWake
<1>28. CASE FrontIrqDone
  BY <1>28 DEF FrontIrqDone
<1> QED BY <1>2, <1>3, <1>4, <1>5, <1>6, <1>7, <1>8, <1>9, <1>10, <1>11, <1>12, <1>13, <1>14, <1>15, <1>16, <1>17, <1>18, <1>19, <1>20, <1>21, <1>22, <1>23, <1>24, <1>25, <1>26, <1>27, <1>28
         DEF FrontNext, DoIddRequest, ResponseThread, FrontIrq

\* The back end publishes a response only with blk_ring_lock held, and lets go
\* of the lock only after it has looked at the response thread's status.
LEMMA BackStepSleep ==
  ASSUME TypeInv, SleepInv, BackNext, UNCHANGED frontVars
  PROVE  SleepInv'
<1> DEFINE Told == /\ rsp_status' = rsp_status
                   /\ evt_front => evt_front'
                   /\ RingLocked \/ rsp_prod' # rsp_prod
                        => RingLocked' \/ (rsp_status = SLEEPING => evt_front')
<1>1. Told
  <2> USE DEF TypeInv, TypeOK, SharedTypeOK, BackTypeOK, RingLocked, sringVars, evtVars
  <2> DEFINE Thread == \/ BackWait \/ BackLook \/ BatchStart \/ BatchEnd \/ AllocFails
                       \/ RejectDone \/ BatchFinalCheck \/ BackSpin \/ BackMarkSleeping
                       \/ BackClearWaiting \/ BackRecheck \/ BackIrq
  <2>1. CASE Thread
    BY <2>1 DEF BackWait, BackLook, BatchStart, BatchEnd, AllocFails, RejectDone,
                BatchFinalCheck, BackSpin, BackMarkSleeping, BackClearWaiting, BackRecheck,
                BackIrq, BackIrqFlag, BackIrqWake, BackIrqDone
  <2>2. CASE DispatchRejects \/ DispatchNoBio \/ \E n \in 1 .. MaxBios : Dispatch(n)
    <3>1. cur \in Pending /\ stage[cur] = "claimed"
      BY <2>2 DEF PendingInv, DispatchRejects, DispatchNoBio, Dispatch, BackAt
    <3> QED BY <2>2, <3>1 DEF DispatchRejects, DispatchNoBio, Dispatch
  <2>3. ASSUME NEW p \in Pending, Claim(p) PROVE Told
    BY <2>3 DEF Claim, Pool
  <2>4. ASSUME NEW p \in Pending, NEW err \in {0, -1}, EndBio(p, err) PROVE Told
    BY <2>4 DEF EndBio
  <2>5. ASSUME NEW p \in Pending, Respond(p) PROVE Told
    BY <2>5 DEF Respond
  <2>6. ASSUME NEW p \in Pending, NotifyFront(p) PROVE Told
    BY <2>6 DEF NotifyFront
  <2>7. ASSUME NEW p \in Pending, Release(p) PROVE Told
    BY <2>7 DEF Release
  <2> QED BY <2>1, <2>2, <2>3, <2>4, <2>5, <2>6, <2>7 DEF BackNext, RequestThread, DoBlockIoOp
<1> QED BY <1>1 DEF SleepInv, FrontSeen, FrontWakeupDue, frontVars, fblkVars, fidxVars, fctlVars

LEMMA SleepInit == Init => SleepInv
  BY DEF Init, SharedInit, FrontInit, SleepInv, FrontSeen, FrontWakeupDue, ThreadPath,
         SLEEPING, RUNNING

\* The response thread never sleeps on a response without an interrupt on its way
\* to it, on any number of CPUs, unless the handler once runs between the two steps
\* of its going to sleep: FrontRace is the only way to lose that wakeup, however the
\* two domains interleave, whatever the size of the ring, of the pool and of the
\* backlog.
THEOREM ResponseThreadWokenUnlessRace == Spec /\ []~FrontRace => []ResponseThreadNotStranded
<1>1. TypeInv /\ SleepInv /\ ~FrontRace /\ Next => SleepInv'
  BY FrontStepSleep, BackStepSleep DEF Next
<1>2. SleepInv /\ UNCHANGED vars => SleepInv'
  BY DEF vars, frontVars, backVars, fblkVars, fshadowVars, fidxVars, fctlVars, sringVars,
         evtVars, bidxVars, bctlVars, SleepInv, FrontSeen, FrontWakeupDue, RingLocked
<1>3. TypeInv /\ SleepInv => ResponseThreadNotStranded
  BY DEF SleepInv, ResponseThreadNotStranded, FrontSeen, FrontWakeupDue, ThreadPath
<1> QED BY <1>1, <1>2, <1>3, SleepInit, TypeInvariant, PTL DEF Spec

\* On one CPU the handler runs only while nobody holds io_lock, and nobody takes
\* the lock before it is done.
OutOfTheWay == fipc # "idle" => fpc = "unlocked"

LEMMA FrontStepOutOfTheWay ==
  ASSUME FrontSmp = FALSE, OutOfTheWay, FrontNext
  PROVE  OutOfTheWay'
<1> USE DEF OutOfTheWay, At, Goto, FrontCpuFree, fctlVars
<1>1. CASE FrontIrq
  BY <1>1 DEF FrontIrq, FrontIrqFlag, FrontIrqWake, FrontIrqDone
<1>2. CASE ThreadSleep \/ ThreadLock
  BY <1>2 DEF ThreadSleep, ThreadLock
<1>3. CASE ResponseThread
  BY <1>3 DEF ResponseThread, ThreadRead, ConsumeOne, ConsumeDone, KickFull, KickQueue,
              ThreadSpin, ThreadMarkSleeping, ThreadClearWaiting, ThreadRecheck, ThreadUnlock
<1>4. CASE DoIddRequest
  BY <1>4 DEF DoIddRequest, RunQueue, PeekEmpty, PeekFull, PeekNonFs, QueueRequestFails,
              QueueRequest, PushRequests, NotifyBack, PollGivesUp, PollFound, DrainOne,
              DrainDone
<1>5. ASSUME NEW r \in Request, Submit(r) PROVE OutOfTheWay'
  BY <1>5 DEF Submit
<1> QED BY <1>1, <1>2, <1>3, <1>4, <1>5 DEF FrontNext

\* When the interrupt cannot run beside the response thread there is no such race:
\* the thread is always woken.
THEOREM ResponseThreadWoken ==
  ASSUME FrontSmp = FALSE PROVE Spec => []ResponseThreadNotStranded
<1>1. Init => OutOfTheWay
  BY DEF Init, FrontInit, OutOfTheWay
<1>2. OutOfTheWay /\ Next => OutOfTheWay'
  BY FrontStepOutOfTheWay DEF Next, OutOfTheWay, frontVars, fctlVars
<1>3. OutOfTheWay /\ UNCHANGED vars => OutOfTheWay'
  BY DEF OutOfTheWay, vars, frontVars, fctlVars
<1>4. OutOfTheWay => ~FrontRace
  BY DEF OutOfTheWay, FrontRace
<1> QED BY <1>1, <1>2, <1>3, <1>4, ResponseThreadWokenUnlessRace, PTL DEF Spec

-----------------------------------------------------------------------------
(* Distances between indices *)

\* The distance between two indices is an index.
LEMMA MinusType ==
  ASSUME NEW a \in RING_IDX, NEW b \in RING_IDX
  PROVE  Minus(a, b) \in RING_IDX /\ Minus(a, a) = 0 /\ Minus(0, 0) = 0
  BY RingAssumption, SMT DEF Minus, RING_IDX

\* One index further, unless it has gone all the way round.
LEMMA MinusSucc ==
  ASSUME NEW a \in RING_IDX, NEW b \in RING_IDX, Minus(a, b) < IdxSpan - 1
  PROVE  Minus(Succ(a), b) = Minus(a, b) + 1
  BY RingAssumption, SMT DEF Minus, Succ, RING_IDX

\* Moving the origin forward to b.
LEMMA MinusShift ==
  ASSUME NEW a \in RING_IDX, NEW b \in RING_IDX, NEW x \in RING_IDX,
         Minus(b, a) <= Minus(x, a)
  PROVE  Minus(x, b) = Minus(x, a) - Minus(b, a)
  BY RingAssumption, SMT DEF Minus, RING_IDX

\* An index is determined by its distance.
LEMMA MinusInjective ==
  ASSUME NEW a \in RING_IDX, NEW x \in RING_IDX, NEW y \in RING_IDX,
         Minus(x, a) = Minus(y, a)
  PROVE  x = y
  BY RingAssumption, SMT DEF Minus, RING_IDX

-----------------------------------------------------------------------------
(* The indices stay in order *)

\* Distance from rsp_cons, the oldest index of all.
Dist(x) == Minus(x, rsp_cons)

\* The order of the indices, with the local copies each side works on; the
\* requests being served are as many as the indices between the two ends of
\* the back end, which is why a response finds room.
FrontOrder ==
  fpc \in {"drain", "consume"} => Dist(f_i) <= Dist(f_rp) /\ Dist(f_rp) <= Dist(rsp_prod)
BackOrder ==
  bpc \in {"fetch", "dispatch"} => Dist(req_cons) <= Dist(b_rp) /\ Dist(b_rp) <= Dist(req_prod)
PageOrder ==
  /\ Dist(rsp_prod) <= Dist(req_cons)
  /\ Dist(req_cons) <= Dist(req_prod)
  /\ Dist(req_prod) <= Dist(req_prod_pvt)
  /\ Dist(req_prod_pvt) <= RingSize
ServiceCount ==
  /\ rsp_prod = rsp_prod_pvt
  /\ Cardinality(InService) = Minus(req_cons, rsp_prod)

RingInv == FrontOrder /\ BackOrder /\ PageOrder /\ ServiceCount

LEMMA RingInit == Init => RingInv
<1> SUFFICES ASSUME Init PROVE RingInv
  OBVIOUS
<1>1. Minus(0, 0) = 0 /\ 0 <= RingSize
  BY RingAssumption, SMT DEF Minus
<1>2. InService = {}
  BY DEF Init, BackInit, InService
<1>3. Cardinality(InService) = 0
  BY <1>2, FS_EmptySet
<1> QED BY <1>1, <1>3 DEF Init, SharedInit, FrontInit, BackInit, RingInv, FrontOrder, BackOrder,
                          PageOrder, ServiceCount, Dist

\* Storing rsp_cons moves the origin, and all the distances with it.
LEMMA OriginMoves ==
  ASSUME TypeInv, RingInv, fpc \in {"drain", "consume"}, f_i = f_rp,
         rsp_cons' = f_i, fpc' \notin {"drain", "consume"},
         UNCHANGED <<req_prod, rsp_prod, req_prod_pvt, backVars>>
  PROVE  RingInv'
<1> USE DEF TypeInv, TypeOK, SharedTypeOK, FrontTypeOK, BackTypeOK
<1> DEFINE New(x) == Minus(x, f_i)
<1>1. \A x \in RING_IDX : Dist(f_i) <= Dist(x) => New(x) = Dist(x) - Dist(f_i)
  BY MinusShift DEF Dist
<1>2. \A x \in RING_IDX : Dist(x) \in Int /\ Dist(x) >= 0
  BY MinusType, RingAssumption DEF Dist, RING_IDX
<1>3. Dist(f_i) <= Dist(rsp_prod) /\ Dist(rsp_prod) <= Dist(req_cons)
      /\ Dist(req_cons) <= Dist(req_prod) /\ Dist(req_prod) <= Dist(req_prod_pvt)
  BY DEF RingInv, FrontOrder, PageOrder
<1> HIDE DEF New
<1>4. PageOrder'
  <2>1. /\ New(rsp_prod) = Dist(rsp_prod) - Dist(f_i)
        /\ New(req_cons) = Dist(req_cons) - Dist(f_i)
        /\ New(req_prod) = Dist(req_prod) - Dist(f_i)
        /\ New(req_prod_pvt) = Dist(req_prod_pvt) - Dist(f_i)
    <3>1. /\ rsp_prod \in RING_IDX /\ req_cons \in RING_IDX /\ req_prod \in RING_IDX
          /\ req_prod_pvt \in RING_IDX /\ f_i \in RING_IDX
      OBVIOUS
    <3> HIDE DEF TypeInv
    <3>2. /\ Dist(f_i) <= Dist(rsp_prod) /\ Dist(f_i) <= Dist(req_cons)
          /\ Dist(f_i) <= Dist(req_prod) /\ Dist(f_i) <= Dist(req_prod_pvt)
      <4>1. /\ Dist(rsp_prod) \in Int /\ Dist(req_cons) \in Int /\ Dist(req_prod) \in Int
            /\ Dist(req_prod_pvt) \in Int /\ Dist(f_i) \in Int
        BY <1>2, <3>1
      <4> QED BY <4>1, <1>3
    <3> QED BY <1>1, <3>1, <3>2
  <2>2. /\ New(rsp_prod) <= New(req_cons) /\ New(req_cons) <= New(req_prod)
        /\ New(req_prod) <= New(req_prod_pvt) /\ New(req_prod_pvt) <= RingSize
    <3>1. /\ Dist(rsp_prod) \in Int /\ Dist(req_cons) \in Int /\ Dist(req_prod) \in Int
          /\ Dist(req_prod_pvt) \in Int /\ Dist(f_i) \in Int /\ Dist(f_i) >= 0
      BY <1>2
    <3>2. Dist(req_prod_pvt) <= RingSize
      BY DEF RingInv, PageOrder
    <3> HIDE DEF TypeInv
    <3> QED BY <2>1, <1>3, <3>1, <3>2, RingAssumption
  <2>3. /\ rsp_prod' = rsp_prod /\ req_prod' = req_prod /\ req_prod_pvt' = req_prod_pvt
        /\ req_cons' = req_cons /\ rsp_cons' = f_i
    BY DEF backVars, bidxVars
  <2> QED BY <2>2, <2>3, Zenon DEF PageOrder, Dist, New
<1>5. BackOrder'
  <2>1. CASE bpc \in {"fetch", "dispatch"}
    <3>1. Dist(req_cons) <= Dist(b_rp) /\ Dist(b_rp) <= Dist(req_prod)
      BY <2>1 DEF RingInv, BackOrder
    <3>2. /\ New(req_cons) = Dist(req_cons) - Dist(f_i)
          /\ New(b_rp) = Dist(b_rp) - Dist(f_i)
          /\ New(req_prod) = Dist(req_prod) - Dist(f_i)
      <4>1. /\ req_cons \in RING_IDX /\ b_rp \in RING_IDX /\ req_prod \in RING_IDX
            /\ rsp_prod \in RING_IDX /\ f_i \in RING_IDX
        OBVIOUS
      <4> HIDE DEF TypeInv
      <4>2. /\ Dist(f_i) \in Int /\ Dist(rsp_prod) \in Int /\ Dist(req_cons) \in Int
            /\ Dist(b_rp) \in Int /\ Dist(req_prod) \in Int
        BY <1>2, <4>1
      <4>3. /\ Dist(f_i) <= Dist(req_cons) /\ Dist(f_i) <= Dist(b_rp)
            /\ Dist(f_i) <= Dist(req_prod)
        BY <1>3, <3>1, <4>2
      <4> QED BY <1>1, <4>1, <4>3
    <3>3. New(req_cons) <= New(b_rp) /\ New(b_rp) <= New(req_prod)
      <4>1. /\ req_cons \in RING_IDX /\ b_rp \in RING_IDX /\ req_prod \in RING_IDX
            /\ f_i \in RING_IDX
        OBVIOUS
      <4> HIDE DEF TypeInv
      <4>2. /\ Dist(f_i) \in Int /\ Dist(req_cons) \in Int
            /\ Dist(b_rp) \in Int /\ Dist(req_prod) \in Int
        BY <1>2, <4>1
      <4> QED BY <3>1, <3>2, <4>2
    <3> QED BY <3>3 DEF BackOrder, Dist, New, backVars, bidxVars, bctlVars
  <2>2. CASE bpc \notin {"fetch", "dispatch"}
    BY <2>2 DEF BackOrder, backVars, bctlVars
  <2> QED BY <2>1, <2>2
<1>6. FrontOrder'
  BY DEF FrontOrder
<1>7. ServiceCount'
  BY DEF RingInv, ServiceCount, InService, backVars, bidxVars
<1> QED BY <1>4, <1>5, <1>6, <1>7 DEF RingInv

\* Steps of the front end that touch no index and enter no loop over responses.
FrontStill ==
  /\ UNCHANGED <<req_prod, rsp_prod, req_prod_pvt, rsp_cons>>
  /\ fpc' \notin {"drain", "consume"} \/ UNCHANGED <<fpc, f_rp, f_i>>

LEMMA FrontStillRing ==
  ASSUME RingInv, FrontStill, UNCHANGED backVars
  PROVE  RingInv'
<1>1. PageOrder' /\ BackOrder' /\ ServiceCount'
  BY DEF RingInv, FrontStill, PageOrder, BackOrder, ServiceCount, InService, Dist, backVars,
         bidxVars, bctlVars
<1>2. FrontOrder'
  BY DEF RingInv, FrontStill, FrontOrder, Dist
<1> QED BY <1>1, <1>2 DEF RingInv

\* Reading rsp_prod at the start of a loop over the responses.
LEMMA FrontReadsRing ==
  ASSUME TypeInv, RingInv, f_rp' = rsp_prod, f_i' = rsp_cons,
         UNCHANGED <<req_prod, rsp_prod, req_prod_pvt, rsp_cons, backVars>>
  PROVE  RingInv'
<1>1. Dist(rsp_cons) = 0 /\ Dist(rsp_prod) \in Nat
  BY MinusType, RingAssumption
     DEF Dist, RING_IDX, TypeInv, TypeOK, SharedTypeOK, FrontTypeOK
<1>2. PageOrder' /\ BackOrder' /\ ServiceCount'
  BY DEF RingInv, PageOrder, BackOrder, ServiceCount, InService, Dist, backVars, bidxVars, bctlVars
<1>3. FrontOrder'
  BY <1>1 DEF FrontOrder, Dist
<1> QED BY <1>2, <1>3 DEF RingInv

\* Handling one response.
LEMMA FrontAdvancesRing ==
  ASSUME TypeInv, RingInv, fpc \in {"drain", "consume"}, f_i # f_rp, f_i' = Succ(f_i),
         UNCHANGED <<fpc, f_rp, req_prod, rsp_prod, req_prod_pvt, rsp_cons, backVars>>
  PROVE  RingInv'
<1>1. /\ f_i \in RING_IDX /\ f_rp \in RING_IDX /\ rsp_cons \in RING_IDX
      /\ Dist(f_i) \in RING_IDX /\ Dist(f_rp) \in RING_IDX
  BY MinusType DEF Dist, TypeInv, TypeOK, FrontTypeOK
<1>2. Dist(f_i) <= Dist(f_rp) /\ Dist(f_rp) <= Dist(rsp_prod)
  BY DEF RingInv, FrontOrder
<1>3. Dist(f_i) # Dist(f_rp)
  BY <1>1, MinusInjective DEF Dist
<1>4. Dist(f_i) < Dist(f_rp) /\ Dist(f_i) < IdxSpan - 1 /\ Dist(f_i) + 1 <= Dist(f_rp)
  BY <1>1, <1>2, <1>3, RingAssumption DEF RING_IDX
<1>5. Minus(Succ(f_i), rsp_cons) = Dist(f_i) + 1
  BY <1>1, <1>4, MinusSucc DEF Dist
<1>6. FrontOrder'
  BY <1>2, <1>4, <1>5 DEF FrontOrder, Dist
<1>7. PageOrder' /\ BackOrder' /\ ServiceCount'
  BY DEF RingInv, PageOrder, BackOrder, ServiceCount, InService, Dist, backVars, bidxVars, bctlVars
<1> QED BY <1>6, <1>7 DEF RingInv

LEMMA FrontStepRing ==
  ASSUME TypeInv, RingInv, FrontNext, UNCHANGED backVars
  PROVE  RingInv'
<1> USE DEF At, Goto, fblkVars, fshadowVars, fidxVars, fctlVars, sringVars, evtVars
<1>1. ASSUME NEW r \in Request, Submit(r) PROVE FrontStill
  BY <1>1 DEF Submit, FrontStill
<1>2. CASE RunQueue \/ PeekEmpty \/ PeekFull \/ PeekNonFs \/ QueueRequestFails
  <2>1. FrontStill
    BY <1>2 DEF RunQueue, PeekEmpty, PeekFull, PeekNonFs, QueueRequestFails, ReturnToCaller,
                FrontStill
  <2> QED BY <2>1, FrontStillRing
<1>3. CASE NotifyBack \/ PollGivesUp \/ ThreadSleep \/ ThreadLock
  <2>1. FrontStill
    BY <1>3 DEF NotifyBack, PollGivesUp, ThreadSleep, ThreadLock, FrontStill
  <2> QED BY <2>1, FrontStillRing
<1>4. CASE KickFull \/ KickQueue \/ ThreadSpin \/ ThreadMarkSleeping \/ ThreadClearWaiting
           \/ ThreadRecheck \/ FrontIrq
  <2>1. FrontStill
    BY <1>4 DEF KickFull, KickQueue, ThreadSpin, ThreadMarkSleeping, ThreadClearWaiting,
                ThreadRecheck, ThreadUnlock, FrontIrq, FrontIrqFlag, FrontIrqWake, FrontIrqDone,
                FrontStill
  <2> QED BY <2>1, FrontStillRing
<1>5. CASE PollFound \/ ThreadRead
  <2>1. /\ f_rp' = rsp_prod /\ f_i' = rsp_cons
        /\ UNCHANGED <<req_prod, rsp_prod, req_prod_pvt, rsp_cons>>
    BY <1>5 DEF PollFound, ThreadRead
  <2> QED BY <2>1, FrontReadsRing
<1>6. CASE DrainOne \/ ConsumeOne
  <2>1. /\ fpc \in {"drain", "consume"} /\ f_i # f_rp /\ f_i' = Succ(f_i)
        /\ UNCHANGED <<fpc, f_rp, req_prod, rsp_prod, req_prod_pvt, rsp_cons>>
    BY <1>6 DEF DrainOne, ConsumeOne
  <2> QED BY <2>1, FrontAdvancesRing
<1>7. CASE DrainDone \/ ConsumeDone
  <2>1. /\ fpc \in {"drain", "consume"} /\ f_i = f_rp /\ rsp_cons' = f_i
        /\ fpc' \notin {"drain", "consume"}
        /\ UNCHANGED <<req_prod, rsp_prod, req_prod_pvt>>
    BY <1>7 DEF DrainDone, ConsumeDone
  <2> QED BY <2>1, OriginMoves
<1>8. CASE PushRequests
  <2>1. /\ req_prod' = req_prod_pvt /\ fpc' = "notify"
        /\ UNCHANGED <<rsp_prod, req_prod_pvt, rsp_cons>>
    BY <1>8 DEF PushRequests
  <2>2. /\ Dist(req_prod) \in Int /\ Dist(req_prod_pvt) \in Int /\ Dist(req_cons) \in Int
        /\ Dist(b_rp) \in Int
    BY MinusType DEF Dist, RING_IDX, TypeInv, TypeOK, SharedTypeOK, FrontTypeOK, BackTypeOK
  <2>3. PageOrder' /\ FrontOrder'
    BY <2>1, <2>2 DEF RingInv, PageOrder, FrontOrder, Dist, backVars, bidxVars
  <2>4. BackOrder'
    BY <2>1, <2>2 DEF RingInv, BackOrder, PageOrder, Dist, backVars, bidxVars, bctlVars
  <2>5. ServiceCount'
    BY <2>1 DEF RingInv, ServiceCount, InService, backVars, bidxVars
  <2> QED BY <2>3, <2>4, <2>5 DEF RingInv
<1>9. CASE QueueRequest
  <2>1. /\ ~RING_FULL(req_prod_pvt, rsp_cons) /\ req_prod_pvt' = Succ(req_prod_pvt)
        /\ fpc' = "push" /\ UNCHANGED <<req_prod, rsp_prod, rsp_cons>>
    BY <1>9 DEF QueueRequest
  <2>2. /\ req_prod_pvt \in RING_IDX /\ rsp_cons \in RING_IDX
        /\ Dist(req_prod_pvt) \in RING_IDX /\ Dist(req_prod) \in RING_IDX
    BY MinusType DEF Dist, TypeInv, TypeOK, SharedTypeOK, FrontTypeOK
  <2>3. Dist(req_prod_pvt) <= RingSize /\ Dist(req_prod) <= Dist(req_prod_pvt)
    BY DEF RingInv, PageOrder
  <2>4. Dist(req_prod_pvt) # RingSize
    BY <2>1, RingAssumption DEF RING_FULL, RING_FREE_REQUESTS, Minus, Dist
  <2>5. Dist(req_prod_pvt) < IdxSpan - 1 /\ Dist(req_prod_pvt) + 1 <= RingSize
        /\ Dist(req_prod) <= Dist(req_prod_pvt) + 1
    BY <2>2, <2>3, <2>4, RingAssumption DEF RING_IDX
  <2>6. Minus(Succ(req_prod_pvt), rsp_cons) = Dist(req_prod_pvt) + 1
    BY <2>2, <2>5, MinusSucc DEF Dist
  <2>7. PageOrder'
    BY <2>1, <2>5, <2>6 DEF RingInv, PageOrder, Dist, backVars, bidxVars
  <2>8. BackOrder' /\ ServiceCount' /\ FrontOrder'
    BY <2>1 DEF RingInv, BackOrder, ServiceCount, FrontOrder, InService, Dist, backVars, bidxVars,
                bctlVars
  <2> QED BY <2>7, <2>8 DEF RingInv
<1> QED BY <1>1, <1>2, <1>3, <1>4, <1>5, <1>6, <1>7, <1>8, <1>9, FrontStillRing
         DEF FrontNext, DoIddRequest, ResponseThread

\* Steps of the back end that touch no index and claim or answer no request.
BackStill ==
  /\ UNCHANGED <<req_prod, rsp_prod, rsp_prod_pvt, req_cons>>
  /\ InService' = InService
  /\ bpc' \notin {"fetch", "dispatch"} \/ (bpc \in {"fetch", "dispatch"} /\ b_rp' = b_rp)

LEMMA BackStillRing ==
  ASSUME RingInv, BackStill, UNCHANGED frontVars
  PROVE  RingInv'
<1> USE DEF frontVars, fidxVars, fctlVars, Dist
<1>1. PageOrder' /\ FrontOrder' /\ ServiceCount'
  BY DEF RingInv, BackStill, PageOrder, FrontOrder, ServiceCount
<1>2. BackOrder'
  BY DEF RingInv, BackStill, BackOrder
<1> QED BY <1>1, <1>2 DEF RingInv

LEMMA InServiceFinite == IsFiniteSet(InService)
<1>1. InService \in SUBSET Pending
  BY DEF InService
<1> QED BY <1>1, FS_Subset, BackAssumption

\* A request is claimed while the ring holds one that has not been read.
LEMMA ClaimRing ==
  ASSUME TypeInv, RingInv, NEW p \in Pending, Claim(p), UNCHANGED frontVars
  PROVE  RingInv'
<1> USE DEF frontVars, fidxVars, fctlVars, Dist, sringVars
<1>1. /\ bpc = "fetch" /\ req_cons # b_rp /\ stage[p] = "free"
      /\ stage' = [stage EXCEPT ![p] = "claimed"] /\ req_cons' = Succ(req_cons)
      /\ UNCHANGED <<rsp_prod_pvt, b_rp, req_prod, rsp_prod>>
  BY DEF Claim, BackAt, Takeable, Pool
<1>2. /\ req_cons \in RING_IDX /\ b_rp \in RING_IDX /\ rsp_cons \in RING_IDX
      /\ rsp_prod \in RING_IDX /\ Dist(req_cons) \in RING_IDX /\ Dist(b_rp) \in RING_IDX
      /\ Dist(rsp_prod) \in RING_IDX /\ Dist(req_prod) \in RING_IDX
      /\ Minus(req_cons, rsp_prod) \in RING_IDX
  BY MinusType DEF TypeInv, TypeOK, SharedTypeOK, FrontTypeOK, BackTypeOK
<1>3. /\ Dist(req_cons) <= Dist(b_rp) /\ Dist(b_rp) <= Dist(req_prod)
      /\ Dist(rsp_prod) <= Dist(req_cons)
  BY <1>1 DEF RingInv, BackOrder, PageOrder
<1>4. Dist(req_cons) # Dist(b_rp)
  BY <1>1, <1>2, MinusInjective
<1>5. /\ Dist(req_cons) < IdxSpan - 1 /\ Dist(req_cons) + 1 <= Dist(b_rp)
      /\ Dist(req_cons) + 1 <= Dist(req_prod) /\ Dist(rsp_prod) <= Dist(req_cons) + 1
  <2> HIDE DEF Dist
  <2> QED BY <1>2, <1>3, <1>4, RingAssumption DEF RING_IDX
<1>6. Minus(Succ(req_cons), rsp_cons) = Dist(req_cons) + 1
  BY <1>2, <1>5, MinusSucc
<1>7. PageOrder' /\ BackOrder' /\ FrontOrder'
  BY <1>1, <1>3, <1>5, <1>6 DEF RingInv, PageOrder, BackOrder, FrontOrder
<1>8. ServiceCount'
  <2>2. InService' = InService \cup {p} /\ p \notin InService
    BY <1>1 DEF InService, TypeInv, TypeOK, BackTypeOK
  <2>3. Cardinality(InService') = Cardinality(InService) + 1
    BY <2>2, InServiceFinite, FS_AddElement
  <2>4. Minus(req_cons, rsp_prod) = Dist(req_cons) - Dist(rsp_prod)
    BY <1>2, <1>3, MinusShift
  <2>5. Minus(req_cons, rsp_prod) < IdxSpan - 1
    <3> HIDE DEF Dist
    <3> QED BY <2>4, <1>2, <1>5, RingAssumption DEF RING_IDX
  <2>6. Minus(Succ(req_cons), rsp_prod) = Minus(req_cons, rsp_prod) + 1
    BY <1>2, <2>5, MinusSucc
  <2> QED BY <1>1, <2>3, <2>6 DEF RingInv, ServiceCount
<1> QED BY <1>7, <1>8 DEF RingInv

\* A response is published for a request being served, so there is one to
\* answer: rsp_prod stays behind req_cons.
LEMMA RespondRing ==
  ASSUME TypeInv, RingInv, NEW p \in Pending, Respond(p), UNCHANGED frontVars
  PROVE  RingInv'
<1> USE DEF frontVars, fidxVars, fctlVars, Dist
<1>1. /\ stage[p] = "respond" /\ stage' = [stage EXCEPT ![p] = "notify"]
      /\ rsp_prod_pvt' = Succ(rsp_prod_pvt) /\ rsp_prod' = Succ(rsp_prod_pvt)
      /\ UNCHANGED <<req_cons, bctlVars, req_prod>>
  BY DEF Respond
<1>2. /\ req_cons \in RING_IDX /\ rsp_cons \in RING_IDX /\ rsp_prod \in RING_IDX
      /\ Dist(req_cons) \in RING_IDX /\ Dist(rsp_prod) \in RING_IDX /\ Dist(f_rp) \in RING_IDX
  BY MinusType DEF TypeInv, TypeOK, SharedTypeOK, FrontTypeOK, BackTypeOK
<1>3. /\ rsp_prod_pvt = rsp_prod /\ Dist(rsp_prod) <= Dist(req_cons)
      /\ Cardinality(InService) = Minus(req_cons, rsp_prod)
      /\ Minus(req_cons, rsp_prod) = Dist(req_cons) - Dist(rsp_prod)
  BY <1>2, MinusShift DEF RingInv, ServiceCount, PageOrder
<1>4. InService' = InService \ {p} /\ p \in InService
  BY <1>1 DEF InService, TypeInv, TypeOK, BackTypeOK
<1>5. /\ Cardinality(InService') = Cardinality(InService) - 1
      /\ Cardinality(InService) \in Nat /\ Cardinality(InService) # 0
  BY <1>4, InServiceFinite, FS_RemoveElement, FS_CardinalityType, FS_EmptySet
<1>6. /\ Dist(rsp_prod) + 1 <= Dist(req_cons) /\ Dist(rsp_prod) < IdxSpan - 1
      /\ \A n \in RING_IDX : n <= Dist(rsp_prod) => n <= Dist(rsp_prod) + 1
  <2> HIDE DEF Dist
  <2> QED BY <1>2, <1>3, <1>5, RingAssumption DEF RING_IDX
<1>7. Minus(Succ(rsp_prod), rsp_cons) = Dist(rsp_prod) + 1
  BY <1>2, <1>6, MinusSucc
<1>8. PageOrder' /\ FrontOrder'
  BY <1>1, <1>2, <1>3, <1>6, <1>7 DEF RingInv, PageOrder, FrontOrder
<1>9. BackOrder'
  BY <1>1 DEF RingInv, BackOrder, bctlVars
<1>10. ServiceCount'
  <2>1. Succ(rsp_prod) \in RING_IDX
    BY <1>2, SuccType
  <2>2. Minus(req_cons, Succ(rsp_prod)) = Dist(req_cons) - (Dist(rsp_prod) + 1)
    BY <1>2, <1>6, <1>7, <2>1, MinusShift
  <2>3. Minus(req_cons, Succ(rsp_prod)) = Cardinality(InService) - 1
    <3> HIDE DEF Dist
    <3> QED BY <2>2, <1>2, <1>3 DEF RING_IDX
  <2> QED BY <1>1, <1>3, <1>5, <2>3 DEF ServiceCount
<1> QED BY <1>8, <1>9, <1>10 DEF RingInv

LEMMA BackStepRing ==
  ASSUME TypeInv, RingInv, BackNext, UNCHANGED frontVars
  PROVE  RingInv'
<1> USE DEF BackAt, BackGoto, bidxVars, bctlVars, sringVars, evtVars
<1>1. CASE \/ BackWait \/ BackLook \/ BatchEnd \/ AllocFails \/ RejectDone \/ BatchFinalCheck
           \/ BackSpin \/ BackMarkSleeping \/ BackClearWaiting \/ BackRecheck \/ BackIrq
  <2>1. /\ UNCHANGED <<req_prod, rsp_prod, rsp_prod_pvt, req_cons, stage>>
        /\ bpc' \notin {"fetch", "dispatch"} \/ UNCHANGED <<bpc, b_rp>>
    BY <1>1 DEF BackWait, BackLook, BatchEnd, AllocFails, RejectDone, BatchFinalCheck, BackSpin,
         BackMarkSleeping, BackClearWaiting, BackRecheck, BackIrq, BackIrqFlag, BackIrqWake,
         BackIrqDone
  <2>2. InService' = InService
    BY <2>1 DEF InService
  <2>3. bpc' \notin {"fetch", "dispatch"} \/ (bpc \in {"fetch", "dispatch"} /\ b_rp' = b_rp)
    BY <2>1
  <2>4. BackStill
    BY <2>1, <2>2, <2>3 DEF BackStill
  <2> QED BY <2>4, BackStillRing
<1>2. CASE BatchStart
  <2>1. /\ b_rp' = req_prod /\ UNCHANGED <<req_prod, rsp_prod, rsp_prod_pvt, req_cons, stage>>
    BY <1>2 DEF BatchStart
  <2>2. Dist(req_prod) \in Int
    BY MinusType DEF Dist, RING_IDX, TypeInv, TypeOK, SharedTypeOK, FrontTypeOK
  <2>3. PageOrder' /\ FrontOrder' /\ ServiceCount'
    BY <2>1 DEF RingInv, PageOrder, FrontOrder, ServiceCount, InService, Dist, frontVars, fidxVars,
                fctlVars
  <2>4. BackOrder'
    BY <2>1, <2>2 DEF RingInv, PageOrder, BackOrder, Dist, frontVars, fidxVars
  <2> QED BY <2>3, <2>4 DEF RingInv
<1>3. CASE DispatchRejects \/ DispatchNoBio \/ \E n \in 1 .. MaxBios : Dispatch(n)
  <2>1. bpc = "dispatch" /\ cur \in Pending /\ stage[cur] = "claimed"
    BY <1>3 DEF DispatchRejects, DispatchNoBio, Dispatch, TypeInv, PendingInv
  <2>2. \E to \in {"io", "respond"} : stage' = [stage EXCEPT ![cur] = to]
    BY <1>3 DEF DispatchRejects, DispatchNoBio, Dispatch
  <2>3. /\ UNCHANGED <<req_prod, rsp_prod, rsp_prod_pvt, req_cons>>
        /\ bpc' \notin {"fetch", "dispatch"} \/ b_rp' = b_rp
    BY <1>3 DEF DispatchRejects, DispatchNoBio, Dispatch
  <2>4. InService' = InService
    BY <2>1, <2>2 DEF InService, TypeInv, TypeOK, BackTypeOK
  <2>5. bpc' \notin {"fetch", "dispatch"} \/ (bpc \in {"fetch", "dispatch"} /\ b_rp' = b_rp)
    BY <2>1, <2>3
  <2>6. BackStill
    BY <2>3, <2>4, <2>5 DEF BackStill
  <2> QED BY <2>6, BackStillRing
<1>4. ASSUME NEW p \in Pending, NEW err \in {0, -1}, EndBio(p, err) PROVE RingInv'
  <2>1. /\ stage[p] = "io"
        /\ \E to \in {"io", "respond"} : stage' = [stage EXCEPT ![p] = to]
        /\ UNCHANGED <<req_prod, rsp_prod, rsp_prod_pvt, req_cons, bpc, b_rp>>
    BY <1>4 DEF EndBio
  <2>2. InService' = InService
    BY <2>1 DEF InService, TypeInv, TypeOK, BackTypeOK
  <2>3. BackStill
    BY <2>1, <2>2 DEF BackStill
  <2> QED BY <2>3, BackStillRing
<1>5. ASSUME NEW p \in Pending, NotifyFront(p) \/ Release(p) PROVE RingInv'
  <2>1. /\ stage[p] \in {"notify", "release"}
        /\ \E to \in {"release", "free"} : stage' = [stage EXCEPT ![p] = to]
        /\ UNCHANGED <<req_prod, rsp_prod, rsp_prod_pvt, req_cons, bpc, b_rp>>
    BY <1>5 DEF NotifyFront, Release
  <2>2. InService' = InService
    BY <2>1 DEF InService, TypeInv, TypeOK, BackTypeOK
  <2>3. BackStill
    BY <2>1, <2>2 DEF BackStill
  <2> QED BY <2>3, BackStillRing
<1> QED BY <1>1, <1>2, <1>3, <1>4, <1>5, ClaimRing, RespondRing
         DEF BackNext, RequestThread, DoBlockIoOp

LEMMA RingInvariant == Spec => []RingInv
<1>1. TypeInv /\ RingInv /\ Next => RingInv'
  BY FrontStepRing, BackStepRing DEF Next
<1>2. RingInv /\ UNCHANGED vars => RingInv'
  BY DEF vars, frontVars, backVars, fidxVars, fctlVars, sringVars, bidxVars, bctlVars, RingInv,
         FrontOrder, BackOrder, PageOrder, ServiceCount, InService, Dist
<1> QED BY <1>1, <1>2, RingInit, TypeInvariant, PTL DEF Spec

\* The indices of the two domains never overtake each other, and there are
\* never more than RingSize requests on their way, for every ring size, every
\* width of the index and every interleaving.
THEOREM IndicesInOrder == Spec => []RingOrder
<1>1. TypeInv /\ RingInv => RingOrder
  <2> SUFFICES ASSUME TypeInv, RingInv PROVE RingOrder
    OBVIOUS
  <2>0. rsp_cons \in RING_IDX /\ rsp_prod \in RING_IDX /\ f_i \in RING_IDX /\ f_rp \in RING_IDX
    BY DEF TypeInv, TypeOK, SharedTypeOK, FrontTypeOK
  <2>1. /\ Dist(rsp_cons) = 0 /\ Dist(rsp_prod) \in RING_IDX
        /\ Dist(f_i) \in RING_IDX /\ Dist(f_rp) \in RING_IDX
    BY <2>0, MinusType DEF Dist
  <2>2. Dist(RspNext) <= Dist(rsp_prod)
    BY <2>1, RingAssumption DEF RspNext, RingInv, FrontOrder, RING_IDX
  <2> QED BY <2>2 DEF RingOrder, RingInv, PageOrder, ServiceCount, Dist
<1> QED BY <1>1, RingInvariant, TypeInvariant, PTL

-----------------------------------------------------------------------------
(* What is published stays *)

\* A positive number is not a multiple of a larger one.
LEMMA NoMultiple ==
  ASSUME NEW n \in Nat \ {0}, NEW t \in Int, n * t < n, n * t > -n
  PROVE  t = 0
<1>1. CASE t >= 1
  <2>1. n * t >= n
    BY <1>1, Z3
  <2> QED BY <2>1
<1>2. CASE t <= -1
  <2>1. n * t <= -n
    BY <1>2, Z3
  <2> QED BY <2>1
<1> QED BY <1>1, <1>2

\* Division with remainder.
LEMMA Division ==
  ASSUME NEW a \in Nat, NEW n \in Nat \ {0}
  PROVE  \E q \in Int : a = (n * q) + (a % n)
<1>1. a \div n \in Int /\ a = (n * (a \div n)) + (a % n)
  BY Z3
<1> QED BY <1>1

\* Within one ring's length different indices have different slots, also
\* across the wrap: RingSize divides IdxSpan.
LEMMA SlotsApart ==
  ASSUME NEW a \in RING_IDX, NEW x \in RING_IDX, NEW y \in RING_IDX, x # y,
         Minus(x, a) < RingSize, Minus(y, a) < RingSize
  PROVE  SlotOf(x) # SlotOf(y)
<1> SUFFICES ASSUME SlotOf(x) = SlotOf(y) PROVE FALSE
  OBVIOUS
<1>1. RingSize \in Nat \ {0} /\ IdxSpan \in Nat /\ x \in Nat /\ y \in Nat
  BY RingAssumption DEF RING_IDX
<1>2. PICK qx \in Int : x = (RingSize * qx) + (x % RingSize)
  BY <1>1, Division
<1>3. PICK qy \in Int : y = (RingSize * qy) + (y % RingSize)
  BY <1>1, Division
<1>4. PICK k \in Int : IdxSpan = RingSize * k
  <2>1. \E k \in Int : IdxSpan = (RingSize * k) + (IdxSpan % RingSize)
    BY <1>1, Division
  <2> QED BY <2>1, <1>1, RingAssumption
<1>5. x % RingSize = y % RingSize /\ x % RingSize \in Int
  BY <1>1 DEF SlotOf
<1>6. x - y = RingSize * (qx - qy)
  BY <1>1, <1>2, <1>3, <1>5, Z3
<1> DEFINE d == Minus(x, a) - Minus(y, a)
<1>7. d # 0
  BY MinusInjective, MinusType DEF RING_IDX
<1>8. d \in Int /\ d < RingSize /\ d > -RingSize
  <2>1. Minus(x, a) \in Nat /\ Minus(y, a) \in Nat
    BY MinusType DEF RING_IDX
  <2> QED BY <2>1, <1>1
<1>9. d = x - y \/ d = x - y + IdxSpan \/ d = x - y - IdxSpan
  BY RingAssumption DEF Minus, RING_IDX
<1> HIDE DEF d
<1>10. \E t \in Int : d = RingSize * t
  <2>1. CASE d = x - y
    BY <2>1, <1>6
  <2>2. CASE d = x - y + IdxSpan
    <3>1. d = RingSize * (qx - qy + k)
      BY <2>2, <1>1, <1>4, <1>6, Z3
    <3> QED BY <3>1
  <2>3. CASE d = x - y - IdxSpan
    <3>1. d = RingSize * (qx - qy - k)
      BY <2>3, <1>1, <1>4, <1>6, Z3
    <3> QED BY <3>1
  <2> QED BY <2>1, <2>2, <2>3, <1>9
<1>11. PICK t \in Int : d = RingSize * t
  BY <1>10
<1>12. t = 0
  BY <1>1, <1>8, <1>11, NoMultiple
<1> QED BY <1>1, <1>7, <1>11, <1>12, Z3

\* What lies between two indices lies between their distances.
LEMMA RangeDist ==
  ASSUME NEW o \in RING_IDX, NEW a \in RING_IDX, NEW b \in RING_IDX,
         NEW x \in IdxRange(a, b), Minus(a, o) <= Minus(b, o)
  PROVE  Minus(a, o) <= Minus(x, o) /\ Minus(x, o) < Minus(b, o)
  BY RingAssumption, SMT DEF Minus, RING_IDX, IdxRange

\* The slot of an index outside a range of published messages is none of theirs.
LEMMA SlotOutside ==
  ASSUME NEW o \in RING_IDX, NEW a \in RING_IDX, NEW b \in RING_IDX, NEW w \in RING_IDX,
         Minus(a, o) <= Minus(b, o), Minus(b, o) <= RingSize, Minus(w, o) < RingSize,
         Minus(w, o) < Minus(a, o) \/ Minus(b, o) <= Minus(w, o)
  PROVE  \A x \in IdxRange(a, b) : SlotOf(x) # SlotOf(w) /\ SlotOf(x) \in Slots
<1> SUFFICES ASSUME NEW x \in IdxRange(a, b)
             PROVE  SlotOf(x) # SlotOf(w) /\ SlotOf(x) \in Slots
  OBVIOUS
<1>1. x \in RING_IDX
  BY DEF IdxRange
<1>2. Minus(a, o) <= Minus(x, o) /\ Minus(x, o) < Minus(b, o)
  BY RangeDist
<1>3. /\ Minus(a, o) \in Int /\ Minus(b, o) \in Int /\ Minus(x, o) \in Int
      /\ Minus(w, o) \in Int /\ RingSize \in Int
  BY <1>1, MinusType, RingAssumption DEF RING_IDX
<1>4. x # w /\ Minus(x, o) < RingSize
  BY <1>2, <1>3
<1> QED BY <1>1, <1>4, SlotsApart, SlotType

\* The ring's slots are written by two actions only.
LEMMA RingWriters ==
  ASSUME Next
  PROVE  \/ ring' = ring
         \/ QueueRequest
         \/ \E p \in Pending : Respond(p)
<1> USE DEF sringVars
<1>1. CASE FrontNext
  BY <1>1 DEF FrontNext, DoIddRequest, ResponseThread, FrontIrq, Submit, RunQueue, PeekEmpty,
       PeekFull, PeekNonFs, QueueRequestFails, PushRequests, NotifyBack, PollGivesUp, PollFound,
       DrainOne, DrainDone, ThreadSleep, ThreadLock, ThreadRead, ConsumeOne, ConsumeDone, KickFull,
       KickQueue, ThreadSpin, ThreadMarkSleeping, ThreadClearWaiting, ThreadRecheck, FrontIrqFlag,
       FrontIrqWake, FrontIrqDone
<1>2. CASE BackNext
  BY <1>2 DEF BackNext, RequestThread, DoBlockIoOp, BackIrq, BackWait, BackLook, BatchStart,
       BatchEnd, AllocFails, Claim, Dispatch, DispatchRejects, RejectDone, DispatchNoBio,
       BatchFinalCheck, BackSpin, BackMarkSleeping, BackClearWaiting, BackRecheck, EndBio,
       NotifyFront, Release, BackIrqFlag, BackIrqWake, BackIrqDone
<1> QED BY <1>1, <1>2 DEF Next

LEMMA RingSlotsStay ==
  ASSUME TypeInv, RingInv, Next PROVE MessagesStay
<1> USE DEF Dist
<1>1. /\ req_cons \in RING_IDX /\ req_prod \in RING_IDX /\ rsp_prod \in RING_IDX
      /\ req_prod_pvt \in RING_IDX /\ RspNext \in RING_IDX /\ rsp_cons \in RING_IDX
      /\ rsp_prod_pvt \in RING_IDX /\ SharedTypeOK
      /\ Dist(f_i) \in RING_IDX /\ Dist(f_rp) \in RING_IDX
  BY MinusType DEF TypeInv, TypeOK, SharedTypeOK, FrontTypeOK, BackTypeOK, RspNext
<1>2. /\ Dist(req_cons) \in RING_IDX /\ Dist(req_prod) \in RING_IDX /\ Dist(RspNext) \in RING_IDX
      /\ Dist(rsp_prod) \in RING_IDX /\ Dist(req_prod_pvt) \in RING_IDX /\ Dist(rsp_cons) = 0
  BY <1>1, MinusType
<1>3. /\ Dist(rsp_prod) <= Dist(req_cons) /\ Dist(req_cons) <= Dist(req_prod)
      /\ Dist(req_prod) <= Dist(req_prod_pvt) /\ Dist(req_prod_pvt) <= RingSize
  BY DEF RingInv, PageOrder
<1>4. Dist(RspNext) <= Dist(rsp_prod)
  <2>1. CASE fpc \in {"drain", "consume"}
    <3>1. Dist(f_i) <= Dist(f_rp) /\ Dist(f_rp) <= Dist(rsp_prod)
      BY <2>1 DEF RingInv, FrontOrder
    <3>2. RspNext = f_i
      BY <2>1 DEF RspNext
    <3> HIDE DEF Dist
    <3> QED BY <3>1, <3>2, <1>1, <1>2, RingAssumption DEF RING_IDX
  <2>2. CASE fpc \notin {"drain", "consume"}
    BY <2>2, <1>2, RingAssumption DEF RspNext, RING_IDX
  <2> QED BY <2>1, <2>2
<1>5. Dist(rsp_prod) <= RingSize /\ Dist(req_prod) <= RingSize /\ Dist(rsp_prod) <= Dist(req_prod_pvt)
  <2> HIDE DEF Dist
  <2> QED BY <1>2, <1>3, RingAssumption DEF RING_IDX
<1>6. CASE ring' = ring
  BY <1>6 DEF MessagesStay
<1>7. CASE QueueRequest
  <2>1. /\ ring' = [ring EXCEPT ![SlotOf(req_prod_pvt)] = ReqMsg(shadow_free)]
        /\ Dist(req_prod_pvt) # RingSize
    BY <1>7, RingAssumption DEF QueueRequest, RING_FULL, RING_FREE_REQUESTS, Minus
  <2>2. Dist(req_prod_pvt) < RingSize
    <3> HIDE DEF Dist
    <3> QED BY <2>1, <1>2, <1>3, RingAssumption DEF RING_IDX
  <2>3. \A x \in IdxRange(req_cons, req_prod) : ring'[SlotOf(x)] = ring[SlotOf(x)]
    <3>1. /\ Minus(req_cons, rsp_cons) <= Minus(req_prod, rsp_cons) /\ Minus(req_prod, rsp_cons) <= RingSize
          /\ Minus(req_prod_pvt, rsp_cons) < RingSize
          /\ \/ Minus(req_prod_pvt, rsp_cons) < Minus(req_cons, rsp_cons)
             \/ Minus(req_prod, rsp_cons) <= Minus(req_prod_pvt, rsp_cons)
      BY <1>3, <1>5, <2>2
    <3>2. \A x \in IdxRange(req_cons, req_prod) :
            SlotOf(x) # SlotOf(req_prod_pvt) /\ SlotOf(x) \in Slots
      BY <1>1, <2>1, <3>1, SlotOutside
    <3> QED BY <1>1, <2>1, <3>2 DEF SharedTypeOK
  <2>4. \A x \in IdxRange(RspNext, rsp_prod) : ring'[SlotOf(x)] = ring[SlotOf(x)]
    <3>1. /\ Minus(RspNext, rsp_cons) <= Minus(rsp_prod, rsp_cons) /\ Minus(rsp_prod, rsp_cons) <= RingSize
          /\ Minus(req_prod_pvt, rsp_cons) < RingSize
          /\ \/ Minus(req_prod_pvt, rsp_cons) < Minus(RspNext, rsp_cons)
             \/ Minus(rsp_prod, rsp_cons) <= Minus(req_prod_pvt, rsp_cons)
      BY <1>4, <1>5, <2>2
    <3>2. \A x \in IdxRange(RspNext, rsp_prod) :
            SlotOf(x) # SlotOf(req_prod_pvt) /\ SlotOf(x) \in Slots
      BY <1>1, <2>1, <3>1, SlotOutside
    <3> QED BY <1>1, <2>1, <3>2 DEF SharedTypeOK
  <2> QED BY <2>3, <2>4 DEF MessagesStay
<1>8. ASSUME NEW p \in Pending, Respond(p) PROVE MessagesStay
  <2>1. /\ rsp_prod = rsp_prod_pvt /\ p \in InService
        /\ Cardinality(InService) = Minus(req_cons, rsp_prod)
        /\ ring' = [ring EXCEPT ![SlotOf(rsp_prod)] = RspMsg(pending[p].id, pending[p].status)]
    BY <1>8 DEF Respond, RingInv, ServiceCount, InService
  <2>2. Cardinality(InService) \in Nat /\ Cardinality(InService) # 0
    BY <2>1, InServiceFinite, FS_CardinalityType, FS_EmptySet
  <2>3. Minus(req_cons, rsp_prod) = Dist(req_cons) - Dist(rsp_prod)
    BY <1>1, <1>3, MinusShift
  <2>4. Dist(rsp_prod) < Dist(req_cons) /\ Dist(rsp_prod) < RingSize
    <3> HIDE DEF Dist
    <3> QED BY <2>1, <2>2, <2>3, <1>2, <1>3, RingAssumption DEF RING_IDX
  <2>5. \A x \in IdxRange(req_cons, req_prod) : ring'[SlotOf(x)] = ring[SlotOf(x)]
    <3>1. /\ Minus(req_cons, rsp_cons) <= Minus(req_prod, rsp_cons) /\ Minus(req_prod, rsp_cons) <= RingSize
          /\ Minus(rsp_prod, rsp_cons) < RingSize
          /\ \/ Minus(rsp_prod, rsp_cons) < Minus(req_cons, rsp_cons)
             \/ Minus(req_prod, rsp_cons) <= Minus(rsp_prod, rsp_cons)
      BY <1>3, <1>5, <2>4
    <3>2. \A x \in IdxRange(req_cons, req_prod) :
            SlotOf(x) # SlotOf(rsp_prod) /\ SlotOf(x) \in Slots
      BY <1>1, <2>1, <3>1, SlotOutside
    <3> QED BY <1>1, <2>1, <3>2 DEF SharedTypeOK
  <2>6. Dist(rsp_prod) <= Dist(rsp_prod)
    BY <1>2, RingAssumption DEF RING_IDX
  <2>7. \A x \in IdxRange(RspNext, rsp_prod) : ring'[SlotOf(x)] = ring[SlotOf(x)]
    <3>1. /\ Minus(RspNext, rsp_cons) <= Minus(rsp_prod, rsp_cons) /\ Minus(rsp_prod, rsp_cons) <= RingSize
          /\ Minus(rsp_prod, rsp_cons) < RingSize
          /\ \/ Minus(rsp_prod, rsp_cons) < Minus(RspNext, rsp_cons)
             \/ Minus(rsp_prod, rsp_cons) <= Minus(rsp_prod, rsp_cons)
      BY <1>4, <1>5, <2>4, <2>6
    <3>2. \A x \in IdxRange(RspNext, rsp_prod) :
            SlotOf(x) # SlotOf(rsp_prod) /\ SlotOf(x) \in Slots
      BY <1>1, <2>1, <3>1, SlotOutside
    <3> QED BY <1>1, <2>1, <3>2 DEF SharedTypeOK
  <2> QED BY <2>5, <2>7 DEF MessagesStay
<1> QED BY <1>6, <1>7, <1>8, RingWriters

\* No message is overwritten between its publication and its consumption,
\* although responses are written over old requests and requests over old
\* responses without any lock between the domains.
THEOREM MessagesNotOverwritten == Spec => PublishedMessagesStable
<1>1. TypeInv /\ RingInv /\ [Next]_vars => [MessagesStay]_vars
  BY RingSlotsStay
<1> QED BY <1>1, TypeInvariant, RingInvariant, PTL DEF Spec, PublishedMessagesStable

-----------------------------------------------------------------------------
(* The invariants *)

\* The ids the front end has given away, what a message on the ring and a
\* pending_req say theirs is, and the messages not read yet.
InUse  == {id \in Ids : Allocated(id)}
IdOn   == [x \in RING_IDX |-> ring[SlotOf(x)].seq_no]
IdIn   == [p \in Pending |-> pending[p].id]
Unread == UnreadRequests \cup UnreadResponses

\* The members of M and S, labelled by on and in, and those of A match one to
\* one.
OneEach(M, S, on, in, A) ==
  /\ \A x \in M : on[x] \in A
  /\ \A p \in S : in[p] \in A
  /\ \A x \in M, y \in M : on[x] = on[y] => x = y
  /\ \A p \in S, q \in S : in[p] = in[q] => p = q
  /\ \A x \in M, p \in S : on[x] # in[p]
  /\ \A id \in A : (\E x \in M : on[x] = id) \/ (\E p \in S : in[p] = id)

\* Messages and requests in service match the ids in use, and the messages
\* between two indices are of the kind their place says.
HolderInv ==
  /\ OneEach(Unread, InService, IdOn, IdIn, InUse)
  /\ \A x \in UnreadRequests : ring[SlotOf(x)] = ReqMsg(IdOn[x])
  /\ \A x \in UnreadResponses : ring[SlotOf(x)].kind = "rsp"
  /\ \A id \in InUse : shadow[id].seq_no = id

\* The ids in use are as many as the indices from the first response not handled
\* to the last request prepared.
CountInv == Cardinality(InUse) = Minus(req_prod_pvt, RspNext)

\* s walks a list of n ids from head to its end, along the links of table sh, and
\* meets every member of F exactly once.
Walk(s, n, head, F, sh) ==
  /\ s \in [0 .. n -> Ids \cup {EndOfList}]
  /\ s[0] = head /\ s[n] = EndOfList
  /\ \A k \in 0 .. n - 1 : s[k] \in F /\ s[k + 1] = sh[s[k]].seq_no
  /\ \A k \in 0 .. n - 1, m \in 0 .. n - 1 : s[k] = s[m] => k = m
  /\ \A id \in F : \E k \in 0 .. n - 1 : s[k] = id

\* The free list is such a walk through the ids not in use.
ChainInv ==
  \E s \in [0 .. Cardinality(FreeIds) -> Ids \cup {EndOfList}] :
    Walk(s, Cardinality(FreeIds), shadow_free, FreeIds, shadow)

\* A request submitted once is at most at one place of the front end: in the
\* queue, or in one entry of the shadow table.
QueueInv ==
  /\ \A i \in DOMAIN queue : blk[queue[i]] = "submitted"
  /\ \A i \in DOMAIN queue, j \in DOMAIN queue : queue[i] = queue[j] => i = j
  /\ \A id \in InUse : /\ blk[shadow[id].request] = "submitted"
                       /\ shadow[id].request \notin NonFs
                       /\ \A i \in DOMAIN queue : queue[i] # shadow[id].request
  /\ \A id \in InUse, j \in InUse : shadow[id].request = shadow[j].request => id = j

\* Pages are mapped only while bios work on them.
MappedInv == \A p \in Pending : pending[p].mapped => stage[p] = "io"

\* No more contexts than there may be are between the last bio and free_req.
FinishingInv == Cardinality(Finishing) <= MaxFinishing

-----------------------------------------------------------------------------
(* Induction, and intervals of indices *)

\* Every set of naturals that is not empty has a least element.
LEMMA LeastNat ==
  ASSUME NEW T \in SUBSET Nat, T # {}
  PROVE  \E x \in T : \A y \in T : x <= y
<1>1. \E x \in T : \A y \in T : ~(<<y, x>> \in OpToRel(<, Nat))
  BY NatLessThanWellFounded, WFMin, Zenon
<1>2. \A x \in Nat, y \in Nat : <<y, x>> \in OpToRel(<, Nat) <=> y < x
  BY Zenon DEF OpToRel
<1>3. PICK x \in T : \A y \in T : ~(y < x)
  BY <1>1, <1>2, Zenon
<1> QED BY <1>3

\* A set that contains 0 and, up to n, with each number the next.
LEMMA InductionUpTo ==
  ASSUME NEW n \in Nat, NEW T, 0 \in T, \A k \in 0 .. n - 1 : k \in T => k + 1 \in T
  PROVE  0 .. n \subseteq T
<1> SUFFICES ASSUME (0 .. n) \ T # {} PROVE FALSE
  OBVIOUS
<1>1. PICK x \in (0 .. n) \ T : \A y \in (0 .. n) \ T : x <= y
  <2>1. (0 .. n) \ T \in SUBSET Nat
    OBVIOUS
  <2> HIDE DEF Unread
  <2> QED BY <2>1, LeastNat
<1>2. x # 0 /\ x - 1 \in 0 .. n - 1
  BY <1>1
<1>3. x - 1 \in T
  BY <1>1, <1>2
<1>4. (x - 1) + 1 = x
  BY <1>1
<1> QED BY <1>1, <1>2, <1>3, <1>4

\* An interval that grows at its end.
LEMMA RangeGrows ==
  ASSUME NEW a \in RING_IDX, NEW b \in RING_IDX, Minus(b, a) < IdxSpan - 1
  PROVE  IdxRange(a, Succ(b)) = IdxRange(a, b) \cup {b} /\ b \notin IdxRange(a, b)
<1>1. Minus(Succ(b), a) = Minus(b, a) + 1
  BY MinusSucc
<1>2. Minus(b, a) \in Int /\ \A x \in RING_IDX : Minus(x, a) \in Int
  BY MinusType DEF RING_IDX
<1>3. \A x \in RING_IDX : Minus(x, a) < Minus(b, a) + 1 <=> Minus(x, a) < Minus(b, a) \/ x = b
  <2> TAKE x \in RING_IDX
  <2>1. Minus(x, a) = Minus(b, a) => x = b
    BY MinusInjective
  <2> QED BY <1>2, <2>1
<1>4. \A x \in RING_IDX : x = b => ~(Minus(x, a) < Minus(b, a))
  BY <1>2
<1> QED BY <1>1, <1>3, <1>4 DEF IdxRange

\* An interval that shrinks at its start.
LEMMA RangeShrinks ==
  ASSUME NEW a \in RING_IDX, NEW b \in RING_IDX, a # b
  PROVE  IdxRange(Succ(a), b) = IdxRange(a, b) \ {a} /\ a \in IdxRange(a, b)
<1>1. Minus(a, a) = 0 /\ Minus(b, a) # 0 /\ Minus(b, a) \in Nat
  BY MinusType, MinusInjective DEF RING_IDX
<1>2. Succ(a) \in RING_IDX
  BY SuccType
<1>3. \A x \in RING_IDX : Minus(x, Succ(a)) < Minus(b, Succ(a)) <=> Minus(x, a) < Minus(b, a) /\ x # a
  BY RingAssumption, SMT DEF Minus, Succ, RING_IDX
<1> QED BY <1>1, <1>2, <1>3 DEF IdxRange

-----------------------------------------------------------------------------
(* Labels that match one to one *)

\* A new message with a new label.
LEMMA MatchNew ==
  ASSUME NEW M, NEW S, NEW on, NEW in, NEW A, NEW x, NEW i, NEW on2,
         OneEach(M, S, on, in, A), x \notin M, i \notin A, on2[x] = i,
         \A y \in M : on2[y] = on[y]
  PROVE  OneEach(M \cup {x}, S, on2, in, A \cup {i})
  BY DEF OneEach

\* A message is taken in.
LEMMA MatchTaken ==
  ASSUME NEW M, NEW S, NEW on, NEW in, NEW A, NEW x, NEW p, NEW in2,
         OneEach(M, S, on, in, A), x \in M, p \notin S, in2[p] = on[x],
         \A q \in S : in2[q] = in[q]
  PROVE  OneEach(M \ {x}, S \cup {p}, on, in2, A)
  BY DEF OneEach

\* A message goes out.
LEMMA MatchSent ==
  ASSUME NEW M, NEW S, NEW on, NEW in, NEW A, NEW x, NEW p, NEW on2,
         OneEach(M, S, on, in, A), p \in S, x \notin M, on2[x] = in[p],
         \A y \in M : on2[y] = on[y]
  PROVE  OneEach(M \cup {x}, S \ {p}, on2, in, A)
  BY DEF OneEach

\* A message and its label go.
LEMMA MatchGone ==
  ASSUME NEW M, NEW S, NEW on, NEW in, NEW A, NEW x,
         OneEach(M, S, on, in, A), x \in M
  PROVE  OneEach(M \ {x}, S, on, in, A \ {on[x]})
  BY DEF OneEach

\* Only the labels of members matter.
LEMMA MatchSame ==
  ASSUME NEW M, NEW S, NEW on, NEW in, NEW A, NEW on2, NEW in2,
         OneEach(M, S, on, in, A), \A x \in M : on2[x] = on[x], \A p \in S : in2[p] = in[p]
  PROVE  OneEach(M, S, on2, in2, A)
  BY DEF OneEach

-----------------------------------------------------------------------------
(* Where the indices are, seen from the first response not handled *)

Rank(x) == Minus(x, RspNext)

\* The indices of both sides, and the locals that copy them, are RING_IDX.
LEMMA IndexTypes ==
  ASSUME TypeInv
  PROVE  /\ req_cons \in RING_IDX /\ req_prod \in RING_IDX /\ rsp_prod \in RING_IDX
         /\ req_prod_pvt \in RING_IDX /\ rsp_cons \in RING_IDX /\ RspNext \in RING_IDX
         /\ f_i \in RING_IDX /\ f_rp \in RING_IDX /\ b_rp \in RING_IDX
  BY DEF TypeInv, TypeOK, SharedTypeOK, FrontTypeOK, BackTypeOK, RspNext

\* Ranks are numbers, and tell indices apart.
LEMMA RankType ==
  ASSUME TypeInv
  PROVE  /\ \A x \in RING_IDX : Rank(x) \in 0 .. IdxSpan - 1
         /\ \A x \in RING_IDX, y \in RING_IDX : Rank(x) = Rank(y) => x = y
         /\ Rank(RspNext) = 0
         /\ RingSize \in Nat \ {0} /\ IdxSpan \in Nat /\ RingSize < IdxSpan
  BY IndexTypes, MinusType, MinusInjective, RingAssumption DEF Rank, RING_IDX

\* The ranks follow the order of the indices.
LEMMA RankOrder ==
  ASSUME TypeInv, RingInv
  PROVE  /\ Rank(rsp_prod) <= Rank(req_cons)
         /\ Rank(req_cons) <= Rank(req_prod)
         /\ Rank(req_prod) <= Rank(req_prod_pvt)
         /\ Rank(req_prod_pvt) <= RingSize
         /\ Rank(req_prod_pvt) = Dist(req_prod_pvt) - Dist(RspNext)
         /\ bpc \in {"fetch", "dispatch"} =>
              Rank(req_cons) <= Rank(b_rp) /\ Rank(b_rp) <= Rank(req_prod)
<1>1. \A x \in RING_IDX : Dist(x) \in Int /\ Dist(x) >= 0
  BY IndexTypes, MinusType DEF Dist, RING_IDX
<1>2. Dist(RspNext) <= Dist(rsp_prod)
  <2>1. CASE fpc \in {"drain", "consume"}
    <3>1. Dist(f_i) <= Dist(f_rp) /\ Dist(f_rp) <= Dist(rsp_prod) /\ RspNext = f_i
      BY <2>1 DEF RingInv, FrontOrder, RspNext
    <3> QED BY <3>1, <1>1, IndexTypes
  <2>2. CASE fpc \notin {"drain", "consume"}
    <3>1. RspNext = rsp_cons /\ Dist(rsp_cons) = 0
      BY <2>2, IndexTypes, MinusType DEF RspNext, Dist
    <3> QED BY <3>1, <1>1, IndexTypes
  <2> QED BY <2>1, <2>2
<1>3. \A x \in RING_IDX : Dist(RspNext) <= Dist(x) => Rank(x) = Dist(x) - Dist(RspNext)
  BY IndexTypes, MinusShift DEF Dist, Rank
<1>4. /\ Dist(rsp_prod) <= Dist(req_cons) /\ Dist(req_cons) <= Dist(req_prod)
      /\ Dist(req_prod) <= Dist(req_prod_pvt) /\ Dist(req_prod_pvt) <= RingSize
      /\ bpc \in {"fetch", "dispatch"} =>
           Dist(req_cons) <= Dist(b_rp) /\ Dist(b_rp) <= Dist(req_prod)
  BY DEF RingInv, PageOrder, BackOrder
<1>5. /\ Dist(RspNext) \in Int /\ Dist(RspNext) >= 0 /\ Dist(rsp_prod) \in Int
      /\ Dist(req_cons) \in Int /\ Dist(req_prod) \in Int /\ Dist(req_prod_pvt) \in Int
      /\ Dist(b_rp) \in Int /\ RingSize \in Int
  BY <1>1, IndexTypes, RingAssumption
<1>6. /\ Dist(RspNext) <= Dist(req_cons) /\ Dist(RspNext) <= Dist(req_prod)
      /\ Dist(RspNext) <= Dist(req_prod_pvt)
      /\ bpc \in {"fetch", "dispatch"} => Dist(RspNext) <= Dist(b_rp)
  BY <1>2, <1>4, <1>5
<1>7. /\ Rank(rsp_prod) = Dist(rsp_prod) - Dist(RspNext)
      /\ Rank(req_cons) = Dist(req_cons) - Dist(RspNext)
      /\ Rank(req_prod) = Dist(req_prod) - Dist(RspNext)
      /\ Rank(req_prod_pvt) = Dist(req_prod_pvt) - Dist(RspNext)
      /\ bpc \in {"fetch", "dispatch"} => Rank(b_rp) = Dist(b_rp) - Dist(RspNext)
  BY <1>2, <1>3, <1>6, IndexTypes
<1> HIDE DEF Dist, Rank
<1> QED BY <1>4, <1>5, <1>7

\* Unread messages by their ranks.
LEMMA UnreadRanks ==
  ASSUME TypeInv, RingInv
  PROVE  /\ UnreadResponses = {x \in RING_IDX : Rank(x) < Rank(rsp_prod)}
         /\ \A x \in UnreadRequests : /\ x \in RING_IDX /\ Rank(req_cons) <= Rank(x)
                                      /\ Rank(x) < Rank(req_prod_pvt)
         /\ \A x \in Unread : x \in RING_IDX /\ Rank(x) < Rank(req_prod_pvt) /\ Rank(x) < RingSize
         /\ UnreadRequests \cap UnreadResponses = {}
<1>1. UnreadResponses = {x \in RING_IDX : Rank(x) < Rank(rsp_prod)}
  BY DEF UnreadResponses, IdxRange, Rank
<1>2. \A x \in UnreadRequests : x \in RING_IDX
  BY DEF UnreadRequests, IdxRange
<1>3. /\ Rank(rsp_prod) \in Int /\ Rank(req_cons) \in Int /\ Rank(req_prod) \in Int
      /\ Rank(req_prod_pvt) \in Int /\ RingSize \in Int
      /\ \A x \in RING_IDX : Rank(x) \in Int
  BY RankType, IndexTypes
<1>4. Rank(req_cons) <= Rank(req_prod_pvt)
  BY <1>3, RankOrder
<1>5. \A x \in UnreadRequests : Rank(req_cons) <= Rank(x) /\ Rank(x) < Rank(req_prod_pvt)
  BY <1>4, IndexTypes, RangeDist DEF Rank, UnreadRequests
<1>6. \A x \in Unread : x \in RING_IDX /\ Rank(x) < Rank(req_prod_pvt) /\ Rank(x) < RingSize
  BY <1>1, <1>2, <1>3, <1>5, RankOrder DEF Unread
<1>7. UnreadRequests \cap UnreadResponses = {}
  BY <1>1, <1>2, <1>3, <1>5, RankOrder
<1> QED BY <1>1, <1>2, <1>5, <1>6, <1>7

\* A slot about to be written is that of no unread message.
LEMMA UnreadApart ==
  ASSUME TypeInv, RingInv, NEW w \in RING_IDX, Rank(w) < RingSize, w \notin Unread
  PROVE  \A x \in Unread : SlotOf(x) # SlotOf(w)
  BY UnreadRanks, IndexTypes, SlotsApart DEF Rank

-----------------------------------------------------------------------------
(* The steps that move a message *)

\* Nothing that the invariants look at moves.
Still ==
  /\ UNCHANGED <<ring, shadow, shadow_free, rsp_prod, req_cons, req_prod_pvt>>
  /\ RspNext' = RspNext
  /\ InService' = InService
  /\ \A p \in InService : pending'[p].id = pending[p].id

HandleStep ==
  /\ fpc \in {"drain", "consume"} /\ f_i # f_rp
  /\ HandleResponse(ring[SlotOf(f_i)].seq_no)
  /\ f_i' = Succ(f_i)
  /\ UNCHANGED <<queue, fpc, f_rp, fidxVars, sringVars, backVars>>

\* Two steps of the front end change what the invariants look at: it queues a
\* request or handles a response.
LEMMA FrontMoves ==
  ASSUME TypeInv, RingInv, FrontNext, UNCHANGED backVars
  PROVE  Still \/ QueueRequest \/ HandleStep
<1>1. InService' = InService /\ pending' = pending /\ req_cons' = req_cons
  BY DEF InService, backVars, bidxVars
<1> USE DEF At, Goto, fblkVars, fshadowVars, fidxVars, fctlVars, sringVars, evtVars
<1>2. ASSUME NEW r \in Request, Submit(r) PROVE Still
  BY <1>1, <1>2 DEF Submit, Still, RspNext
<1>3. CASE RunQueue \/ PeekEmpty \/ PeekFull \/ PeekNonFs \/ QueueRequestFails
  BY <1>1, <1>3 DEF RunQueue, PeekEmpty, PeekFull, PeekNonFs, QueueRequestFails, ReturnToCaller,
                    Still, RspNext
<1>4. CASE PushRequests \/ NotifyBack \/ PollGivesUp \/ PollFound \/ DrainDone
  BY <1>1, <1>4 DEF PushRequests, NotifyBack, PollGivesUp, PollFound, DrainDone, Still, RspNext
<1>5. CASE ThreadSleep \/ ThreadLock \/ ThreadRead \/ ConsumeDone \/ KickFull \/ KickQueue
  BY <1>1, <1>5 DEF ThreadSleep, ThreadLock, ThreadRead, ConsumeDone, KickFull, KickQueue, Still,
                    RspNext
<1>6. CASE ThreadSpin \/ ThreadMarkSleeping \/ ThreadClearWaiting \/ ThreadRecheck
  BY <1>1, <1>6 DEF ThreadSpin, ThreadMarkSleeping, ThreadClearWaiting, ThreadRecheck,
                    ThreadUnlock, Still, RspNext
<1>7. CASE FrontIrq
  BY <1>1, <1>7 DEF FrontIrq, FrontIrqFlag, FrontIrqWake, FrontIrqDone, Still, RspNext
<1>8. CASE DrainOne \/ ConsumeOne
  BY <1>8 DEF DrainOne, ConsumeOne, HandleStep
<1> QED BY <1>2, <1>3, <1>4, <1>5, <1>6, <1>7, <1>8 DEF FrontNext, DoIddRequest, ResponseThread

\* Two steps of the back end do: it claims a request or answers one.
LEMMA BackMoves ==
  ASSUME TypeInv, RingInv, BackNext, UNCHANGED frontVars
  PROVE  Still \/ \E p \in Pending : Claim(p) \/ Respond(p)
<1>1. UNCHANGED <<shadow, shadow_free, req_prod_pvt>> /\ RspNext' = RspNext
  BY DEF frontVars, fshadowVars, fidxVars, fctlVars, RspNext
<1> USE DEF bidxVars, bctlVars, sringVars
<1>2. CASE \/ BackWait \/ BackLook \/ BatchStart \/ BatchEnd \/ AllocFails \/ RejectDone
           \/ BatchFinalCheck \/ BackSpin \/ BackMarkSleeping \/ BackClearWaiting \/ BackRecheck
           \/ BackIrq
  <2>1. UNCHANGED <<ring, rsp_prod, req_cons, stage, pending>>
    BY <1>2 DEF BackWait, BackLook, BatchStart, BatchEnd, AllocFails, RejectDone, BatchFinalCheck,
         BackSpin, BackMarkSleeping, BackClearWaiting, BackRecheck, BackIrq, BackIrqFlag,
         BackIrqWake, BackIrqDone
  <2> QED BY <1>1, <2>1 DEF Still, InService
<1>3. CASE DispatchRejects \/ DispatchNoBio \/ \E n \in 1 .. MaxBios : Dispatch(n)
  <2>1. cur \in Pending /\ stage[cur] = "claimed"
    BY <1>3 DEF DispatchRejects, DispatchNoBio, Dispatch, BackAt, TypeInv, PendingInv
  <2>2. \E to \in {"io", "respond"} : stage' = [stage EXCEPT ![cur] = to]
    BY <1>3 DEF DispatchRejects, DispatchNoBio, Dispatch
  <2>3. UNCHANGED <<ring, rsp_prod, req_cons>>
    BY <1>3 DEF DispatchRejects, DispatchNoBio, Dispatch
  <2>4. InService' = InService
    BY <2>1, <2>2 DEF InService, TypeInv, TypeOK, BackTypeOK
  <2>5. \A p \in Pending : pending'[p].id = pending[p].id
    BY <1>3, <2>1 DEF DispatchRejects, DispatchNoBio, Dispatch, TypeInv, TypeOK, BackTypeOK
  <2> QED BY <1>1, <2>3, <2>4, <2>5 DEF Still, InService
<1>4. ASSUME NEW p \in Pending, NEW err \in {0, -1}, EndBio(p, err) PROVE Still
  <2>1. /\ stage[p] = "io"
        /\ \E to \in {"io", "respond"} : stage' = [stage EXCEPT ![p] = to]
        /\ UNCHANGED <<ring, rsp_prod, req_cons>>
    BY <1>4 DEF EndBio
  <2>2. InService' = InService
    BY <2>1 DEF InService, TypeInv, TypeOK, BackTypeOK
  <2>3. \A q \in Pending : pending'[q].id = pending[q].id
    BY <1>4 DEF EndBio, TypeInv, TypeOK, BackTypeOK
  <2> QED BY <1>1, <2>1, <2>2, <2>3 DEF Still, InService
<1>5. ASSUME NEW p \in Pending, NotifyFront(p) \/ Release(p) PROVE Still
  <2>1. /\ stage[p] \in {"notify", "release"}
        /\ \E to \in {"release", "free"} : stage' = [stage EXCEPT ![p] = to]
        /\ UNCHANGED <<ring, rsp_prod, req_cons>>
        /\ pending' = pending \/ pending' = [pending EXCEPT ![p] = FreePending]
    BY <1>5 DEF NotifyFront, Release
  <2>2. InService' = InService /\ p \notin InService
    BY <2>1 DEF InService, TypeInv, TypeOK, BackTypeOK
  <2>3. \A q \in InService : pending'[q].id = pending[q].id
    BY <2>1, <2>2 DEF InService, TypeInv, TypeOK, BackTypeOK
  <2> QED BY <1>1, <2>1, <2>2, <2>3 DEF Still
<1> QED BY <1>2, <1>3, <1>4, <1>5 DEF BackNext, RequestThread, DoBlockIoOp

-----------------------------------------------------------------------------
(* Every id in use has one holder *)

\* The ids in use and the free ones are RingSize together.
LEMMA FreeIdsFinite ==
  /\ IsFiniteSet(FreeIds) /\ Cardinality(FreeIds) \in Nat
  /\ IsFiniteSet(InUse) /\ Cardinality(InUse) \in Nat
  /\ Cardinality(InUse) + Cardinality(FreeIds) = RingSize
<1>1. IsFiniteSet(Ids) /\ Cardinality(Ids) = RingSize
  BY FS_Interval, RingAssumption DEF Ids
<1>2. InUse \in SUBSET Ids /\ FreeIds = Ids \ InUse
  BY DEF InUse, FreeIds
<1>3. IsFiniteSet(InUse) /\ Ids \cap InUse = InUse
  BY <1>1, <1>2, FS_Subset
<1>4. Cardinality(Ids \cap InUse) = Cardinality(InUse)
  BY <1>3, Zenon
<1>5. IsFiniteSet(FreeIds) /\ Cardinality(FreeIds) = Cardinality(Ids) - Cardinality(Ids \cap InUse)
  BY <1>1, <1>2, FS_Difference
<1>6. Cardinality(FreeIds) \in Nat /\ Cardinality(InUse) \in Nat
  BY <1>3, <1>5, FS_CardinalityType
<1>7. Cardinality(FreeIds) = RingSize - Cardinality(InUse)
  BY <1>1, <1>4, <1>5, Zenon
<1>8. Cardinality(InUse) + Cardinality(FreeIds) = RingSize
  BY <1>6, <1>7, RingAssumption
<1> QED BY <1>3, <1>5, <1>6, <1>8, Zenon

\* The head of the free list, while there is one, is free.
LEMMA HeadIsFree ==
  ASSUME ChainInv
  PROVE  /\ shadow_free < RingSize <=> FreeIds # {}
         /\ shadow_free < RingSize => shadow_free \in FreeIds
<1> DEFINE n == Cardinality(FreeIds)
<1>1. PICK s : Walk(s, n, shadow_free, FreeIds, shadow)
  BY DEF ChainInv
<1>2. n \in Nat /\ (n = 0 <=> FreeIds = {})
  BY FreeIdsFinite, FS_EmptySet
<1>3. RingSize \in Nat /\ EndOfList = RingSize /\ \A id \in FreeIds : id < RingSize
  BY RingAssumption DEF EndOfList, FreeIds, Ids
<1> HIDE DEF n
<1>4. CASE n = 0
  BY <1>1, <1>2, <1>3, <1>4 DEF Walk
<1>5. CASE n # 0
  <2>1. 0 \in 0 .. n - 1
    BY <1>2, <1>5
  <2>2. shadow_free \in FreeIds
    BY <1>1, <2>1 DEF Walk
  <2> QED BY <1>2, <1>3, <1>5, <2>2
<1> QED BY <1>4, <1>5

\* Nothing is on the ring at first, and no id in use.
LEMMA HolderInit == Init => HolderInv /\ CountInv
<1> SUFFICES ASSUME Init PROVE HolderInv /\ CountInv
  OBVIOUS
<1>1. Minus(0, 0) = 0 /\ \A x \in RING_IDX : Minus(x, 0) \in Nat
  BY MinusType, RingAssumption DEF Minus, RING_IDX
<1>2. UnreadRequests = {} /\ UnreadResponses = {} /\ RspNext = 0 /\ req_prod_pvt = 0
  BY <1>1 DEF Init, SharedInit, FrontInit, BackInit, UnreadRequests, UnreadResponses, RspNext,
     IdxRange
<1>3. InService = {} /\ InUse = {}
  BY DEF Init, FrontInit, BackInit, InService, InUse, Allocated
<1>4. Unread = {}
  BY <1>2 DEF Unread
<1>5. HolderInv
  BY <1>2, <1>3, <1>4 DEF HolderInv, OneEach
<1>6. CountInv
  BY <1>1, <1>2, <1>3, FS_EmptySet DEF CountInv
<1> QED BY <1>5, <1>6

\* A step that moves no message keeps the match.
LEMMA StillHolder ==
  ASSUME HolderInv, CountInv, Still PROVE HolderInv' /\ CountInv'
<1>1. /\ UnreadRequests' = UnreadRequests /\ UnreadResponses' = UnreadResponses
      /\ Unread' = Unread /\ InService' = InService /\ InUse' = InUse
      /\ IdOn' = IdOn /\ shadow' = shadow /\ ring' = ring
  BY DEF Still, UnreadRequests, UnreadResponses, Unread, InUse, Allocated, IdOn
<1>2. \A p \in InService : IdIn'[p] = IdIn[p]
  BY DEF Still, IdIn, InService
<1>3. OneEach(Unread, InService, IdOn, IdIn', InUse)
  BY <1>2, MatchSame DEF HolderInv
<1>4. HolderInv'
  BY <1>1, <1>3 DEF HolderInv
<1>5. CountInv'
  BY <1>1 DEF CountInv, Still
<1> QED BY <1>4, <1>5

\* idd_queue_request gives the id at the head of the free list to a slot that
\* no unread message has.
LEMMA QueueEffect ==
  ASSUME TypeInv, RingInv, ChainInv, QueueRequest, UNCHANGED backVars
  PROVE  /\ req_prod_pvt \notin Unread /\ shadow_free \in Ids \ InUse
         /\ UnreadRequests' = UnreadRequests \cup {req_prod_pvt}
         /\ UnreadResponses' = UnreadResponses /\ Unread' = Unread \cup {req_prod_pvt}
         /\ IdOn'[req_prod_pvt] = shadow_free /\ \A x \in Unread : IdOn'[x] = IdOn[x]
         /\ ring'[SlotOf(req_prod_pvt)] = ReqMsg(shadow_free)
         /\ \A x \in Unread : ring'[SlotOf(x)] = ring[SlotOf(x)]
         /\ InUse' = InUse \cup {shadow_free}
         /\ shadow'[shadow_free] = [request |-> Head(queue), seq_no |-> shadow_free]
         /\ \A j \in InUse : shadow'[j] = shadow[j]
         /\ InService' = InService /\ IdIn' = IdIn
         /\ req_prod_pvt' = Succ(req_prod_pvt) /\ Rank(req_prod_pvt) < IdxSpan - 1
         /\ RspNext' = RspNext
<1> DEFINE w == req_prod_pvt
           i == shadow_free
<1>1. /\ fpc = "peek" /\ ~RING_FULL(w, rsp_cons) /\ i < RingSize
      /\ ring' = [ring EXCEPT ![SlotOf(w)] = ReqMsg(i)]
      /\ shadow' = [shadow EXCEPT ![i] = [request |-> Head(queue), seq_no |-> i]]
      /\ req_prod_pvt' = Succ(w) /\ fpc' = "push"
      /\ UNCHANGED <<rsp_cons, rsp_prod>>
      /\ queue # <<>>
  BY DEF QueueRequest, At, Goto, TakeId
<1>2. RspNext = rsp_cons /\ RspNext' = RspNext /\ req_cons' = req_cons /\ w \in RING_IDX
      /\ InService' = InService /\ IdIn' = IdIn
  BY <1>1, IndexTypes DEF RspNext, backVars, bidxVars, InService, IdIn
<1>3. i \in FreeIds /\ i \in Ids /\ i \notin InUse
  BY <1>1, HeadIsFree DEF FreeIds, InUse
<1>4. Rank(w) < RingSize /\ Rank(w) < IdxSpan - 1
  <2>1. Rank(w) # RingSize
    BY <1>1, <1>2, RingAssumption DEF RING_FULL, RING_FREE_REQUESTS, Minus, Rank
  <2>2. Rank(w) \in Int /\ Rank(w) <= RingSize
    BY RankType, RankOrder, <1>2
  <2> QED BY <2>1, <2>2, RankType
<1>5. Minus(w, req_cons) < IdxSpan - 1
  <2>1. Rank(req_cons) <= Rank(w) /\ Rank(req_cons) \in Int /\ Rank(req_cons) >= 0 /\ Rank(w) \in Int
    <3>1. /\ Rank(req_cons) \in Int /\ Rank(req_cons) >= 0 /\ Rank(w) \in Int
          /\ Rank(req_prod) \in Int
      BY RankType, IndexTypes
    <3> QED BY <3>1, RankOrder
  <2>2. Minus(w, req_cons) = Rank(w) - Rank(req_cons)
    BY <2>1, IndexTypes, MinusShift DEF Rank
  <2> HIDE DEF w
  <2> QED BY <2>1, <2>2, <1>4, RingAssumption
<1>6. /\ UnreadRequests' = UnreadRequests \cup {w} /\ UnreadResponses' = UnreadResponses
      /\ Unread' = Unread \cup {w}
  <2>1. UnreadRequests' = UnreadRequests \cup {w}
    BY <1>1, <1>2, <1>5, IndexTypes, RangeGrows DEF UnreadRequests
  <2>2. UnreadResponses' = UnreadResponses
    BY <1>1, <1>2 DEF UnreadResponses
  <2> QED BY <2>1, <2>2 DEF Unread
<1>7. w \notin Unread
  <2>1. \A x \in Unread : Rank(x) < Rank(w)
    BY UnreadRanks
  <2>2. Rank(w) \in Int
    BY RankType, <1>2
  <2> QED BY <2>1, <2>2
<1>8. \A x \in Unread : x \in RING_IDX /\ SlotOf(x) # SlotOf(w) /\ ring'[SlotOf(x)] = ring[SlotOf(x)]
  <2>1. \A x \in Unread : x \in RING_IDX /\ SlotOf(x) # SlotOf(w) /\ SlotOf(x) \in Slots
    BY <1>2, <1>4, <1>7, UnreadApart, UnreadRanks, SlotType
  <2> QED BY <2>1, <1>1 DEF TypeInv, TypeOK, SharedTypeOK
<1>9. ring'[SlotOf(w)] = ReqMsg(i)
  BY <1>1, <1>2, SlotType DEF TypeInv, TypeOK, SharedTypeOK
<1>10. IdOn'[w] = i /\ \A x \in Unread : IdOn'[x] = IdOn[x]
  BY <1>2, <1>8, <1>9 DEF IdOn, ReqMsg
<1>11. InUse' = InUse \cup {i} /\ shadow'[i] = [request |-> Head(queue), seq_no |-> i]
       /\ \A j \in InUse : shadow'[j] = shadow[j]
  <2>1. /\ shadow'[i] = [request |-> Head(queue), seq_no |-> i]
        /\ \A j \in Ids : j # i => shadow'[j] = shadow[j]
    BY <1>1, <1>3 DEF TypeInv, TypeOK, FrontTypeOK
  <2>2. Head(queue) # NoReq
    BY <1>1, FrontAssumption DEF TypeInv, TypeOK, FrontTypeOK
  <2> QED BY <1>3, <2>1, <2>2 DEF InUse, Allocated
<1> QED BY <1>1, <1>2, <1>3, <1>4, <1>6, <1>7, <1>8, <1>9, <1>10, <1>11

\* The new request matches the id just taken.
LEMMA QueueHolder ==
  ASSUME TypeInv, RingInv, HolderInv, CountInv, ChainInv, QueueRequest, UNCHANGED backVars
  PROVE  HolderInv' /\ CountInv'
<1>1. OneEach(Unread \cup {req_prod_pvt}, InService, IdOn', IdIn, InUse \cup {shadow_free})
  BY QueueEffect, MatchNew DEF HolderInv
<1>2. \A x \in UnreadRequests' : ring'[SlotOf(x)] = ReqMsg(IdOn'[x])
  BY QueueEffect DEF HolderInv, Unread
<1>3. \A x \in UnreadResponses' : ring'[SlotOf(x)].kind = "rsp"
  BY QueueEffect DEF HolderInv, Unread
<1>4. \A id \in InUse' : shadow'[id].seq_no = id
  BY QueueEffect DEF HolderInv
<1>5. HolderInv'
  BY <1>1, <1>2, <1>3, <1>4, QueueEffect DEF HolderInv
<1>6. CountInv'
  <2>1. Cardinality(InUse') = Cardinality(InUse) + 1
    BY QueueEffect, FreeIdsFinite, FS_AddElement
  <2>2. Minus(Succ(req_prod_pvt), RspNext) = Minus(req_prod_pvt, RspNext) + 1
    BY QueueEffect, IndexTypes, MinusSucc DEF Rank
  <2> QED BY QueueEffect, <2>1, <2>2 DEF CountInv
<1> QED BY <1>5, <1>6

\* __do_block_io_op copies the id out of the slot it consumes.
LEMMA ClaimEffect ==
  ASSUME TypeInv, RingInv, NEW p \in Pending, Claim(p), UNCHANGED frontVars
  PROVE  /\ UnreadRequests' = UnreadRequests \ {req_cons} /\ req_cons \in UnreadRequests
         /\ UnreadResponses' = UnreadResponses
         /\ Unread' = Unread \ {req_cons} /\ req_cons \in Unread
         /\ InService' = InService \cup {p} /\ p \notin InService
         /\ stage' = [stage EXCEPT ![p] = "claimed"] /\ stage[p] = "free"
         /\ IdOn' = IdOn /\ InUse' = InUse /\ ring' = ring /\ shadow' = shadow
         /\ IdIn'[p] = IdOn[req_cons] /\ \A q \in Pending : q # p => IdIn'[q] = IdIn[q]
         /\ RspNext' = RspNext /\ req_prod_pvt' = req_prod_pvt
<1> DEFINE w == req_cons
<1>1. /\ bpc = "fetch" /\ w # b_rp /\ stage[p] = "free"
      /\ stage' = [stage EXCEPT ![p] = "claimed"]
      /\ pending' = [pending EXCEPT ![p].id = ring[SlotOf(w)].seq_no]
      /\ req_cons' = Succ(w) /\ UNCHANGED <<ring, rsp_prod>>
  BY DEF Claim, BackAt, Takeable, Pool, sringVars
<1>2. RspNext' = RspNext /\ shadow' = shadow /\ req_prod_pvt' = req_prod_pvt /\ w \in RING_IDX
  BY IndexTypes DEF RspNext, frontVars, fshadowVars, fidxVars, fctlVars
<1>3. w # req_prod_pvt
  <2>1. /\ Rank(w) \in Int /\ Rank(b_rp) \in Int /\ Rank(req_prod) \in Int
        /\ Rank(req_prod_pvt) \in Int /\ Rank(w) # Rank(b_rp)
    BY <1>1, RankType, IndexTypes
  <2>2. Rank(w) <= Rank(b_rp) /\ Rank(b_rp) <= Rank(req_prod) /\ Rank(req_prod) <= Rank(req_prod_pvt)
    BY <1>1, RankOrder
  <2>3. Rank(w) # Rank(req_prod_pvt)
    <3> HIDE DEF w
    <3> QED BY <2>1, <2>2
  <2> QED BY <2>3
<1>4. UnreadRequests' = UnreadRequests \ {w} /\ w \in UnreadRequests
      /\ UnreadResponses' = UnreadResponses
  BY <1>1, <1>2, <1>3, IndexTypes, RangeShrinks DEF UnreadRequests, UnreadResponses
<1>5. Unread' = Unread \ {w} /\ w \in Unread
  BY <1>4, UnreadRanks DEF Unread
<1>6. InService' = InService \cup {p} /\ p \notin InService
  BY <1>1 DEF InService, TypeInv, TypeOK, BackTypeOK
<1>7. IdOn' = IdOn /\ InUse' = InUse
  BY <1>1, <1>2 DEF IdOn, InUse, Allocated
<1>8. IdIn'[p] = IdOn[w] /\ \A q \in Pending : q # p => IdIn'[q] = IdIn[q]
  BY <1>1, <1>2 DEF IdIn, IdOn, TypeInv, TypeOK, BackTypeOK
<1> QED BY <1>1, <1>2, <1>4, <1>5, <1>6, <1>7, <1>8

\* A request read goes from the ring to its pending_req, with its id.
LEMMA ClaimHolder ==
  ASSUME TypeInv, RingInv, HolderInv, CountInv, NEW p \in Pending, Claim(p), UNCHANGED frontVars
  PROVE  HolderInv' /\ CountInv'
<1>1. \A q \in InService : IdIn'[q] = IdIn[q]
  BY ClaimEffect DEF InService
<1>2. OneEach(Unread \ {req_cons}, InService \cup {p}, IdOn, IdIn', InUse)
  BY <1>1, ClaimEffect, MatchTaken DEF HolderInv
<1>3. HolderInv'
  BY <1>2, ClaimEffect DEF HolderInv
<1>4. CountInv'
  BY ClaimEffect DEF CountInv
<1> QED BY <1>3, <1>4

\* make_response writes the id of its pending_req into the next slot, which the
\* back end has read.
LEMMA RespondEffect ==
  ASSUME TypeInv, RingInv, NEW p \in Pending, Respond(p), UNCHANGED frontVars
  PROVE  /\ rsp_prod \notin Unread
         /\ UnreadResponses' = UnreadResponses \cup {rsp_prod} /\ UnreadRequests' = UnreadRequests
         /\ Unread' = Unread \cup {rsp_prod}
         /\ stage[p] = "respond" /\ stage' = [stage EXCEPT ![p] = "notify"]
         /\ InService' = InService \ {p} /\ p \in InService /\ IdIn' = IdIn
         /\ InUse' = InUse /\ shadow' = shadow
         /\ ring'[SlotOf(rsp_prod)] = RspMsg(pending[p].id, pending[p].status)
         /\ \A x \in Unread : ring'[SlotOf(x)] = ring[SlotOf(x)]
         /\ IdOn'[rsp_prod] = IdIn[p] /\ \A x \in Unread : IdOn'[x] = IdOn[x]
         /\ RspNext' = RspNext /\ req_prod_pvt' = req_prod_pvt
<1> DEFINE w == rsp_prod
<1>1. /\ stage[p] = "respond" /\ stage' = [stage EXCEPT ![p] = "notify"]
      /\ ring' = [ring EXCEPT ![SlotOf(w)] = RspMsg(pending[p].id, pending[p].status)]
      /\ rsp_prod' = Succ(w) /\ UNCHANGED <<req_cons, pending>>
  BY DEF Respond, RingInv, ServiceCount
<1>2. RspNext' = RspNext /\ shadow' = shadow /\ req_prod_pvt' = req_prod_pvt /\ w \in RING_IDX
  BY IndexTypes DEF RspNext, frontVars, fshadowVars, fidxVars, fctlVars
<1>3. InService' = InService \ {p} /\ p \in InService /\ IdIn' = IdIn /\ InUse' = InUse
  BY <1>1, <1>2 DEF InService, IdIn, InUse, Allocated, TypeInv, TypeOK, BackTypeOK
<1>4. Rank(w) < Rank(req_cons)
  <2>1. Minus(req_cons, w) # 0
    BY <1>3, InServiceFinite, FS_EmptySet DEF RingInv, ServiceCount
  <2>2. Rank(w) # Rank(req_cons)
    BY <2>1, IndexTypes, RankType, MinusType
  <2>3. Rank(w) \in Int /\ Rank(req_cons) \in Int
    BY RankType, IndexTypes
  <2> QED BY <2>2, <2>3, RankOrder
<1>5. Rank(w) < RingSize /\ Rank(w) < IdxSpan - 1
  <2>1. /\ Rank(w) \in Int /\ Rank(req_cons) \in Int /\ Rank(req_prod) \in Int
        /\ Rank(req_prod_pvt) \in Int
    BY RankType, IndexTypes
  <2> HIDE DEF w
  <2> QED BY <2>1, <1>4, RankOrder, RankType
<1>6. w \notin Unread
  <2>1. w \notin UnreadResponses /\ \A x \in UnreadRequests : Rank(req_cons) <= Rank(x)
    BY UnreadRanks, RankType, <1>2
  <2>2. w \notin UnreadRequests
    <3>1. Rank(w) \in Int /\ Rank(req_cons) \in Int
      BY RankType, IndexTypes
    <3>2. ~(Rank(req_cons) <= Rank(w))
      BY <3>1, <1>4
    <3> QED BY <3>2, <2>1
  <2> QED BY <2>1, <2>2 DEF Unread
<1>7. /\ UnreadResponses' = UnreadResponses \cup {w} /\ UnreadRequests' = UnreadRequests
      /\ Unread' = Unread \cup {w}
  <2>1. UnreadResponses' = UnreadResponses \cup {w}
    BY <1>1, <1>2, <1>5, IndexTypes, RangeGrows DEF UnreadResponses, Rank
  <2>2. UnreadRequests' = UnreadRequests
    BY <1>1, <1>2 DEF UnreadRequests
  <2> QED BY <2>1, <2>2 DEF Unread
<1>8. \A x \in Unread : x \in RING_IDX /\ SlotOf(x) # SlotOf(w) /\ ring'[SlotOf(x)] = ring[SlotOf(x)]
  <2>1. \A x \in Unread : x \in RING_IDX /\ SlotOf(x) # SlotOf(w) /\ SlotOf(x) \in Slots
    BY <1>2, <1>5, <1>6, UnreadApart, UnreadRanks, SlotType
  <2> QED BY <2>1, <1>1 DEF TypeInv, TypeOK, SharedTypeOK
<1>9. ring'[SlotOf(w)] = RspMsg(pending[p].id, pending[p].status)
  BY <1>1, <1>2, SlotType DEF TypeInv, TypeOK, SharedTypeOK
<1>10. IdOn'[w] = IdIn[p] /\ \A x \in Unread : IdOn'[x] = IdOn[x]
  BY <1>2, <1>8, <1>9 DEF IdOn, IdIn, RspMsg
<1> QED BY <1>1, <1>2, <1>3, <1>6, <1>7, <1>8, <1>9, <1>10

\* A response goes from its pending_req to the ring.
LEMMA RespondHolder ==
  ASSUME TypeInv, RingInv, HolderInv, CountInv, NEW p \in Pending, Respond(p), UNCHANGED frontVars
  PROVE  HolderInv' /\ CountInv'
<1>1. OneEach(Unread \cup {rsp_prod}, InService \ {p}, IdOn', IdIn, InUse)
  BY RespondEffect, MatchSent DEF HolderInv
<1>2. \A x \in UnreadRequests' : ring'[SlotOf(x)] = ReqMsg(IdOn'[x])
  BY RespondEffect DEF HolderInv, Unread
<1>3. \A x \in UnreadResponses' : ring'[SlotOf(x)].kind = "rsp"
  <2>1. \A x \in UnreadResponses : ring'[SlotOf(x)].kind = "rsp"
    BY RespondEffect DEF HolderInv, Unread
  <2>2. ring'[SlotOf(rsp_prod)].kind = "rsp"
    <3>1. RspMsg(pending[p].id, pending[p].status).kind = "rsp"
      BY DEF RspMsg
    <3>2. ring'[SlotOf(rsp_prod)] = RspMsg(pending[p].id, pending[p].status)
      BY RespondEffect
    <3> QED BY <3>1, <3>2
  <2> QED BY <2>1, <2>2, RespondEffect
<1>4. HolderInv'
  BY <1>1, <1>2, <1>3, RespondEffect DEF HolderInv
<1>5. CountInv'
  BY RespondEffect DEF CountInv
<1> QED BY <1>4, <1>5

\* What add_id_to_freelist and __blk_end_request_all do for the next response:
\* its id is in use, so the test of add_id_to_freelist never refuses it.
LEMMA HandleEffect ==
  ASSUME TypeInv, RingInv, HolderInv, HandleStep
  PROVE  /\ f_i = RspNext /\ f_i \in UnreadResponses /\ RspNext' = Succ(RspNext)
         /\ IdOn[f_i] \in InUse
         /\ shadow' = [shadow EXCEPT ![IdOn[f_i]] = [request |-> NoReq, seq_no |-> shadow_free]]
         /\ shadow_free' = IdOn[f_i]
         /\ blk' = [blk EXCEPT ![shadow[IdOn[f_i]].request] = "ok"]
<1>1. f_i = RspNext /\ RspNext' = Succ(RspNext) /\ f_i \in RING_IDX
  BY IndexTypes DEF HandleStep, RspNext
<1>2. f_i # rsp_prod
  <2>1. /\ Dist(f_i) <= Dist(f_rp) /\ Dist(f_rp) <= Dist(rsp_prod) /\ f_i # f_rp
    BY DEF HandleStep, RingInv, FrontOrder
  <2>2. /\ Dist(f_i) \in Int /\ Dist(f_rp) \in Int /\ Dist(rsp_prod) \in Int
        /\ Dist(f_i) # Dist(f_rp)
    BY <2>1, IndexTypes, MinusType, MinusInjective DEF Dist, RING_IDX
  <2>3. Dist(f_i) # Dist(rsp_prod)
    BY <2>1, <2>2
  <2> QED BY <2>3
<1>3. f_i \in UnreadResponses
  BY <1>1, <1>2, IndexTypes, RangeShrinks DEF UnreadResponses
<1>4. IdOn[f_i] \in InUse /\ IdOn[f_i] = ring[SlotOf(f_i)].seq_no
  BY <1>1, <1>3 DEF HolderInv, OneEach, Unread, IdOn
<1>5. Recyclable(IdOn[f_i])
  BY <1>4 DEF HolderInv, Recyclable, InUse, Allocated
<1> QED BY <1>1, <1>3, <1>4, <1>5 DEF HandleStep, HandleResponse

\* A response handled leaves the ring, and its id the ids in use.
LEMMA HandleHolder ==
  ASSUME TypeInv, RingInv, HolderInv, CountInv, HandleStep
  PROVE  HolderInv' /\ CountInv'
<1> DEFINE w == f_i
           i == IdOn[f_i]
<1>1. /\ w = RspNext /\ w \in UnreadResponses /\ RspNext' = Succ(w) /\ i \in InUse
      /\ shadow' = [shadow EXCEPT ![i] = [request |-> NoReq, seq_no |-> shadow_free]]
  BY HandleEffect
<1>2. UNCHANGED <<ring, rsp_prod, req_cons, req_prod_pvt, stage, pending>>
  BY DEF HandleStep, fidxVars, sringVars, backVars, bidxVars
<1>3. w # rsp_prod /\ w \in RING_IDX
  <2>1. Rank(w) < Rank(rsp_prod)
    BY <1>1, UnreadRanks
  <2>2. Rank(w) \in Int /\ w \in RING_IDX
    BY IndexTypes, RankType
  <2> QED BY <2>1, <2>2
<1>4. UnreadResponses' = UnreadResponses \ {w} /\ UnreadRequests' = UnreadRequests
  BY <1>1, <1>2, <1>3, IndexTypes, RangeShrinks DEF UnreadResponses, UnreadRequests
<1>5. Unread' = Unread \ {w} /\ w \in Unread
  BY <1>1, <1>4, UnreadRanks DEF Unread
<1>6. InService' = InService /\ IdOn' = IdOn /\ IdIn' = IdIn
  BY <1>2 DEF InService, IdOn, IdIn
<1>7. InUse' = InUse \ {i} /\ \A j \in InUse \ {i} : shadow'[j] = shadow[j]
  BY <1>1 DEF InUse, Allocated, TypeInv, TypeOK, FrontTypeOK
<1>8. OneEach(Unread \ {w}, InService, IdOn, IdIn, InUse \ {i})
  BY <1>5, MatchGone DEF HolderInv
<1>9. HolderInv'
  BY <1>2, <1>4, <1>5, <1>6, <1>7, <1>8 DEF HolderInv
<1>10. CountInv'
  <2>1. Cardinality(InUse') = Cardinality(InUse) - 1
    BY <1>1, <1>7, FreeIdsFinite, FS_RemoveElement
  <2>2. Minus(req_prod_pvt, Succ(w)) = Minus(req_prod_pvt, w) - 1
    <3>1. Minus(Succ(w), w) = 1
      BY <1>3, RingAssumption DEF Minus, Succ, RING_IDX
    <3>2. 1 <= Minus(req_prod_pvt, w)
      <4>1. /\ Rank(rsp_prod) \in Int /\ Rank(req_cons) \in Int /\ Rank(req_prod) \in Int
            /\ Rank(req_prod_pvt) \in Int /\ Rank(rsp_prod) >= 0 /\ Rank(rsp_prod) # 0
        BY <1>1, <1>3, IndexTypes, RankType
      <4>2. 1 <= Rank(req_prod_pvt)
        BY <4>1, RankOrder
      <4> QED BY <4>2, <1>1 DEF Rank
    <3> QED BY <1>3, <3>1, <3>2, IndexTypes, SuccType, MinusShift
  <2> QED BY <1>1, <1>2, <2>1, <2>2 DEF CountInv
<1> QED BY <1>9, <1>10

-----------------------------------------------------------------------------
(* The free list *)

\* idd_init links each id to the next one.
LEMMA ChainInit == Init => ChainInv
<1> SUFFICES ASSUME Init PROVE ChainInv
  OBVIOUS
<1> DEFINE s == [k \in 0 .. RingSize |-> k]
<1>1. /\ shadow = [id \in Ids |-> [request |-> NoReq, seq_no |-> id + 1]] /\ shadow_free = 0
  BY DEF Init, FrontInit
<1>2. FreeIds = Ids /\ Ids = 0 .. RingSize - 1 /\ EndOfList = RingSize /\ RingSize \in Nat \ {0}
  BY <1>1, RingAssumption DEF FreeIds, Ids, Allocated, EndOfList
<1>3. Cardinality(FreeIds) = RingSize
  BY <1>2, FS_Interval
<1>4. s \in [0 .. RingSize -> Ids \cup {EndOfList}]
  BY <1>2
<1>5. Walk(s, RingSize, shadow_free, FreeIds, shadow)
  <2>1. \A k \in 0 .. RingSize - 1 : s[k] \in FreeIds /\ s[k + 1] = shadow[s[k]].seq_no
    BY <1>1, <1>2
  <2>2. \A id \in FreeIds : s[id] = id
    BY <1>2
  <2>3. s[0] = shadow_free /\ s[RingSize] = EndOfList
    BY <1>1, <1>2
  <2>4. \A k \in 0 .. RingSize - 1, m \in 0 .. RingSize - 1 : s[k] = s[m] => k = m
    BY <1>2
  <2> HIDE DEF s
  <2> QED BY <1>2, <1>4, <2>1, <2>2, <2>3, <2>4 DEF Walk
<1> HIDE DEF s
<1> QED BY <1>3, <1>4, <1>5 DEF ChainInv

\* The head is taken off the list.
LEMMA WalkTake ==
  ASSUME NEW n \in Nat \ {0}, NEW s, NEW i, NEW F, NEW sh, Walk(s, n, i, F, sh),
         NEW sh2, \A j \in F : j # i => sh2[j] = sh[j]
  PROVE  \E t : Walk(t, n - 1, sh[i].seq_no, F \ {i}, sh2)
<1> DEFINE t == [k \in 0 .. n - 1 |-> s[k + 1]]
<1>4. /\ s \in [0 .. n -> Ids \cup {EndOfList}] /\ s[0] = i /\ s[n] = EndOfList
      /\ \A k \in 0 .. n - 1 : s[k] \in F /\ s[k + 1] = sh[s[k]].seq_no
      /\ \A k \in 0 .. n - 1, m \in 0 .. n - 1 : s[k] = s[m] => k = m
      /\ \A id \in F : \E k \in 0 .. n - 1 : s[k] = id
  BY DEF Walk
<1>5. \A k \in 0 .. n - 1 : k + 1 \in 0 .. n /\ t[k] = s[k + 1]
  OBVIOUS
<1>6. t \in [0 .. n - 1 -> Ids \cup {EndOfList}]
  BY <1>4, <1>5
<1>7. t[0] = sh[i].seq_no /\ t[n - 1] = EndOfList
  <2>1. 0 \in 0 .. n - 1 /\ n - 1 \in 0 .. n - 1 /\ (n - 1) + 1 = n /\ 0 + 1 = 1
    OBVIOUS
  <2> QED BY <2>1, <1>4, <1>5
<1>8. \A k \in 0 .. (n - 1) - 1 : t[k] \in F \ {i} /\ t[k + 1] = sh2[t[k]].seq_no
  <2> TAKE k \in 0 .. (n - 1) - 1
  <2>1. k \in 0 .. n - 1 /\ k + 1 \in 0 .. n - 1 /\ 0 \in 0 .. n - 1 /\ k + 1 # 0
    OBVIOUS
  <2>2. s[k + 1] # s[0]
    BY <1>4, <2>1
  <2>3. t[k] = s[k + 1] /\ t[k + 1] = s[(k + 1) + 1]
    BY <1>5, <2>1
  <2>4. s[k + 1] \in F /\ s[(k + 1) + 1] = sh[s[k + 1]].seq_no
    BY <1>4, <2>1
  <2> HIDE DEF t
  <2> QED BY <1>4, <2>2, <2>3, <2>4
<1>9. \A k \in 0 .. (n - 1) - 1, m \in 0 .. (n - 1) - 1 : t[k] = t[m] => k = m
  <2> TAKE k \in 0 .. (n - 1) - 1, m \in 0 .. (n - 1) - 1
  <2>1. /\ k \in 0 .. n - 1 /\ k + 1 \in 0 .. n - 1 /\ m \in 0 .. n - 1 /\ m + 1 \in 0 .. n - 1
        /\ (k + 1 = m + 1 => k = m)
    OBVIOUS
  <2>2. t[k] = s[k + 1] /\ t[m] = s[m + 1]
    BY <1>5, <2>1
  <2> HIDE DEF t
  <2> QED BY <1>4, <2>1, <2>2
<1>10. \A id \in F \ {i} : \E k \in 0 .. (n - 1) - 1 : t[k] = id
  <2> TAKE id \in F \ {i}
  <2>1. PICK k \in 0 .. n - 1 : s[k] = id
    BY <1>4
  <2>2. k # 0
    BY <1>4, <2>1
  <2>3. k - 1 \in 0 .. (n - 1) - 1 /\ k - 1 \in 0 .. n - 1 /\ (k - 1) + 1 = k
    BY <2>2
  <2>4. t[k - 1] = s[(k - 1) + 1]
    BY <1>5, <2>3
  <2> HIDE DEF t
  <2>5. t[k - 1] = id
    BY <2>1, <2>3, <2>4
  <2> QED BY <2>3, <2>5
<1> HIDE DEF t
<1>11. Walk(t, n - 1, sh[i].seq_no, F \ {i}, sh2)
  BY <1>6, <1>7, <1>8, <1>9, <1>10 DEF Walk
<1> QED BY <1>11

\* An id becomes the new head.
LEMMA WalkPut ==
  ASSUME NEW n \in Nat, NEW s, NEW h, NEW F, NEW sh, Walk(s, n, h, F, sh),
         NEW i \in Ids, i \notin F, NEW sh2, sh2[i].seq_no = h, \A j \in F : sh2[j] = sh[j]
  PROVE  \E t : Walk(t, n + 1, i, F \cup {i}, sh2)
<1> DEFINE t == [k \in 0 .. n + 1 |-> IF k = 0 THEN i ELSE s[k - 1]]
<1>4. /\ s \in [0 .. n -> Ids \cup {EndOfList}] /\ s[0] = h /\ s[n] = EndOfList
      /\ \A k \in 0 .. n - 1 : s[k] \in F /\ s[k + 1] = sh[s[k]].seq_no
      /\ \A k \in 0 .. n - 1, m \in 0 .. n - 1 : s[k] = s[m] => k = m
      /\ \A id \in F : \E k \in 0 .. n - 1 : s[k] = id
  BY DEF Walk
<1>5. t[0] = i /\ \A k \in 1 .. n + 1 : k - 1 \in 0 .. n /\ t[k] = s[k - 1]
  OBVIOUS
<1>6. t \in [0 .. n + 1 -> Ids \cup {EndOfList}]
  <2>1. \A k \in 0 .. n + 1 : k = 0 \/ k \in 1 .. n + 1
    OBVIOUS
  <2>2. \A k \in 0 .. n + 1 : t[k] \in Ids \cup {EndOfList}
    BY <1>4, <1>5, <2>1
  <2> QED BY <2>2
<1>7. t[n + 1] = EndOfList
  <2>1. n + 1 \in 1 .. n + 1 /\ (n + 1) - 1 = n
    OBVIOUS
  <2>2. t[n + 1] = s[(n + 1) - 1]
    BY <1>5, <2>1
  <2> HIDE DEF t
  <2> QED BY <1>4, <2>1, <2>2
<1>8. \A k \in 0 .. (n + 1) - 1 : t[k] \in F \cup {i} /\ t[k + 1] = sh2[t[k]].seq_no
  <2> TAKE k \in 0 .. (n + 1) - 1
  <2>1. CASE k = 0
    <3>1. 1 \in 1 .. n + 1 /\ 1 - 1 = 0 /\ 0 + 1 = 1
      OBVIOUS
    <3>2. t[1] = s[1 - 1] /\ t[k] = i /\ t[k + 1] = t[1]
      BY <1>5, <2>1, <3>1
    <3> HIDE DEF t
    <3> QED BY <1>4, <3>1, <3>2
  <2>2. CASE k # 0
    <3>1. /\ k \in 1 .. n + 1 /\ k + 1 \in 1 .. n + 1 /\ k - 1 \in 0 .. n - 1
          /\ (k + 1) - 1 = (k - 1) + 1
      BY <2>2
    <3>2. t[k] = s[k - 1] /\ t[k + 1] = s[(k + 1) - 1]
      BY <1>5, <3>1
    <3>3. s[k - 1] \in F /\ s[(k - 1) + 1] = sh[s[k - 1]].seq_no
      BY <1>4, <3>1
    <3> HIDE DEF t
    <3> QED BY <3>1, <3>2, <3>3
  <2> QED BY <2>1, <2>2
<1>9. \A k \in 0 .. (n + 1) - 1, m \in 0 .. (n + 1) - 1 : t[k] = t[m] => k = m
  <2> TAKE k \in 0 .. (n + 1) - 1, m \in 0 .. (n + 1) - 1
  <2>1. \A j \in 0 .. (n + 1) - 1 : j = 0 \/ (j \in 1 .. n + 1 /\ j - 1 \in 0 .. n - 1)
    OBVIOUS
  <2>2. \A j \in 0 .. (n + 1) - 1 : j # 0 => t[j] = s[j - 1] /\ t[j] \in F
    BY <1>4, <1>5, <2>1
  <2>3. CASE k = 0 \/ m = 0
    <3>1. t[0] = i /\ t[0] \notin F
      BY <1>5
    <3> HIDE DEF t
    <3>2. k = 0 /\ m # 0 => t[k] # t[m]
      BY <2>2, <3>1
    <3>3. k # 0 /\ m = 0 => t[k] # t[m]
      BY <2>2, <3>1
    <3> QED BY <2>3, <3>2, <3>3
  <2>4. CASE k # 0 /\ m # 0
    <3>1. t[k] = s[k - 1] /\ t[m] = s[m - 1] /\ k - 1 \in 0 .. n - 1 /\ m - 1 \in 0 .. n - 1
      BY <2>1, <2>2, <2>4
    <3>2. k - 1 = m - 1 => k = m
      OBVIOUS
    <3> HIDE DEF t
    <3> QED BY <1>4, <3>1, <3>2
  <2> QED BY <2>3, <2>4
<1>10. \A id \in F \cup {i} : \E k \in 0 .. (n + 1) - 1 : t[k] = id
  <2> TAKE id \in F \cup {i}
  <2>1. CASE id = i
    <3>1. 0 \in 0 .. (n + 1) - 1
      OBVIOUS
    <3> QED BY <1>5, <2>1, <3>1
  <2>2. CASE id \in F
    <3>1. PICK k \in 0 .. n - 1 : s[k] = id
      BY <1>4, <2>2
    <3>2. k + 1 \in 0 .. (n + 1) - 1 /\ k + 1 \in 1 .. n + 1 /\ (k + 1) - 1 = k
      OBVIOUS
    <3>3. t[k + 1] = s[(k + 1) - 1]
      BY <1>5, <3>2
    <3> HIDE DEF t
    <3>4. t[k + 1] = id
      BY <3>1, <3>2, <3>3
    <3> QED BY <3>2, <3>4
  <2> QED BY <2>1, <2>2
<1> HIDE DEF t
<1>11. Walk(t, n + 1, i, F \cup {i}, sh2)
  BY <1>5, <1>6, <1>7, <1>8, <1>9, <1>10 DEF Walk
<1> QED BY <1>11

\* The list as it is after a step that takes its head or puts an id before it, or
\* leaves it alone.
LEMMA ChainTake ==
  ASSUME ChainInv, NEW i, i = shadow_free, i < RingSize, shadow_free' = shadow[i].seq_no,
         FreeIds' = FreeIds \ {i}, \A j \in FreeIds : j # i => shadow'[j] = shadow[j]
  PROVE  ChainInv'
<1> DEFINE n == Cardinality(FreeIds)
<1>1. PICK s : Walk(s, n, i, FreeIds, shadow)
  BY DEF ChainInv
<1>2. i \in FreeIds /\ n \in Nat \ {0}
  BY HeadIsFree, FreeIdsFinite, FS_EmptySet
<1>3. Cardinality(FreeIds') = n - 1
  BY <1>2, FreeIdsFinite, FS_RemoveElement
<1> HIDE DEF n
<1>4. PICK t : Walk(t, n - 1, shadow_free', FreeIds', shadow')
  BY <1>1, <1>2, WalkTake
<1>5. t \in [0 .. n - 1 -> Ids \cup {EndOfList}]
  BY <1>4 DEF Walk
<1> QED BY <1>3, <1>4, <1>5, Zenon DEF ChainInv

\* add_id_to_freelist keeps the list a walk.
LEMMA ChainPut ==
  ASSUME ChainInv, NEW i \in Ids, i \notin FreeIds, shadow_free' = i,
         FreeIds' = FreeIds \cup {i}, shadow'[i].seq_no = shadow_free,
         \A j \in FreeIds : shadow'[j] = shadow[j]
  PROVE  ChainInv'
<1> DEFINE n == Cardinality(FreeIds)
<1>1. PICK s : Walk(s, n, shadow_free, FreeIds, shadow)
  BY DEF ChainInv
<1>2. n \in Nat
  BY FreeIdsFinite
<1>3. Cardinality(FreeIds') = n + 1
  BY FreeIdsFinite, FS_AddElement
<1> HIDE DEF n
<1>4. PICK t : Walk(t, n + 1, shadow_free', FreeIds', shadow')
  BY <1>1, <1>2, WalkPut
<1>5. t \in [0 .. n + 1 -> Ids \cup {EndOfList}]
  BY <1>4 DEF Walk
<1> QED BY <1>3, <1>4, <1>5, Zenon DEF ChainInv

\* Steps that do not touch the table keep the list.
LEMMA ChainSame ==
  ASSUME ChainInv, UNCHANGED <<shadow, shadow_free>> PROVE ChainInv'
<1>1. FreeIds' = FreeIds
  BY DEF FreeIds, Allocated
<1>2. shadow' = shadow /\ shadow_free' = shadow_free
  OBVIOUS
<1> QED BY <1>1, <1>2, Zenon DEF ChainInv

-----------------------------------------------------------------------------
(* The three invariants together *)

IdInv == HolderInv /\ CountInv /\ ChainInv

\* Every step keeps the three invariants.
LEMMA IdStep ==
  ASSUME TypeInv, RingInv, IdInv, Next PROVE IdInv'
<1>1. CASE Still
  <2>1. HolderInv' /\ CountInv'
    BY <1>1, StillHolder DEF IdInv
  <2>2. ChainInv'
    BY <1>1, ChainSame DEF IdInv, Still
  <2> QED BY <2>1, <2>2 DEF IdInv
<1>2. CASE QueueRequest /\ UNCHANGED backVars
  <2>1. HolderInv' /\ CountInv'
    BY <1>2, QueueHolder DEF IdInv
  <2>2. /\ shadow_free < RingSize /\ Head(queue) \in Request /\ Head(queue) # NoReq
        /\ shadow_free' = shadow[shadow_free].seq_no
        /\ shadow' = [shadow EXCEPT ![shadow_free] = [request |-> Head(queue), seq_no |-> shadow_free]]
    BY <1>2, FrontAssumption DEF QueueRequest, TakeId, TypeInv, TypeOK, FrontTypeOK
  <2>3. shadow_free \in Ids
    BY <2>2, HeadIsFree DEF IdInv, FreeIds
  <2>4. FreeIds' = FreeIds \ {shadow_free}
        /\ \A j \in FreeIds : j # shadow_free => shadow'[j] = shadow[j]
    BY <2>2, <2>3 DEF FreeIds, Allocated, TypeInv, TypeOK, FrontTypeOK
  <2>5. ChainInv'
    BY <2>2, <2>4, ChainTake DEF IdInv
  <2> QED BY <2>1, <2>5 DEF IdInv
<1>3. CASE HandleStep
  <2>1. HolderInv' /\ CountInv'
    BY <1>3, HandleHolder DEF IdInv
  <2>2. /\ IdOn[f_i] \in InUse /\ shadow_free' = IdOn[f_i]
        /\ shadow' = [shadow EXCEPT ![IdOn[f_i]] = [request |-> NoReq, seq_no |-> shadow_free]]
    BY <1>3, HandleEffect DEF IdInv
  <2>3. /\ IdOn[f_i] \in Ids /\ IdOn[f_i] \notin FreeIds
        /\ FreeIds' = FreeIds \cup {IdOn[f_i]}
        /\ shadow'[IdOn[f_i]].seq_no = shadow_free
        /\ \A j \in FreeIds : shadow'[j] = shadow[j]
    BY <2>2 DEF FreeIds, InUse, Allocated, TypeInv, TypeOK, FrontTypeOK
  <2>4. ChainInv'
    BY <2>2, <2>3, ChainPut DEF IdInv
  <2> QED BY <2>1, <2>4 DEF IdInv
<1>4. ASSUME NEW p \in Pending, Claim(p) \/ Respond(p), UNCHANGED frontVars PROVE IdInv'
  <2>1. HolderInv' /\ CountInv'
    BY <1>4, ClaimHolder, RespondHolder DEF IdInv
  <2>2. UNCHANGED <<shadow, shadow_free>>
    BY <1>4 DEF frontVars, fshadowVars
  <2>3. ChainInv'
    BY <2>2, ChainSame DEF IdInv
  <2> QED BY <2>1, <2>3 DEF IdInv
<1> QED BY <1>1, <1>2, <1>3, <1>4, FrontMoves, BackMoves DEF Next

\* They hold in every state.
LEMMA IdInvariant == Spec => []IdInv
<1>1. Init => IdInv
  BY HolderInit, ChainInit DEF IdInv
<1>2. IdInv /\ UNCHANGED vars => IdInv'
  <2> SUFFICES ASSUME IdInv, UNCHANGED vars PROVE IdInv'
    OBVIOUS
  <2>1. Still
    BY DEF vars, frontVars, backVars, fshadowVars, fidxVars, fctlVars, sringVars, bidxVars,
           Still, RspNext, InService
  <2>2. ChainInv'
    BY <2>1, ChainSame DEF IdInv, Still
  <2> QED BY <2>1, <2>2, StillHolder DEF IdInv
<1>3. TypeInv /\ RingInv /\ IdInv /\ [Next]_vars => IdInv'
  BY <1>2, IdStep
<1> QED BY <1>1, <1>3, TypeInvariant, RingInvariant, PTL DEF Spec

\* Every id the front end has given away is in exactly one place, a request not
\* read, a pending_req or a response not handled, and any other id in none: no
\* request is lost, answered twice or overwritten, whatever the failures of the
\* back end and the order in which it completes.
THEOREM HeldOnce == Spec => []OneHolder
<1>1. TypeInv /\ RingInv /\ IdInv => OneHolder
  <2> SUFFICES ASSUME TypeInv, RingInv, IdInv, NEW id \in Ids
               PROVE  Cardinality(RequestsFor(id)) + Cardinality(ServiceFor(id))
                        + Cardinality(ResponsesFor(id)) = IF Allocated(id) THEN 1 ELSE 0
    BY DEF OneHolder
  <2>1. /\ RequestsFor(id) = {x \in UnreadRequests : IdOn[x] = id}
        /\ ServiceFor(id) = {p \in InService : IdIn[p] = id}
        /\ ResponsesFor(id) = {x \in UnreadResponses : IdOn[x] = id}
    <3>1. RequestsFor(id) = {x \in UnreadRequests : IdOn[x] = id}
      <4>1. \A x \in UnreadRequests : ring[SlotOf(x)] = ReqMsg(IdOn[x])
        BY DEF IdInv, HolderInv
      <4>2. \A a, b : ReqMsg(a) = ReqMsg(b) <=> a = b
        BY DEF ReqMsg
      <4> QED BY <4>1, <4>2 DEF RequestsFor
    <3>2. ServiceFor(id) = {p \in InService : IdIn[p] = id}
      BY DEF ServiceFor, InService, IdIn
    <3>3. ResponsesFor(id) = {x \in UnreadResponses : IdOn[x] = id}
      <4>1. \A x \in UnreadResponses : ring[SlotOf(x)].kind = "rsp" /\ IdOn[x] = ring[SlotOf(x)].seq_no
        BY UnreadRanks DEF IdInv, HolderInv, IdOn, Unread
      <4> QED BY <4>1 DEF ResponsesFor
    <3> QED BY <3>1, <3>2, <3>3
  <2>2. OneEach(Unread, InService, IdOn, IdIn, InUse) /\ UnreadRequests \cap UnreadResponses = {}
    BY UnreadRanks DEF IdInv, HolderInv
  <2>3. Cardinality({}) = 0 /\ \A x : Cardinality({x}) = 1
    BY FS_EmptySet, FS_Singleton
  <2>4. CASE ~Allocated(id)
    <3>1. id \notin InUse
      BY <2>4 DEF InUse
    <3>2. RequestsFor(id) = {} /\ ServiceFor(id) = {} /\ ResponsesFor(id) = {}
      BY <2>1, <2>2, <3>1 DEF OneEach, Unread
    <3>3. /\ Cardinality(RequestsFor(id)) = 0 /\ Cardinality(ServiceFor(id)) = 0
          /\ Cardinality(ResponsesFor(id)) = 0
      BY <2>3, <3>2, Zenon
    <3> QED BY <2>4, <3>3
  <2>5. ASSUME NEW x \in Unread, IdOn[x] = id, Allocated(id)
        PROVE  Cardinality(RequestsFor(id)) + Cardinality(ServiceFor(id))
                 + Cardinality(ResponsesFor(id)) = 1
    <3>1. ServiceFor(id) = {} /\ \A y \in Unread : IdOn[y] = id => y = x
      BY <2>1, <2>2, <2>5 DEF OneEach
    <3>2. \/ RequestsFor(id) = {x} /\ ResponsesFor(id) = {}
          \/ RequestsFor(id) = {} /\ ResponsesFor(id) = {x}
      <4>1. CASE x \in UnreadRequests
        BY <2>1, <2>2, <2>5, <3>1, <4>1 DEF Unread
      <4>2. CASE x \in UnreadResponses
        BY <2>1, <2>2, <2>5, <3>1, <4>2 DEF Unread
      <4> QED BY <4>1, <4>2 DEF Unread
    <3>3. Cardinality({x}) = 1 /\ 1 \in Nat
      BY <2>3
    <3>4. CASE RequestsFor(id) = {x} /\ ResponsesFor(id) = {}
      <4>1. /\ Cardinality(RequestsFor(id)) = 1 /\ Cardinality(ServiceFor(id)) = 0
            /\ Cardinality(ResponsesFor(id)) = 0
        BY <2>3, <3>1, <3>3, <3>4, Zenon
      <4> QED BY <4>1
    <3>5. CASE RequestsFor(id) = {} /\ ResponsesFor(id) = {x}
      <4>1. /\ Cardinality(RequestsFor(id)) = 0 /\ Cardinality(ServiceFor(id)) = 0
            /\ Cardinality(ResponsesFor(id)) = 1
        BY <2>3, <3>1, <3>3, <3>5, Zenon
      <4> QED BY <4>1
    <3> QED BY <3>2, <3>4, <3>5
  <2>6. ASSUME NEW p \in InService, IdIn[p] = id, Allocated(id)
        PROVE  Cardinality(RequestsFor(id)) + Cardinality(ServiceFor(id))
                 + Cardinality(ResponsesFor(id)) = 1
    <3>1. ServiceFor(id) = {p}
      BY <2>1, <2>2, <2>6 DEF OneEach
    <3>2. RequestsFor(id) = {} /\ ResponsesFor(id) = {}
      BY <2>1, <2>2, <2>6 DEF OneEach, Unread
    <3>3. /\ Cardinality(RequestsFor(id)) = 0 /\ Cardinality(ServiceFor(id)) = 1
          /\ Cardinality(ResponsesFor(id)) = 0
      BY <2>3, <3>1, <3>2, Zenon
    <3> QED BY <3>3
  <2>7. Allocated(id) => (\E x \in Unread : IdOn[x] = id) \/ (\E p \in InService : IdIn[p] = id)
    BY <2>2 DEF OneEach, InUse
  <2> QED BY <2>4, <2>5, <2>6, <2>7
<1> QED BY <1>1, TypeInvariant, RingInvariant, IdInvariant, PTL

\* A walk is what FreeListAt computes: by induction along the list.
LEMMA WalkIsFreeList ==
  ASSUME NEW n \in 0 .. RingSize, NEW s, Walk(s, n, shadow_free, FreeIds, shadow)
  PROVE  \A k \in 0 .. n : FreeListAt[k] = s[k]
<1> DEFINE Body(f) == [k \in 0 .. RingSize |->
                         IF k = 0 THEN shadow_free
                         ELSE IF f[k - 1] \in Ids THEN shadow[f[k - 1]].seq_no ELSE EndOfList]
           t == [k \in 0 .. RingSize |-> IF k <= n THEN s[k] ELSE EndOfList]
<1>1. /\ s \in [0 .. n -> Ids \cup {EndOfList}] /\ s[0] = shadow_free /\ s[n] = EndOfList
      /\ \A k \in 0 .. n - 1 : s[k] \in Ids /\ s[k + 1] = shadow[s[k]].seq_no
  BY DEF Walk, FreeIds
<1>2. RingSize \in Nat /\ n \in Nat /\ n <= RingSize /\ EndOfList \notin Ids
  BY RingAssumption DEF EndOfList, Ids
<1>3. \A k \in 0 .. RingSize : t[k] = Body(t)[k]
  <2> TAKE k \in 0 .. RingSize
  <2>1. CASE k = 0
    BY <1>1, <1>2, <2>1
  <2>2. CASE k # 0 /\ k <= n
    <3>1. k - 1 \in 0 .. n - 1 /\ (k - 1) + 1 = k /\ k - 1 \in 0 .. RingSize /\ k - 1 <= n
      BY <1>2, <2>2
    <3>2. t[k - 1] = s[k - 1] /\ t[k] = s[k]
      BY <2>2, <3>1
    <3>3. s[k - 1] \in Ids /\ s[k] = shadow[s[k - 1]].seq_no
      BY <1>1, <3>1
    <3> HIDE DEF t
    <3> QED BY <2>2, <3>2, <3>3
  <2>3. CASE k > n
    <3>1. k # 0 /\ k - 1 \in 0 .. RingSize /\ (k - 1 = n \/ k - 1 > n)
      BY <1>2, <2>3
    <3>2. t[k - 1] = EndOfList
      BY <1>1, <1>2, <3>1
    <3>3. t[k] = EndOfList
      BY <1>2, <2>3
    <3> HIDE DEF t
    <3> QED BY <1>2, <3>1, <3>2, <3>3
  <2> QED BY <1>2, <2>1, <2>2, <2>3
<1>4. t = Body(t)
  BY <1>3
<1>5. FreeListAt = CHOOSE f : f = Body(f)
  BY DEF FreeListAt
<1> HIDE DEF t
<1>6. FreeListAt = Body(FreeListAt)
  <2>1. \E f : f = Body(f)
    BY <1>4
  <2> HIDE DEF Body
  <2> QED BY <1>5, <2>1, Zenon
<1>7. /\ FreeListAt[0] = shadow_free
      /\ \A k \in 1 .. RingSize :
           FreeListAt[k - 1] \in Ids => FreeListAt[k] = shadow[FreeListAt[k - 1]].seq_no
  <2>1. \A k \in 0 .. RingSize : FreeListAt[k] = Body(FreeListAt)[k]
    BY <1>6, Zenon
  <2>2. 0 \in 0 .. RingSize /\ \A k \in 1 .. RingSize : k \in 0 .. RingSize /\ k # 0
    BY <1>2
  <2> QED BY <2>1, <2>2
<1> HIDE DEF Body
<1> DEFINE T == {k \in 0 .. n : FreeListAt[k] = s[k]}
<1>8. 0 \in T
  BY <1>1, <1>2, <1>7
<1>9. \A k \in 0 .. n - 1 : k \in T => k + 1 \in T
  <2> SUFFICES ASSUME NEW k \in 0 .. n - 1, FreeListAt[k] = s[k] PROVE k + 1 \in T
    OBVIOUS
  <2>1. k + 1 \in 1 .. RingSize /\ (k + 1) - 1 = k /\ k + 1 \in 0 .. n
    BY <1>2
  <2>2. FreeListAt[k + 1] = shadow[FreeListAt[k]].seq_no
    BY <1>1, <1>7, <2>1
  <2> QED BY <1>1, <2>1, <2>2
<1>10. 0 .. n \subseteq T
  <2> HIDE DEF T
  <2> QED BY <1>2, <1>8, <1>9, InductionUpTo
<1> QED BY <1>10

\* The free list never loses an id and never runs into a circle, whatever the
\* order in which responses give the ids back, and the BUG_ON of
\* get_id_from_freelist never fires.
THEOREM IdsAlwaysSuffice == Spec => []IdsSuffice
<1>1. TypeInv /\ RingInv /\ IdInv => FreeListIntact
  <2> SUFFICES ASSUME IdInv PROVE FreeListIntact
    OBVIOUS
  <2> DEFINE n == Cardinality(FreeIds)
  <2>1. PICK s : Walk(s, n, shadow_free, FreeIds, shadow)
    BY DEF IdInv, ChainInv
  <2>2. n \in 0 .. RingSize
    BY FreeIdsFinite, RingAssumption
  <2>3. \A k \in 0 .. n : FreeListAt[k] = s[k]
    BY <2>1, <2>2, WalkIsFreeList
  <2>4. {FreeListAt[k] : k \in 0 .. n - 1} = FreeIds
    <3> HIDE DEF n
    <3>1. \A k \in 0 .. n - 1 : k \in 0 .. n /\ FreeListAt[k] = s[k]
      BY <2>2, <2>3
    <3> QED BY <2>1, <3>1 DEF Walk
  <2>5. FreeListAt[n] = EndOfList
    <3> HIDE DEF n
    <3>1. n \in 0 .. n
      BY <2>2
    <3> QED BY <2>1, <2>3, <3>1 DEF Walk
  <2>6. \A id \in Ids : Allocated(id) => shadow[id].seq_no = id
    BY DEF IdInv, HolderInv, InUse
  <2> QED BY <2>4, <2>5, <2>6 DEF FreeListIntact
<1>2. TypeInv /\ RingInv /\ IdInv => IdForEveryFreeSlot
  <2> SUFFICES ASSUME TypeInv, RingInv, IdInv, fpc = "peek", ~RING_FULL(req_prod_pvt, rsp_cons)
               PROVE  shadow_free < RingSize
    BY DEF IdForEveryFreeSlot
  <2>1. RspNext = rsp_cons
    BY DEF RspNext
  <2>2. Rank(req_prod_pvt) # RingSize
    BY <2>1, RingAssumption DEF RING_FULL, RING_FREE_REQUESTS, Minus, Rank
  <2>3. Rank(req_prod_pvt) \in Int /\ Rank(req_prod_pvt) < RingSize
    <3>1. Rank(req_prod_pvt) \in Int /\ RingSize \in Int
      BY IndexTypes, RankType
    <3> QED BY <3>1, <2>2, RankOrder
  <2>4. Cardinality(FreeIds) # 0
    <3>1. Cardinality(InUse) = Rank(req_prod_pvt)
      BY DEF IdInv, CountInv, Rank
    <3> QED BY <3>1, <2>3, FreeIdsFinite, RingAssumption
  <2>5. FreeIds # {}
    BY <2>4, FS_EmptySet
  <2> QED BY <2>5, HeadIsFree DEF IdInv
<1>3. TypeInv /\ RingInv /\ IdInv => IdsSuffice
  BY <1>1, <1>2 DEF IdsSuffice
<1> QED BY <1>3, TypeInvariant, RingInvariant, IdInvariant, PTL

-----------------------------------------------------------------------------
(* The pool of the back end *)

\* Only the last bio of a request and fail_response begin a way to free_req, and
\* the bound on contexts admits them one at a time.
LEMMA FinishingStep ==
  ASSUME TypeInv, Next
  PROVE  \/ Finishing' \subseteq Finishing
         \/ /\ Cardinality(Finishing) < MaxFinishing
            /\ \E p \in Pending : Finishing' \subseteq Finishing \cup {p}
<1> DEFINE Ends == {"respond", "notify", "release"}
<1>1. CASE stage' = stage
  BY <1>1 DEF Finishing
<1>2. ASSUME NEW p \in Pending, NEW to, stage' = [stage EXCEPT ![p] = to],
             to \in Ends => stage[p] \in Ends \/ Cardinality(Finishing) < MaxFinishing
      PROVE  \/ Finishing' \subseteq Finishing
             \/ /\ Cardinality(Finishing) < MaxFinishing
                /\ \E q \in Pending : Finishing' \subseteq Finishing \cup {q}
  <2>1. \A q \in Pending : q # p => stage'[q] = stage[q]
    BY <1>2 DEF TypeInv, TypeOK, BackTypeOK
  <2>2. Finishing' \subseteq Finishing \cup {p}
    BY <2>1 DEF Finishing
  <2>3. p \in Finishing' => to \in Ends
    BY <1>2 DEF Finishing, TypeInv, TypeOK, BackTypeOK
  <2>4. stage[p] \in Ends => p \in Finishing
    BY DEF Finishing
  <2> QED BY <1>2, <2>2, <2>3, <2>4
<1>3. CASE FrontNext /\ UNCHANGED backVars
  BY <1>1, <1>3 DEF backVars
<1>4. CASE RequestThread \/ BackIrq
  <2> USE DEF BackAt, BackGoto, bctlVars
  <2>1. CASE \/ BackWait \/ BackLook \/ BatchStart \/ BatchEnd \/ AllocFails \/ RejectDone
             \/ BatchFinalCheck \/ BackSpin \/ BackMarkSleeping \/ BackClearWaiting \/ BackRecheck
             \/ BackIrq
    BY <1>1, <2>1 DEF BackWait, BackLook, BatchStart, BatchEnd, AllocFails, RejectDone,
       BatchFinalCheck, BackSpin, BackMarkSleeping, BackClearWaiting, BackRecheck, BackIrq,
       BackIrqFlag, BackIrqWake, BackIrqDone
  <2>2. ASSUME NEW p \in Pending, Claim(p) PROVE stage' = [stage EXCEPT ![p] = "claimed"]
    BY <2>2 DEF Claim
  <2>3. bpc = "dispatch" => cur \in Pending
    BY DEF TypeInv, PendingInv
  <2>4. ASSUME NEW n \in 1 .. MaxBios, Dispatch(n) \/ DispatchNoBio
        PROVE  cur \in Pending /\ stage' = [stage EXCEPT ![cur] = "io"]
    BY <2>3, <2>4 DEF Dispatch, DispatchNoBio
  <2>5. CASE DispatchNoBio
    BY <1>2, <2>3, <2>5 DEF DispatchNoBio
  <2>6. CASE DispatchRejects
    BY <1>2, <2>3, <2>6 DEF DispatchRejects
  <2> QED BY <1>2, <1>4, <2>1, <2>2, <2>4, <2>5, <2>6 DEF RequestThread, DoBlockIoOp
<1>5. ASSUME NEW p \in Pending, NEW err \in {0, -1}, EndBio(p, err)
      PROVE  \E to : /\ stage' = [stage EXCEPT ![p] = to]
                     /\ to \in Ends => Cardinality(Finishing) < MaxFinishing
  BY <1>5 DEF EndBio
<1>6. ASSUME NEW p \in Pending, Respond(p) \/ NotifyFront(p) \/ Release(p)
      PROVE  \E to : stage' = [stage EXCEPT ![p] = to] /\ (to \in Ends => stage[p] \in Ends)
  BY <1>6 DEF Respond, NotifyFront, Release
<1> QED BY <1>2, <1>3, <1>4, <1>5, <1>6 DEF Next, BackNext

\* The contexts on their way to free_req can be counted.
LEMMA FinishingFinite == IsFiniteSet(Finishing) /\ Cardinality(Finishing) \in Nat
<1>1. Finishing \in SUBSET Pending
  BY DEF Finishing
<1> QED BY <1>1, FS_Subset, FS_CardinalityType, BackAssumption

\* They are never more than MaxFinishing.
LEMMA FinishingInvariant == Spec => []FinishingInv
<1>1. Init => FinishingInv
  <2> SUFFICES ASSUME Init PROVE FinishingInv
    OBVIOUS
  <2>1. Finishing = {}
    BY DEF Init, BackInit, Finishing
  <2>2. Cardinality(Finishing) = 0
    BY <2>1, FS_EmptySet
  <2> QED BY <2>2, BackAssumption DEF FinishingInv
<1>2. TypeInv /\ FinishingInv /\ Next => FinishingInv'
  <2> SUFFICES ASSUME TypeInv, FinishingInv, Next PROVE FinishingInv'
    OBVIOUS
  <2>1. CASE Finishing' \subseteq Finishing
    <3>1. Cardinality(Finishing') <= Cardinality(Finishing) /\ Cardinality(Finishing') \in Nat
      BY <2>1, FinishingFinite, FS_Subset, FS_CardinalityType
    <3> QED BY <3>1, FinishingFinite, BackAssumption DEF FinishingInv
  <2>2. ASSUME NEW p \in Pending, Finishing' \subseteq Finishing \cup {p},
               Cardinality(Finishing) < MaxFinishing
        PROVE  FinishingInv'
    <3>1. IsFiniteSet(Finishing \cup {p}) /\ Cardinality(Finishing \cup {p}) <= Cardinality(Finishing) + 1
      BY FinishingFinite, FS_AddElement
    <3>2. /\ Cardinality(Finishing') <= Cardinality(Finishing \cup {p})
          /\ Cardinality(Finishing') \in Nat /\ Cardinality(Finishing \cup {p}) \in Nat
      BY <2>2, <3>1, FS_Subset, FS_CardinalityType
    <3> QED BY <2>2, <3>1, <3>2, FinishingFinite, BackAssumption DEF FinishingInv
  <2> QED BY <2>1, <2>2, FinishingStep
<1>3. FinishingInv /\ UNCHANGED vars => FinishingInv'
  BY DEF FinishingInv, Finishing, vars, backVars
<1> QED BY <1>1, <1>2, <1>3, TypeInvariant, PTL DEF Spec

\* A pool of RingSize structures and one for each context that may be on its way
\* to free_req is never found empty: the requests in service are as many as the
\* indices between the two ends of the back end, and a request is only taken
\* while those are less than a ring.
THEOREM PoolNeverEmpty == Spec => []PoolSuffices
<1>1. TypeInv /\ RingInv /\ FinishingInv => PoolSuffices
  <2> SUFFICES ASSUME TypeInv, RingInv, FinishingInv, Takeable, Pool = {}
               PROVE  Cardinality(Pending) < RingSize + MaxFinishing
    <3>1. Cardinality(Pending) \in Int /\ RingSize \in Int /\ MaxFinishing \in Int
      BY FS_CardinalityType, BackAssumption, RingAssumption
    <3> QED BY <3>1 DEF PoolSuffices
  <2>1. Pending \subseteq InService \cup Finishing
    BY DEF Pool, InService, Finishing, TypeInv, TypeOK, BackTypeOK
  <2>2. Cardinality(InService) = Minus(req_cons, rsp_prod) /\ rsp_prod = rsp_prod_pvt
    BY DEF RingInv, ServiceCount
  <2>3. Cardinality(InService) < RingSize
    <3>1. ~(Minus(req_cons, rsp_prod_pvt) >= RingSize)
      BY DEF Takeable, RING_REQUEST_CONS_OVERFLOW
    <3>2. Minus(req_cons, rsp_prod_pvt) \in Int /\ RingSize \in Int
      BY IndexTypes, MinusType, RingAssumption, <2>2 DEF RING_IDX
    <3> QED BY <2>2, <3>1, <3>2
  <2>4. /\ IsFiniteSet(InService \cup Finishing)
        /\ Cardinality(InService \cup Finishing) <= Cardinality(InService) + Cardinality(Finishing)
    <3>1. Cardinality(InService \cap Finishing) \in Nat
      BY InServiceFinite, FS_Intersection, FS_CardinalityType
    <3>2. /\ IsFiniteSet(InService \cup Finishing)
          /\ Cardinality(InService \cup Finishing)
               = Cardinality(InService) + Cardinality(Finishing)
                   - Cardinality(InService \cap Finishing)
      BY InServiceFinite, FinishingFinite, FS_Union
    <3>3. Cardinality(InService) \in Nat /\ Cardinality(Finishing) \in Nat
      BY InServiceFinite, FinishingFinite, FS_CardinalityType
    <3> QED BY <3>1, <3>2, <3>3
  <2>5. Cardinality(Pending) <= Cardinality(InService \cup Finishing)
    BY <2>1, <2>4, FS_Subset
  <2>6. /\ Cardinality(InService) \in Nat /\ Cardinality(InService \cup Finishing) \in Nat
        /\ Cardinality(Pending) \in Nat
    BY <2>4, InServiceFinite, FS_CardinalityType, BackAssumption
  <2> QED BY <2>3, <2>4, <2>5, <2>6, FinishingFinite, BackAssumption, RingAssumption DEF FinishingInv
<1> QED BY <1>1, TypeInvariant, RingInvariant, FinishingInvariant, PTL

-----------------------------------------------------------------------------
(* The request thread is woken, but for the race *)

\* The counterpart of SleepInv in the back end: as long as the thread has not
\* been told (~waiting_reqs) it is marked SLEEPING, and once it has passed the
\* last look at the ring, a request published has its interrupt on the way.
BackSleepInv ==
  /\ bipc # "idle" => waiting_reqs
  /\ bipc = "woken" => bpc # "asleep"
  /\ bpc = "asleep" => req_status = SLEEPING /\ (waiting_reqs => bipc = "flagged")
  /\ bpc = "sleep" => req_status = SLEEPING /\ waiting_reqs
  /\ ~waiting_reqs => req_status = SLEEPING
  /\ ~waiting_reqs /\ bpc \in {"spun", "wait", "asleep"} /\ req_cons # req_prod => BackWakeupDue

\* With requests in the ring there is room for their responses, so that the back
\* end sees them: RING_HAS_UNCONSUMED_REQUESTS is not 0, and nothing overflows.
LEMMA RequestsSeen ==
  ASSUME TypeInv, RingInv, req_cons # req_prod
  PROVE  Unconsumed # 0 /\ ~RING_REQUEST_CONS_OVERFLOW(req_cons, rsp_prod_pvt)
<1> DEFINE served == Minus(req_cons, rsp_prod_pvt)
           unread == Minus(req_prod, req_cons)
<1>1. /\ req_cons \in RING_IDX /\ req_prod \in RING_IDX /\ rsp_prod \in RING_IDX
      /\ rsp_cons \in RING_IDX /\ rsp_prod_pvt = rsp_prod /\ req_prod_pvt \in RING_IDX
  BY DEF TypeInv, TypeOK, SharedTypeOK, FrontTypeOK, BackTypeOK, RingInv, ServiceCount
<1>2. /\ Dist(rsp_prod) \in 0 .. IdxSpan - 1 /\ Dist(req_cons) \in 0 .. IdxSpan - 1
      /\ Dist(req_prod) \in 0 .. IdxSpan - 1 /\ Dist(req_prod_pvt) \in 0 .. IdxSpan - 1
      /\ served \in 0 .. IdxSpan - 1 /\ unread \in 0 .. IdxSpan - 1
  BY <1>1, MinusType DEF Dist, RING_IDX
<1>3. /\ Dist(rsp_prod) <= Dist(req_cons) /\ Dist(req_cons) <= Dist(req_prod)
      /\ Dist(req_prod) <= Dist(req_prod_pvt) /\ Dist(req_prod_pvt) <= RingSize
  BY DEF RingInv, PageOrder
<1>4. Dist(req_cons) # Dist(req_prod)
  BY <1>1, MinusInjective DEF Dist
<1>5. served = Dist(req_cons) - Dist(rsp_prod)
  BY <1>1, <1>3, MinusShift DEF Dist
<1>6. unread # 0
  BY <1>1, NothingBetween
<1>7. RingSize \in Nat \ {0} /\ IdxSpan \in Nat
  BY RingAssumption
<1> HIDE DEF served, unread
<1>8. served < RingSize
  BY <1>2, <1>3, <1>4, <1>5, <1>7
<1>9. Minus(RingSize, served) = RingSize - served
  BY <1>2, <1>7, <1>8 DEF Minus
<1>10. RingSize - served # 0 /\ ~(served >= RingSize)
  BY <1>2, <1>7, <1>8
<1> QED BY <1>6, <1>9, <1>10 DEF served, unread, Unconsumed, RING_HAS_UNCONSUMED_REQUESTS,
                                RING_REQUEST_CONS_OVERFLOW

\* The front end publishes requests on the way to looking at the status of the
\* request thread, which it never writes.
LEMMA FrontStepBackSleep ==
  ASSUME TypeInv, BackSleepInv, FrontNext, UNCHANGED backVars
  PROVE  BackSleepInv'
<1> DEFINE Told == /\ req_status' = req_status
                   /\ evt_back => evt_back'
                   /\ fpc = "notify" \/ req_prod' # req_prod
                        => fpc' = "notify" \/ (req_status = SLEEPING => evt_back')
<1>1. Told
  <2> USE DEF At, Goto, sringVars, evtVars
  <2>1. CASE PushRequests
    BY <2>1 DEF PushRequests
  <2>2. CASE NotifyBack
    BY <2>2 DEF NotifyBack
  <2>3. ASSUME NEW r \in Request, Submit(r) PROVE Told
    BY <2>3 DEF Submit
  <2>4. CASE RunQueue \/ PeekEmpty \/ PeekFull \/ PeekNonFs \/ QueueRequestFails \/ QueueRequest
    BY <2>4 DEF RunQueue, PeekEmpty, PeekFull, PeekNonFs, QueueRequestFails, QueueRequest,
                ReturnToCaller
  <2>5. CASE PollGivesUp \/ PollFound \/ DrainOne \/ DrainDone
    BY <2>5 DEF PollGivesUp, PollFound, DrainOne, DrainDone
  <2>6. CASE ThreadSleep \/ ThreadLock \/ ThreadRead \/ ConsumeOne \/ ConsumeDone \/ KickFull
             \/ KickQueue
    BY <2>6 DEF ThreadSleep, ThreadLock, ThreadRead, ConsumeOne, ConsumeDone, KickFull, KickQueue
  <2>7. CASE ThreadSpin \/ ThreadMarkSleeping \/ ThreadClearWaiting \/ ThreadRecheck
    BY <2>7 DEF ThreadSpin, ThreadMarkSleeping, ThreadClearWaiting, ThreadRecheck, ThreadUnlock
  <2>8. CASE FrontIrqFlag \/ FrontIrqWake \/ FrontIrqDone
    BY <2>8 DEF FrontIrqFlag, FrontIrqWake, FrontIrqDone
  <2> QED BY <2>1, <2>2, <2>3, <2>4, <2>5, <2>6, <2>7, <2>8
          DEF FrontNext, DoIddRequest, ResponseThread, FrontIrq
<1> QED BY <1>1 DEF BackSleepInv, BackWakeupDue, backVars, bidxVars, bctlVars

\* A step of the request thread: it leaves its last look at the ring behind only
\* with no request in it, because it never gives up a batch for want of a
\* pending_req.
LEMMA BackStepBackSleep ==
  ASSUME TypeInv, RingInv, BackSleepInv, ~BackRace, bpc = "fetch" /\ Takeable => Pool # {},
         BackNext, UNCHANGED frontVars
  PROVE  BackSleepInv'
<1> USE DEF BackSleepInv, BackWakeupDue, BackAt, BackGoto, sringVars, evtVars, frontVars, fctlVars,
            bidxVars, bctlVars, SLEEPING, RUNNING
<1> USE DEF TypeInv, TypeOK, SharedTypeOK, BackTypeOK
<1>1. CASE BackWait
  BY <1>1 DEF BackWait
<1>2. CASE BackLook
  BY <1>2, RequestsSeen DEF BackLook
<1>3. CASE BatchStart \/ BatchEnd \/ RejectDone \/ DispatchNoBio \/ DispatchRejects
  BY <1>3 DEF BatchStart, BatchEnd, RejectDone, DispatchNoBio, DispatchRejects
<1>4. CASE AllocFails
  BY <1>4 DEF AllocFails
<1>5. ASSUME NEW p \in Pending, Claim(p) PROVE BackSleepInv'
  BY <1>5 DEF Claim
<1>6. ASSUME NEW n \in 1 .. MaxBios, Dispatch(n) PROVE BackSleepInv'
  BY <1>6 DEF Dispatch
<1>7. CASE BatchFinalCheck
  BY <1>7, RequestsSeen DEF BatchFinalCheck
<1>8. CASE BackSpin
  BY <1>8 DEF BackSpin
<1>9. CASE BackMarkSleeping
  BY <1>9 DEF BackMarkSleeping
<1>10. CASE BackClearWaiting
  BY <1>10 DEF BackClearWaiting, BackRace
<1>11. CASE BackRecheck
  BY <1>11, RequestsSeen DEF BackRecheck
<1>12. ASSUME NEW p \in Pending, NEW err \in {0, -1}, EndBio(p, err) PROVE BackSleepInv'
  BY <1>12 DEF EndBio
<1>13. ASSUME NEW p \in Pending, Respond(p) \/ NotifyFront(p) \/ Release(p) PROVE BackSleepInv'
  BY <1>13 DEF Respond, NotifyFront, Release
<1>14. CASE BackIrqFlag
  BY <1>14 DEF BackIrqFlag
<1>15. CASE BackIrqWake
  BY <1>15 DEF BackIrqWake
<1>16. CASE BackIrqDone
  BY <1>16 DEF BackIrqDone, BackRace
<1> QED BY <1>1, <1>2, <1>3, <1>4, <1>5, <1>6, <1>7, <1>8, <1>9, <1>10, <1>11, <1>12, <1>13, <1>14,
           <1>15, <1>16
        DEF BackNext, RequestThread, DoBlockIoOp, BackIrq

LEMMA BackSleepInit == Init => BackSleepInv
  BY DEF Init, SharedInit, BackInit, BackSleepInv, BackWakeupDue, SLEEPING, RUNNING

\* The request thread never sleeps on a request without an interrupt on its way
\* to it, unless the interrupt once falls between the two steps of its going to
\* sleep: BackRace is the only way to lose a wakeup, whatever the ring, the
\* failures and the number of CPUs - and given a pending_req for each slot and for
\* each context on its way to free_req, without which an empty pool is another.
THEOREM RequestThreadWoken ==
  ASSUME Cardinality(Pending) >= RingSize + MaxFinishing
  PROVE  Spec /\ []~BackRace => []RequestThreadNotStranded
<1>1. TypeInv /\ RingInv /\ PoolSuffices /\ BackSleepInv /\ ~BackRace /\ Next => BackSleepInv'
  BY FrontStepBackSleep, BackStepBackSleep DEF Next, PoolSuffices
<1>2. BackSleepInv /\ UNCHANGED vars => BackSleepInv'
  BY DEF vars, frontVars, backVars, fctlVars, sringVars, evtVars, bidxVars, bctlVars,
         BackSleepInv, BackWakeupDue
<1>3. TypeInv /\ BackSleepInv => RequestThreadNotStranded
  BY DEF BackSleepInv, RequestThreadNotStranded, BackWakeupDue
<1> QED BY <1>1, <1>2, <1>3, BackSleepInit, TypeInvariant, RingInvariant, PoolNeverEmpty, PTL
        DEF Spec

-----------------------------------------------------------------------------
(* Where a request is in the front end *)

\* The steps of the front end that change the requests, their queue or the shadow
\* table; no step of the back end does.
LEMMA FrontEffect ==
  ASSUME FrontNext, UNCHANGED backVars
  PROVE  \/ UNCHANGED <<blk, queue, shadow, ring, req_prod_pvt>>
         \/ \E r \in Request : Submit(r)
         \/ PeekNonFs
         \/ QueueRequest
         \/ HandleStep
<1> USE DEF At, Goto, fblkVars, fshadowVars, fidxVars, fctlVars, sringVars, evtVars
<1>1. CASE RunQueue \/ PeekEmpty \/ PeekFull \/ QueueRequestFails \/ PushRequests \/ NotifyBack
  BY <1>1 DEF RunQueue, PeekEmpty, PeekFull, QueueRequestFails, PushRequests, NotifyBack
<1>2. CASE PollGivesUp \/ PollFound \/ DrainDone \/ ThreadSleep \/ ThreadLock \/ ThreadRead
  BY <1>2 DEF PollGivesUp, PollFound, DrainDone, ThreadSleep, ThreadLock, ThreadRead
<1>3. CASE \/ ConsumeDone \/ KickFull \/ KickQueue \/ ThreadSpin \/ ThreadMarkSleeping
           \/ ThreadClearWaiting \/ ThreadRecheck
  BY <1>3 DEF ConsumeDone, KickFull, KickQueue, ThreadSpin, ThreadMarkSleeping,
       ThreadClearWaiting, ThreadRecheck, ThreadUnlock
<1>4. CASE FrontIrq
  BY <1>4 DEF FrontIrq, FrontIrqFlag, FrontIrqWake, FrontIrqDone
<1>5. CASE DrainOne \/ ConsumeOne
  BY <1>5 DEF DrainOne, ConsumeOne, HandleStep
<1> QED BY <1>1, <1>2, <1>3, <1>4, <1>5 DEF FrontNext, DoIddRequest, ResponseThread

\* No request is submitted at first.
LEMMA QueueInvInit == Init => QueueInv
  BY DEF Init, FrontInit, QueueInv, InUse, Allocated

\* The request at the head of the queue is at no other place of it.
LEMMA HeadApart ==
  ASSUME TypeInv, QueueInv, queue # <<>>
  PROVE  /\ Head(queue) \in Request /\ blk[Head(queue)] = "submitted"
         /\ \A i \in DOMAIN Tail(queue) : /\ i + 1 \in DOMAIN queue
                                          /\ Tail(queue)[i] = queue[i + 1]
                                          /\ Tail(queue)[i] # Head(queue)
         /\ \A id \in InUse : shadow[id].request # Head(queue)
<1>1. queue \in Seq(Request)
  BY DEF TypeInv, TypeOK, FrontTypeOK
<1>2. 1 \in DOMAIN queue /\ Head(queue) = queue[1] /\ queue[1] \in Request
  BY <1>1
<1>3. \A i \in DOMAIN Tail(queue) : i + 1 \in DOMAIN queue /\ Tail(queue)[i] = queue[i + 1] /\ i + 1 # 1
  BY <1>1
<1> QED BY <1>2, <1>3 DEF QueueInv

\* A request enters the queue only when it is not in the driver, and leaves it
\* for one entry of the table or for the block layer.
LEMMA QueueInvStep ==
  ASSUME TypeInv, RingInv, IdInv, QueueInv, Next PROVE QueueInv'
<1>1. CASE UNCHANGED <<blk, queue, shadow>>
  BY <1>1 DEF QueueInv, InUse, Allocated
<1>2. ASSUME NEW r \in Request, Submit(r) PROVE QueueInv'
  <2>1. /\ blk[r] # "submitted" /\ blk' = [blk EXCEPT ![r] = "submitted"]
        /\ queue' = Append(queue, r) /\ shadow' = shadow /\ InUse' = InUse
    BY <1>2 DEF Submit, fshadowVars, InUse, Allocated
  <2>2. queue \in Seq(Request) /\ blk \in [Request -> {"new", "submitted", "ok", "eio"}]
    BY DEF TypeInv, TypeOK, FrontTypeOK
  <2>3. \A s \in Request : blk[s] = "submitted" => s # r /\ blk'[s] = "submitted"
    BY <2>1, <2>2
  <2>4. \A i \in DOMAIN queue : queue[i] \in Request /\ queue[i] # r /\ blk'[queue[i]] = "submitted"
    BY <2>2, <2>3 DEF QueueInv
  <2>5. \A i \in DOMAIN queue' : (i \in DOMAIN queue /\ queue'[i] = queue[i])
                                   \/ (i = Len(queue) + 1 /\ queue'[i] = r)
    BY <2>1, <2>2
  <2>6. \A i \in DOMAIN queue' : blk'[queue'[i]] = "submitted"
    BY <2>1, <2>2, <2>4, <2>5
  <2>7. \A i \in DOMAIN queue', j \in DOMAIN queue' : queue'[i] = queue'[j] => i = j
    BY <2>4, <2>5 DEF QueueInv
  <2>8. \A id \in InUse : shadow[id].request \in Request /\ shadow[id].request # r
                           /\ blk'[shadow[id].request] = "submitted"
    <3>1. \A id \in InUse : shadow[id].request \in Request
      BY DEF InUse, Allocated, TypeInv, TypeOK, FrontTypeOK
    <3> QED BY <3>1, <2>3 DEF QueueInv
  <2>9. \A id \in InUse : \A i \in DOMAIN queue' : queue'[i] # shadow[id].request
    BY <2>5, <2>8 DEF QueueInv
  <2> QED BY <2>1, <2>6, <2>7, <2>8, <2>9 DEF QueueInv
<1>3. CASE PeekNonFs
  <2>1. /\ queue # <<>> /\ queue' = Tail(queue) /\ blk' = [blk EXCEPT ![Head(queue)] = "eio"]
        /\ shadow' = shadow /\ InUse' = InUse
    BY <1>3 DEF PeekNonFs, fshadowVars, InUse, Allocated
  <2>2. \A s \in Request : s # Head(queue) => blk'[s] = blk[s]
    BY <2>1 DEF TypeInv, TypeOK, FrontTypeOK
  <2>3. \A i \in DOMAIN queue : queue[i] \in Request
    BY DEF TypeInv, TypeOK, FrontTypeOK
  <2>4. \A id \in InUse : shadow[id].request \in Request
    BY DEF InUse, Allocated, TypeInv, TypeOK, FrontTypeOK
  <2>5. \A i \in DOMAIN queue' : blk'[queue'[i]] = "submitted"
    BY <2>1, <2>2, <2>3, HeadApart DEF QueueInv
  <2>6. \A i \in DOMAIN queue', j \in DOMAIN queue' : queue'[i] = queue'[j] => i = j
    <3>1. \A i \in DOMAIN queue' : i \in Int
      BY <2>1 DEF TypeInv, TypeOK, FrontTypeOK
    <3>2. \A i \in DOMAIN queue', j \in DOMAIN queue' : queue'[i] = queue'[j] => i + 1 = j + 1
      BY <2>1, HeadApart DEF QueueInv
    <3> QED BY <3>1, <3>2
  <2>7. \A id \in InUse : /\ blk'[shadow[id].request] = "submitted"
                          /\ \A i \in DOMAIN queue' : queue'[i] # shadow[id].request
    BY <2>1, <2>2, <2>4, HeadApart DEF QueueInv
  <2> QED BY <2>1, <2>5, <2>6, <2>7 DEF QueueInv
<1>4. CASE QueueRequest /\ UNCHANGED backVars
  <2> DEFINE i0 == shadow_free
  <2>1. /\ queue # <<>> /\ queue' = Tail(queue) /\ blk' = blk /\ Head(queue) \notin NonFs
    BY <1>4 DEF QueueRequest
  <2>2. /\ InUse' = InUse \cup {i0} /\ shadow'[i0].request = Head(queue)
        /\ i0 \notin InUse /\ \A j \in InUse : shadow'[j] = shadow[j]
    BY <1>4, QueueEffect DEF IdInv
  <2>3. \A i \in DOMAIN queue' : blk'[queue'[i]] = "submitted" /\ queue'[i] # Head(queue)
    BY <2>1, HeadApart DEF QueueInv
  <2>4. \A i \in DOMAIN queue', j \in DOMAIN queue' : queue'[i] = queue'[j] => i = j
    <3>1. \A i \in DOMAIN queue' : i \in Int
      BY <2>1 DEF TypeInv, TypeOK, FrontTypeOK
    <3>2. \A i \in DOMAIN queue', j \in DOMAIN queue' : queue'[i] = queue'[j] => i + 1 = j + 1
      BY <2>1, HeadApart DEF QueueInv
    <3> QED BY <3>1, <3>2
  <2>5. \A id \in InUse : /\ blk'[shadow'[id].request] = "submitted"
                          /\ shadow'[id].request \notin NonFs
                          /\ shadow'[id].request # Head(queue)
                          /\ \A i \in DOMAIN queue' : queue'[i] # shadow'[id].request
    BY <2>1, <2>2, HeadApart DEF QueueInv
  <2>6. /\ blk'[shadow'[i0].request] = "submitted" /\ shadow'[i0].request \notin NonFs
        /\ \A i \in DOMAIN queue' : queue'[i] # shadow'[i0].request
    BY <2>1, <2>2, <2>3, HeadApart
  <2>7. \A id \in InUse', j \in InUse' : shadow'[id].request = shadow'[j].request => id = j
    <3> HIDE DEF i0
    <3> QED BY <2>2, <2>5 DEF QueueInv
  <2> HIDE DEF i0
  <2> QED BY <2>2, <2>3, <2>4, <2>5, <2>6, <2>7 DEF QueueInv
<1>5. CASE HandleStep
  <2> DEFINE i0 == IdOn[f_i]
  <2>1. /\ i0 \in InUse /\ shadow' = [shadow EXCEPT ![i0] = [request |-> NoReq, seq_no |-> shadow_free]]
        /\ blk' = [blk EXCEPT ![shadow[i0].request] = "ok"] /\ queue' = queue
    BY <1>5, HandleEffect DEF IdInv, HandleStep
  <2>2. InUse' = InUse \ {i0} /\ \A j \in InUse \ {i0} : shadow'[j] = shadow[j]
    BY <2>1 DEF InUse, Allocated, TypeInv, TypeOK, FrontTypeOK
  <2>3. \A s \in Request : s # shadow[i0].request => blk'[s] = blk[s]
    BY <2>1 DEF TypeInv, TypeOK, FrontTypeOK
  <2>4. \A i \in DOMAIN queue : queue[i] \in Request /\ queue[i] # shadow[i0].request
    BY <2>1 DEF QueueInv, TypeInv, TypeOK, FrontTypeOK
  <2>5. \A id \in InUse \ {i0} : shadow[id].request \in Request /\ shadow[id].request # shadow[i0].request
    BY <2>1 DEF InUse, Allocated, TypeInv, TypeOK, FrontTypeOK, QueueInv
  <2> HIDE DEF i0
  <2>6. \A i \in DOMAIN queue' : blk'[queue'[i]] = "submitted"
    BY <2>1, <2>3, <2>4 DEF QueueInv
  <2>7. \A id \in InUse' : /\ blk'[shadow'[id].request] = "submitted"
                           /\ shadow'[id].request \notin NonFs
                           /\ \A i \in DOMAIN queue' : queue'[i] # shadow'[id].request
    BY <2>1, <2>2, <2>3, <2>5 DEF QueueInv
  <2>8. \A id \in InUse', j \in InUse' : shadow'[id].request = shadow'[j].request => id = j
    BY <2>2 DEF QueueInv
  <2> QED BY <2>1, <2>6, <2>7, <2>8 DEF QueueInv
<1>6. CASE BackNext /\ UNCHANGED frontVars
  BY <1>1, <1>6 DEF frontVars, fblkVars, fshadowVars
<1> QED BY <1>1, <1>2, <1>3, <1>4, <1>5, <1>6, FrontEffect DEF Next

\* A submitted request is at one place of the front end only.
LEMMA QueueInvariant == Spec => []QueueInv
<1>1. QueueInv /\ UNCHANGED vars => QueueInv'
  BY DEF QueueInv, InUse, Allocated, vars, frontVars, fblkVars, fshadowVars
<1>2. TypeInv /\ RingInv /\ IdInv /\ QueueInv /\ [Next]_vars => QueueInv'
  BY <1>1, QueueInvStep
<1> QED BY <1>2, QueueInvInit, TypeInvariant, RingInvariant, IdInvariant, PTL DEF Spec

-----------------------------------------------------------------------------
(* Where a request is in the back end *)

\* The back end works on these, and Busy are the ids it is not done with.
Working == {p \in Pending : stage[p] \in {"claimed", "io"}}
Busy    == {IdOn[x] : x \in UnreadRequests} \cup {IdIn[p] : p \in Working}

\* Nobody begins or ends working on a request; only p ends.
WorkStill == Working' = Working /\ \A q \in Working : pending'[q].id = pending[q].id
WorkEnds(p) ==
  /\ p \in Working /\ Working' = Working \ {p}
  /\ \A q \in Working : pending'[q].id = pending[q].id

\* A step of the back end reads a request, answers one, ends the work on one or
\* leaves all of that alone, and unmaps the pages with the last bio.
LEMMA BackEffect ==
  ASSUME TypeInv, MappedInv, BackNext, UNCHANGED frontVars
  PROVE  /\ MappedInv'
         /\ \/ \E p \in Pending : Claim(p) \/ Respond(p)
            \/ /\ UNCHANGED <<ring, req_cons, rsp_prod>>
               /\ WorkStill \/ \E p \in Pending : WorkEnds(p)
<1> USE DEF BackAt, BackGoto, bidxVars, bctlVars, sringVars
<1>1. /\ stage \in [Pending -> {"free", "claimed", "io", "respond", "notify", "release"}]
      /\ pending \in [Pending -> [id : Ids, pendcnt : -1 .. MaxBios, status : {0, -1},
                                  mapped : BOOLEAN]]
      /\ bpc = "dispatch" => cur \in Pending /\ stage[cur] = "claimed"
  BY DEF TypeInv, TypeOK, BackTypeOK, PendingInv
<1>2. CASE \/ BackWait \/ BackLook \/ BatchStart \/ BatchEnd \/ AllocFails \/ RejectDone
           \/ BatchFinalCheck \/ BackSpin \/ BackMarkSleeping \/ BackClearWaiting \/ BackRecheck
           \/ BackIrq
  <2>1. UNCHANGED <<ring, rsp_prod, req_cons, stage, pending>>
    BY <1>2 DEF BackWait, BackLook, BatchStart, BatchEnd, AllocFails, RejectDone, BatchFinalCheck,
         BackSpin, BackMarkSleeping, BackClearWaiting, BackRecheck, BackIrq, BackIrqFlag,
         BackIrqWake, BackIrqDone
  <2> QED BY <2>1 DEF MappedInv, WorkStill, Working
<1>3. ASSUME NEW p \in Pending, Claim(p) PROVE MappedInv'
  <2>1. stage[p] = "free" /\ stage' = [stage EXCEPT ![p] = "claimed"]
        /\ \A q \in Pending : pending'[q].mapped = pending[q].mapped
    BY <1>1, <1>3 DEF Claim, Pool
  <2> QED BY <1>1, <2>1 DEF MappedInv
<1>4. ASSUME NEW p \in Pending, Respond(p) PROVE MappedInv'
  BY <1>1, <1>4 DEF Respond, MappedInv
<1>5. ASSUME NEW n \in 1 .. MaxBios, Dispatch(n) \/ DispatchNoBio
      PROVE  MappedInv' /\ WorkStill /\ UNCHANGED <<ring, req_cons, rsp_prod>>
  <2>1. /\ cur \in Pending /\ stage[cur] = "claimed" /\ stage' = [stage EXCEPT ![cur] = "io"]
        /\ \A q \in Pending : q # cur => pending'[q] = pending[q]
        /\ pending'[cur].id = pending[cur].id
        /\ UNCHANGED <<ring, req_cons, rsp_prod>>
    BY <1>1, <1>5 DEF Dispatch, DispatchNoBio
  <2> QED BY <1>1, <2>1 DEF MappedInv, WorkStill, Working
<1>6. CASE DispatchNoBio
  BY <1>5, <1>6, BackAssumption
<1>7. CASE DispatchRejects
  <2>1. /\ cur \in Pending /\ stage[cur] = "claimed" /\ stage' = [stage EXCEPT ![cur] = "respond"]
        /\ \A q \in Pending : /\ pending'[q].id = pending[q].id
                              /\ pending'[q].mapped = pending[q].mapped
        /\ UNCHANGED <<ring, req_cons, rsp_prod>>
    BY <1>1, <1>7 DEF DispatchRejects
  <2>2. WorkEnds(cur)
    BY <1>1, <2>1 DEF WorkEnds, Working
  <2>3. MappedInv'
    BY <1>1, <2>1 DEF MappedInv
  <2> QED BY <2>1, <2>2, <2>3
<1>8. ASSUME NEW p \in Pending, NEW err \in {0, -1}, EndBio(p, err)
      PROVE  MappedInv' /\ (WorkStill \/ WorkEnds(p)) /\ UNCHANGED <<ring, req_cons, rsp_prod>>
  <2>1. /\ stage[p] = "io"
        /\ stage' = [stage EXCEPT ![p] = IF pending[p].pendcnt = 1 THEN "respond" ELSE "io"]
        /\ \A q \in Pending : q # p => pending'[q] = pending[q]
        /\ pending'[p].id = pending[p].id /\ pending'[p].mapped = (pending[p].pendcnt > 1)
        /\ UNCHANGED <<ring, req_cons, rsp_prod>>
    BY <1>1, <1>8 DEF EndBio
  <2>2. pending[p].pendcnt \in Int
    BY <1>1, BackAssumption
  <2>3. CASE pending[p].pendcnt = 1
    <3>1. WorkEnds(p)
      BY <1>1, <2>1, <2>3 DEF WorkEnds, Working
    <3>2. ~pending'[p].mapped
      <4>1. ~(pending[p].pendcnt > 1)
        BY <2>3
      <4> QED BY <2>1, <4>1, Zenon
    <3>3. MappedInv'
      BY <1>1, <2>1, <3>2 DEF MappedInv
    <3> QED BY <2>1, <3>1, <3>3
  <2>4. CASE pending[p].pendcnt # 1
    <3>1. stage' = stage
      BY <1>1, <2>1, <2>4
    <3> QED BY <2>1, <3>1 DEF WorkStill, Working, MappedInv
  <2> QED BY <2>3, <2>4
<1>9. ASSUME NEW p \in Pending, NotifyFront(p)
      PROVE  MappedInv' /\ WorkStill /\ UNCHANGED <<ring, req_cons, rsp_prod>>
  <2>1. stage[p] = "notify" /\ stage' = [stage EXCEPT ![p] = "release"]
        /\ UNCHANGED <<pending, ring, req_cons, rsp_prod>>
    BY <1>9 DEF NotifyFront
  <2> QED BY <1>1, <2>1 DEF WorkStill, Working, MappedInv
<1>10. ASSUME NEW p \in Pending, Release(p)
       PROVE  MappedInv' /\ WorkStill /\ UNCHANGED <<ring, req_cons, rsp_prod>>
  <2>1. stage[p] = "release" /\ stage' = [stage EXCEPT ![p] = "free"]
        /\ pending' = [pending EXCEPT ![p] = FreePending]
        /\ UNCHANGED <<ring, req_cons, rsp_prod>>
    BY <1>10 DEF Release
  <2>2. \A q \in Pending : q # p => pending'[q] = pending[q]
    BY <1>1, <2>1
  <2>3. pending'[p].mapped = FALSE
    BY <1>1, <2>1 DEF FreePending
  <2> QED BY <1>1, <2>1, <2>2, <2>3 DEF WorkStill, Working, MappedInv
<1> QED BY <1>2, <1>3, <1>4, <1>5, <1>6, <1>7, <1>8, <1>9, <1>10
        DEF BackNext, RequestThread, DoBlockIoOp

\* Pages stay mapped only while bios work on them.
LEMMA MappedInvariant == Spec => []MappedInv
<1>1. Init => MappedInv
  BY DEF Init, BackInit, FreePending, MappedInv
<1>2. TypeInv /\ MappedInv /\ [Next]_vars => MappedInv'
  <2>1. UNCHANGED backVars /\ MappedInv => MappedInv'
    BY DEF backVars, MappedInv
  <2> QED BY <2>1, BackEffect DEF Next, vars
<1> QED BY <1>1, <1>2, TypeInvariant, PTL DEF Spec

-----------------------------------------------------------------------------
(* The pair of drivers as a block service *)

\* The requests the back end is done with, by the ids in use.
Done == {shadow[id].request : id \in InUse \ Busy}

\* Served, which Idd states by the response, is that the id is in use and the back
\* end no longer busy with it.
LEMMA ServedIsDone ==
  ASSUME TypeInv, RingInv, IdInv, MappedInv, NEW r \in Request
  PROVE  Served(r) <=> r \in Done
<1>1. OneEach(Unread, InService, IdOn, IdIn, InUse) /\ UnreadRequests \cap UnreadResponses = {}
  BY UnreadRanks DEF IdInv, HolderInv
<1>2. \A x \in UnreadResponses : ring[SlotOf(x)].kind = "rsp" /\ IdOn[x] = ring[SlotOf(x)].seq_no
  BY UnreadRanks DEF IdInv, HolderInv, IdOn, Unread
<1>3. \A id \in Ids : ResponsesFor(id) # {} <=> \E x \in UnreadResponses : IdOn[x] = id
  BY <1>2 DEF ResponsesFor
<1>4. /\ Working \subseteq InService /\ \A p \in InService \ Working : stage[p] = "respond"
      /\ \A p \in Working : stage[p] # "respond"
      /\ \A p \in InService : IdIn[p] = pending[p].id
  BY DEF Working, InService, IdIn
<1>5. \A id \in Ids : (\E p \in ServiceFor(id) : stage[p] = "respond")
                         <=> \E p \in InService \ Working : IdIn[p] = id
  BY <1>4 DEF ServiceFor
<1>6. \A p \in Pending : pending[p].mapped \/ pending[p].pendcnt > 0 => p \in Working
  BY DEF MappedInv, TypeInv, PendingInv, Working
<1>7. ASSUME NEW id \in Ids, shadow[id].request = r, Untouched(id),
             \/ \E x \in UnreadResponses : IdOn[x] = id
             \/ \E p \in InService \ Working : IdIn[p] = id
      PROVE  id \in InUse \ Busy
  <2>1. id \in InUse
    BY <1>7, FrontAssumption DEF InUse, Allocated
  <2>2. \A x \in UnreadRequests : IdOn[x] # id
    BY <1>1, <1>4, <1>7 DEF OneEach, Unread
  <2>3. \A p \in Working : IdIn[p] # id
    BY <1>1, <1>4, <1>7 DEF OneEach, Unread
  <2> QED BY <2>1, <2>2, <2>3 DEF Busy
<1>8. ASSUME NEW id \in InUse \ Busy
      PROVE  /\ id \in Ids /\ Untouched(id)
             /\ \/ \E x \in UnreadResponses : IdOn[x] = id
                \/ \E p \in InService \ Working : IdIn[p] = id
  <2>1. id \in Ids
    BY DEF InUse
  <2>2. /\ \A x \in UnreadRequests : IdOn[x] # id
        /\ \A p \in Working : IdIn[p] # id
    BY DEF Busy
  <2>3. (\E x \in Unread : IdOn[x] = id) \/ (\E p \in InService : IdIn[p] = id)
    BY <1>1 DEF OneEach
  <2>4. Untouched(id)
    BY <1>4, <1>6, <2>2 DEF Untouched
  <2> QED BY <2>1, <2>2, <2>3, <2>4 DEF Unread
<1>9. Served(r) => r \in Done
  BY <1>3, <1>5, <1>7 DEF Served, Done
<1>10. r \in Done => Served(r)
  BY <1>3, <1>5, <1>8 DEF Served, Done
<1> QED BY <1>9, <1>10

\* The state of each request as the abstract service sees it, by the sets above
\* and as Idd maps it.
Map == [r \in Request |-> IF blk[r] # "submitted" THEN "idle"
                          ELSE IF r \in Done THEN "served" ELSE "pending"]
Mapped == [r \in Request |-> IF blk[r] # "submitted" THEN "idle"
                             ELSE IF Served(r) THEN "served" ELSE "pending"]
ServiceInv == TypeInv /\ RingInv /\ IdInv /\ MappedInv /\ QueueInv

\* The two maps are one.
LEMMA MappedIsMap == ServiceInv => Mapped = Map
  BY ServedIsDone DEF ServiceInv, Mapped, Map

\* The request of an id in use is on its way or handled, and the driver's own.
LEMMA InUseRequest ==
  ASSUME ServiceInv, NEW id \in InUse
  PROVE  /\ shadow[id].request \in Request \ NonFs
         /\ Map[shadow[id].request] = IF id \in Busy THEN "pending" ELSE "served"
<1>1. /\ shadow[id].request \in Request \ NonFs /\ blk[shadow[id].request] = "submitted"
      /\ \A j \in InUse : shadow[j].request = shadow[id].request => j = id
  BY DEF ServiceInv, QueueInv, InUse, Allocated, TypeInv, TypeOK, FrontTypeOK
<1>2. shadow[id].request \in Done <=> id \notin Busy
  BY <1>1 DEF Done
<1> QED BY <1>1, <1>2 DEF Map

\* A request in no entry of the shadow table is not handled.
LEMMA OutsideRequest ==
  ASSUME NEW r \in Request, \A id \in InUse : shadow[id].request # r
  PROVE  Map[r] = IF blk[r] = "submitted" THEN "pending" ELSE "idle"
<1>1. r \notin Done
  BY DEF Done
<1> QED BY <1>1 DEF Map

\* A step that leaves Done and the requests alone is not seen.
LEMMA MapSame ==
  ASSUME Done' = Done, blk' = blk PROVE Map' = Map
  BY DEF Map

\* One request moves.
Moves(r, from, to) == Map[r] = from /\ Map' = [Map EXCEPT ![r] = to]

\* What a step has to change for one request to move.
LEMMA MapMoves ==
  ASSUME NEW r \in Request, NEW from, Map[r] = from, NEW to, Map'[r] = to,
         \A s \in Request : s # r => (blk'[s] = blk[s] /\ (s \in Done' <=> s \in Done))
  PROVE  Moves(r, from, to)
<1>1. \A s \in Request : s # r => Map'[s] = Map[s]
  BY DEF Map
<1>2. Map = [s \in Request |-> Map[s]] /\ Map' = [s \in Request |-> Map'[s]]
  BY DEF Map
<1> HIDE DEF Map
<1>3. Map' = [Map EXCEPT ![r] = to]
  BY <1>1, <1>2
<1> QED BY <1>3 DEF Moves

\* A step of the front end submits, refuses or completes a request of the abstract
\* service, or is not seen there.
LEMMA FrontMaps ==
  ASSUME ServiceInv, ServiceInv', FrontNext, UNCHANGED backVars
  PROVE  \/ Map' = Map
         \/ \E r \in Request : \/ Moves(r, "idle", "pending")
                               \/ r \in NonFs /\ Moves(r, "pending", "idle")
                               \/ Moves(r, "served", "idle")
<1> USE DEF ServiceInv
<1>1. Working' = Working /\ IdIn' = IdIn /\ req_cons' = req_cons
  BY DEF Working, IdIn, backVars, bidxVars
<1>2. CASE UNCHANGED <<blk, queue, shadow, ring, req_prod_pvt>>
  <2>1. UnreadRequests' = UnreadRequests /\ IdOn' = IdOn /\ InUse' = InUse
    BY <1>1, <1>2 DEF UnreadRequests, IdOn, InUse, Allocated
  <2>2. Done' = Done
    BY <1>1, <1>2, <2>1 DEF Done, Busy
  <2> QED BY <1>2, <2>2, MapSame
<1>3. ASSUME NEW r \in Request, Submit(r) PROVE Moves(r, "idle", "pending")
  <2>1. /\ blk[r] # "submitted" /\ blk' = [blk EXCEPT ![r] = "submitted"]
        /\ UNCHANGED <<shadow, ring, req_prod_pvt>>
    BY <1>3 DEF Submit, fshadowVars, fidxVars, sringVars
  <2>2. UnreadRequests' = UnreadRequests /\ IdOn' = IdOn /\ InUse' = InUse
    BY <1>1, <2>1 DEF UnreadRequests, IdOn, InUse, Allocated
  <2>3. Done' = Done
    BY <1>1, <2>1, <2>2 DEF Done, Busy
  <2>4. \A id \in InUse : shadow[id].request # r
    BY <2>1 DEF QueueInv
  <2>5. /\ blk'[r] = "submitted" /\ \A s \in Request : s # r => blk'[s] = blk[s]
    BY <2>1 DEF TypeInv, TypeOK, FrontTypeOK
  <2>6. r \notin Done
    BY <2>4 DEF Done
  <2>7. Map[r] = "idle" /\ Map'[r] = "pending"
    BY <2>1, <2>3, <2>5, <2>6 DEF Map
  <2> QED BY <2>3, <2>5, <2>7, MapMoves
<1>4. CASE PeekNonFs
  <2> DEFINE r == Head(queue)
  <2>1. /\ queue # <<>> /\ r \in NonFs /\ blk' = [blk EXCEPT ![r] = "eio"]
        /\ UNCHANGED <<shadow, ring, req_prod_pvt>>
    BY <1>4 DEF PeekNonFs, fshadowVars, fidxVars, sringVars
  <2>2. r \in Request /\ blk[r] = "submitted" /\ \A id \in InUse : shadow[id].request # r
    BY <2>1, HeadApart
  <2>3. UnreadRequests' = UnreadRequests /\ IdOn' = IdOn /\ InUse' = InUse
    BY <1>1, <2>1 DEF UnreadRequests, IdOn, InUse, Allocated
  <2>4. Done' = Done
    BY <1>1, <2>1, <2>3 DEF Done, Busy
  <2>5. /\ blk'[r] = "eio" /\ \A s \in Request : s # r => blk'[s] = blk[s]
    BY <2>1, <2>2 DEF TypeInv, TypeOK, FrontTypeOK
  <2>6. r \notin Done
    BY <2>2 DEF Done
  <2> HIDE DEF r
  <2>7. Map[r] = "pending" /\ Map'[r] = "idle"
    BY <2>2, <2>4, <2>5, <2>6 DEF Map
  <2>8. Moves(r, "pending", "idle")
    BY <2>2, <2>4, <2>5, <2>7, MapMoves
  <2> QED BY <2>1, <2>2, <2>8
<1>5. CASE QueueRequest
  <2>1. /\ shadow_free \in Ids \ InUse
        /\ UnreadRequests' = UnreadRequests \cup {req_prod_pvt}
        /\ IdOn'[req_prod_pvt] = shadow_free /\ \A x \in UnreadRequests : IdOn'[x] = IdOn[x]
        /\ InUse' = InUse \cup {shadow_free} /\ \A j \in InUse : shadow'[j] = shadow[j]
    BY <1>5, QueueEffect DEF IdInv, Unread
  <2>2. Busy' = Busy \cup {shadow_free}
    BY <1>1, <2>1 DEF Busy
  <2>3. InUse' \ Busy' = InUse \ Busy
    BY <2>1, <2>2
  <2>4. Done' = Done
    BY <2>1, <2>3 DEF Done
  <2> QED BY <1>5, <2>4, MapSame DEF QueueRequest
<1>6. CASE HandleStep
  <2> DEFINE i == IdOn[f_i]
             r == shadow[i].request
  <2>1. /\ f_i \in UnreadResponses /\ i \in InUse
        /\ shadow' = [shadow EXCEPT ![i] = [request |-> NoReq, seq_no |-> shadow_free]]
        /\ blk' = [blk EXCEPT ![r] = "ok"]
    BY <1>6, HandleEffect DEF IdInv
  <2>2. UNCHANGED <<ring, req_prod_pvt>>
    BY <1>6 DEF HandleStep, fidxVars, sringVars
  <2>3. Busy' = Busy
    BY <1>1, <2>2 DEF Busy, UnreadRequests, IdOn
  <2>4. i \notin Busy
    <3>1. OneEach(Unread, InService, IdOn, IdIn, InUse) /\ UnreadRequests \cap UnreadResponses = {}
      BY UnreadRanks DEF IdInv, HolderInv
    <3>2. Working \subseteq InService
      BY DEF Working, InService
    <3> QED BY <2>1, <3>1, <3>2 DEF OneEach, Unread, Busy
  <2>5. InUse' = InUse \ {i} /\ \A j \in InUse \ {i} : shadow'[j] = shadow[j]
    BY <2>1 DEF InUse, Allocated, TypeInv, TypeOK, FrontTypeOK
  <2>6. r \in Request /\ Map[r] = "served"
    BY <2>1, <2>4, InUseRequest
  <2>7. /\ blk'[r] = "ok" /\ \A s \in Request : s # r => blk'[s] = blk[s]
    BY <2>1, <2>6 DEF TypeInv, TypeOK, FrontTypeOK
  <2>8. Done' = {shadow[id].request : id \in (InUse \ Busy) \ {i}}
    BY <2>3, <2>5 DEF Done
  <2>9. \A s \in Request : s # r => (s \in Done' <=> s \in Done)
    BY <2>8 DEF Done
  <2> HIDE DEF r
  <2>10. Map'[r] = "idle"
    BY <2>6, <2>7 DEF Map
  <2>11. Moves(r, "served", "idle")
    BY <2>6, <2>7, <2>9, <2>10, MapMoves
  <2> QED BY <2>6, <2>11
<1> QED BY <1>2, <1>3, <1>4, <1>5, <1>6, FrontEffect

\* A step of the back end serves one, or is not seen.
LEMMA BackMaps ==
  ASSUME ServiceInv, BackNext, UNCHANGED frontVars
  PROVE  Map' = Map \/ \E r \in Request \ NonFs : Moves(r, "pending", "served")
<1> USE DEF ServiceInv
<1>1. UNCHANGED <<blk, shadow, req_prod_pvt>> /\ InUse' = InUse
  BY DEF frontVars, fblkVars, fshadowVars, fidxVars, InUse, Allocated
<1>2. ASSUME Busy' = Busy PROVE Map' = Map
  <2>1. Done' = Done
    BY <1>1, <1>2 DEF Done
  <2> QED BY <1>1, <2>1, MapSame
<1>3. /\ Working \subseteq InService
      /\ \A p \in Pending : IdIn[p] = pending[p].id /\ IdIn'[p] = pending'[p].id
  BY DEF Working, InService, IdIn
<1>4. ASSUME NEW p \in Pending, Claim(p) PROVE Busy' = Busy
  <2>1. /\ UnreadRequests' = UnreadRequests \ {req_cons} /\ req_cons \in UnreadRequests
        /\ IdOn' = IdOn /\ IdIn'[p] = IdOn[req_cons] /\ p \notin Working
        /\ \A q \in Working : IdIn'[q] = IdIn[q]
    BY <1>3, <1>4, ClaimEffect DEF Working
  <2>2. Working' = Working \cup {p}
    BY <1>4, ClaimEffect DEF Working, TypeInv, TypeOK, BackTypeOK
  <2> QED BY <2>1, <2>2 DEF Busy
<1>5. ASSUME NEW p \in Pending, Respond(p) PROVE Busy' = Busy
  <2>1. /\ UnreadRequests' = UnreadRequests /\ \A x \in UnreadRequests : IdOn'[x] = IdOn[x]
        /\ IdIn' = IdIn
    BY <1>5, RespondEffect DEF Unread
  <2>2. Working' = Working
    BY <1>5, RespondEffect DEF Working, TypeInv, TypeOK, BackTypeOK
  <2> QED BY <2>1, <2>2 DEF Busy
<1>6. ASSUME UNCHANGED <<ring, req_cons>>, WorkStill PROVE Busy' = Busy
  <2>1. UnreadRequests' = UnreadRequests /\ IdOn' = IdOn
    BY <1>1, <1>6 DEF UnreadRequests, IdOn
  <2>2. Working' = Working /\ \A q \in Working : IdIn'[q] = IdIn[q]
    BY <1>3, <1>6 DEF WorkStill, Working
  <2> QED BY <2>1, <2>2 DEF Busy
<1>7. ASSUME UNCHANGED <<ring, req_cons>>, NEW p \in Pending, WorkEnds(p)
      PROVE  \E r \in Request \ NonFs : Moves(r, "pending", "served")
  <2> DEFINE i == IdIn[p]
             r == shadow[i].request
  <2>1. UnreadRequests' = UnreadRequests /\ IdOn' = IdOn
    BY <1>1, <1>7 DEF UnreadRequests, IdOn
  <2>2. p \in Working /\ Working' = Working \ {p} /\ \A q \in Working : IdIn'[q] = IdIn[q]
    BY <1>3, <1>7 DEF WorkEnds, Working
  <2>3. /\ i \in InUse /\ \A x \in UnreadRequests : IdOn[x] # i
        /\ \A q \in Working : q # p => IdIn[q] # i
    BY <1>3, <2>2 DEF IdInv, HolderInv, OneEach, Unread
  <2>4. i \in Busy
    BY <2>2 DEF Busy
  <2> HIDE DEF i
  <2>5. Busy' = Busy \ {i}
    BY <2>1, <2>2, <2>3 DEF Busy, i
  <2>6. r \in Request \ NonFs /\ Map[r] = "pending"
    BY <2>3, <2>4, InUseRequest
  <2>7. Done' = Done \cup {r}
    BY <1>1, <2>3, <2>4, <2>5 DEF Done
  <2> HIDE DEF r
  <2>8. Map'[r] = "served"
    BY <1>1, <2>6, <2>7 DEF Map
  <2>9. Moves(r, "pending", "served")
    BY <1>1, <2>6, <2>7, <2>8, MapMoves
  <2> QED BY <2>6, <2>9
<1> QED BY <1>2, <1>4, <1>5, <1>6, <1>7, BackEffect

\* The pair of drivers does what a block driver promises: whatever the requests,
\* the ring, the pool, the failures of both sides and the interleaving, a request
\* ends at most once per submission and never before the driver domain is done
\* with it and its pages, and one the driver does not handle never reaches it.
THEOREM DriversImplementBlockService == Spec => ImplementsBlockService
<1>1. Init => Service!AbsInit
  BY DEF Init, FrontInit, Service!AbsInit
<1>2. (ServiceInv => Mapped = Map)'
  BY MappedIsMap, PTL
<1>3. ServiceInv /\ ServiceInv' /\ [Next]_vars => [Service!AbsNext]_Mapped
  <2> SUFFICES ASSUME ServiceInv, ServiceInv', [Next]_vars
               PROVE  Mapped' = Mapped \/ Service!AbsNext
    OBVIOUS
  <2>1. Mapped = Map
    BY MappedIsMap
  <2>2. Mapped' = Map'
    BY <1>2
  <2>3. CASE UNCHANGED vars
    <3>1. Mapped' = Mapped
      BY <2>3 DEF vars, frontVars, backVars, sringVars, fblkVars, fshadowVars, fidxVars, fctlVars,
         bidxVars, Mapped, Served, Untouched, ResponsesFor, ServiceFor, UnreadResponses, InService,
         RspNext
    <3> QED BY <3>1
  <2>4. CASE Next
    <3>1. \/ Map' = Map
          \/ \E r \in Request :
               \/ Moves(r, "idle", "pending")
               \/ r \notin NonFs /\ Moves(r, "pending", "served")
               \/ Moves(r, "served", "idle")
               \/ r \in NonFs /\ Moves(r, "pending", "idle")
      BY <2>4, FrontMaps, BackMaps DEF Next
    <3>2. ASSUME NEW r \in Request, Moves(r, "idle", "pending") PROVE Service!AbsSubmit(r)
      BY <2>1, <2>2, <3>2 DEF Moves, Service!AbsSubmit, Mapped
    <3>3. ASSUME NEW r \in Request, r \notin NonFs, Moves(r, "pending", "served")
          PROVE  Service!AbsServe(r)
      BY <2>1, <2>2, <3>3 DEF Moves, Service!AbsServe, Mapped
    <3>4. ASSUME NEW r \in Request, Moves(r, "served", "idle") PROVE Service!AbsComplete(r)
      BY <2>1, <2>2, <3>4 DEF Moves, Service!AbsComplete, Mapped
    <3>5. ASSUME NEW r \in Request, r \in NonFs, Moves(r, "pending", "idle")
          PROVE  Service!AbsRefuse(r)
      BY <2>1, <2>2, <3>5 DEF Moves, Service!AbsRefuse, Mapped
    <3> QED BY <2>1, <2>2, <3>1, <3>2, <3>3, <3>4, <3>5 DEF Service!AbsNext
  <2> QED BY <2>3, <2>4
<1>4. Spec => []ServiceInv
  BY TypeInvariant, RingInvariant, IdInvariant, MappedInvariant, QueueInvariant, PTL DEF ServiceInv
<1> QED BY <1>1, <1>3, <1>4, PTL DEF Spec, ImplementsBlockService, Service!AbsSpec, Mapped

=============================================================================
