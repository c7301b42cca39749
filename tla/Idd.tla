-------------------------------- MODULE Idd ---------------------------------
(***************************************************************************)
(* The isolated driver domain: front end, back end and the ring between    *)
(* them, running side by side, and what the pair must guarantee.           *)
(***************************************************************************)
EXTENDS Frontend, Backend

vars == <<frontVars, backVars, sringVars, evtVars>>

Init == SharedInit /\ FrontInit /\ BackInit

Next ==
  \/ FrontNext /\ UNCHANGED backVars
  \/ BackNext /\ UNCHANGED frontVars

\* Every thread and handler that can run does.  A completion competes with
\* others for a CPU and for blk_ring_lock, a ticket lock: it gets its turn.
Fairness ==
  /\ WF_vars(DoIddRequest /\ UNCHANGED backVars)
  /\ WF_vars((ThreadSleep \/ ThreadLock) /\ UNCHANGED backVars)
  /\ WF_vars(ResponseThread /\ UNCHANGED backVars)
  /\ WF_vars(FrontIrq /\ UNCHANGED backVars)
  /\ WF_vars(RequestThread /\ UNCHANGED frontVars)
  /\ WF_vars(BackIrq /\ UNCHANGED frontVars)
  /\ \A p \in Pending :
       /\ SF_vars(((\E err \in {0, -1} : EndBio(p, err)) \/ Respond(p)) /\ UNCHANGED frontVars)
       /\ WF_vars((NotifyFront(p) \/ Release(p)) /\ UNCHANGED frontVars)

Spec     == Init /\ [][Next]_vars
FairSpec == Spec /\ Fairness

-----------------------------------------------------------------------------
(* Where a request is *)

Allocated(id) == shadow[id].request # NoReq

\* First response the front end has not handled; it stores rsp_cons only at
\* the end of a batch.
RspNext == IF fpc \in {"drain", "consume"} THEN f_i ELSE rsp_cons

UnreadRequests  == IdxRange(req_cons, req_prod_pvt)
UnreadResponses == IdxRange(RspNext, rsp_prod)
InService       == {p \in Pending : stage[p] \in {"claimed", "io", "respond"}}

RequestsFor(id)  == {x \in UnreadRequests : ring[SlotOf(x)] = ReqMsg(id)}
ServiceFor(id)   == {p \in InService : pending[p].id = id}
ResponsesFor(id) == {x \in UnreadResponses :
                       ring[SlotOf(x)].kind = "rsp" /\ ring[SlotOf(x)].seq_no = id}

\* No bio works on the pages of the request, and they are not mapped.
Untouched(id) ==
  \A p \in Pending : pending[p].mapped \/ pending[p].pendcnt > 0 => pending[p].id # id

-----------------------------------------------------------------------------
(* Safety *)

\* Every variable has its type.
TypeOK == SharedTypeOK /\ FrontTypeOK /\ BackTypeOK

\* The indices of the two domains never overtake each other, however often
\* they wrap: responses consumed, published, requests consumed, published and
\* prepared follow in this order, within one ring of each other.
RingOrder ==
  /\ Minus(RspNext, rsp_cons) <= Minus(rsp_prod, rsp_cons)
  /\ rsp_prod = rsp_prod_pvt
  /\ Minus(rsp_prod, rsp_cons) <= Minus(req_cons, rsp_cons)
  /\ Minus(req_cons, rsp_cons) <= Minus(req_prod, rsp_cons)
  /\ Minus(req_prod, rsp_cons) <= Minus(req_prod_pvt, rsp_cons)
  /\ Minus(req_prod_pvt, rsp_cons) <= RingSize

\* Every id in use is in exactly one place: a request the back end has not
\* read, a pending_req, or a response the front end has not handled; an id on
\* the free list is nowhere.  So no request is lost, answered twice or
\* overwritten in its slot, and add_id_to_freelist never refuses an id.
OneHolder ==
  \A id \in Ids :
    Cardinality(RequestsFor(id)) + Cardinality(ServiceFor(id)) + Cardinality(ResponsesFor(id))
      = IF Allocated(id) THEN 1 ELSE 0

\* The free list, followed from shadow_free, runs once through the ids not in
\* use and ends there: no cycle, no id lost, whatever the order of completion.
FreeIds == {id \in Ids : ~Allocated(id)}
FreeListAt[n \in 0 .. RingSize] ==
  IF n = 0 THEN shadow_free
  ELSE IF FreeListAt[n - 1] \in Ids THEN shadow[FreeListAt[n - 1]].seq_no ELSE EndOfList
FreeListIntact ==
  /\ {FreeListAt[n] : n \in 0 .. Cardinality(FreeIds) - 1} = FreeIds
  /\ FreeListAt[Cardinality(FreeIds)] = EndOfList
  /\ \A id \in Ids : Allocated(id) => shadow[id].seq_no = id

\* BUG_ON(free >= IDD_RING_SIZE) of get_id_from_freelist never fires: a ring
\* that is not full leaves a free id, also while responses are being consumed.
IdForEveryFreeSlot ==
  fpc = "peek" /\ ~RING_FULL(req_prod_pvt, rsp_cons) => shadow_free < RingSize

\* The ids of the requests of the front end, in their free list or in use.
IdsSuffice == FreeListIntact /\ IdForEveryFreeSlot

\* With a pending_req for each slot and for each context still on its way to
\* free_req, the thread never finds the pool empty: it would go to sleep on
\* the ring with requests in it (do_block_io_op's result is not looked at).
PoolSuffices ==
  Cardinality(Pending) >= RingSize + MaxFinishing
    => (bpc = "fetch" /\ Takeable => Pool # {})

\* A message, once published, stays as it is until the other side has consumed
\* it: no response is written over a request not copied yet, no request over
\* a response not handled yet.
MessagesStay ==
  /\ \A x \in IdxRange(req_cons, req_prod) : ring'[SlotOf(x)] = ring[SlotOf(x)]
  /\ \A x \in IdxRange(RspNext, rsp_prod) : ring'[SlotOf(x)] = ring[SlotOf(x)]
PublishedMessagesStable == [][MessagesStay]_vars

-----------------------------------------------------------------------------
(* Sleeping and waking *)

\* Responses up to here are handled, or about to be by whoever holds io_lock.
FrontSeen == IF fpc \in {"drain", "consume"} THEN f_rp ELSE rsp_cons

\* An interrupt for the response thread is on its way.
FrontWakeupDue == evt_front \/ fipc = "flagged" \/ RingLocked

\* The response thread never sleeps on a response nobody will wake it for.
\* Holds while the interrupt cannot run beside the thread (FrontSmp = FALSE).
ResponseThreadNotStranded ==
  tpc = "asleep" /\ rsp_prod # FrontSeen => rsp_status = SLEEPING /\ FrontWakeupDue

\* The window on several CPUs: io_lock does not keep the handler out, and it runs
\* after the thread is marked SLEEPING and before it clears waiting_rsps.
FrontRace == fpc = "sleep" /\ fipc # "idle"

\* What makes it inductive: as long as the thread has not been told
\* (~waiting_rsps) it is marked SLEEPING, and any response published since it
\* last read rsp_prod has its interrupt on the way.
SleepInv ==
  /\ tpc = "locked" <=> (fpc \in ThreadPath \/ site # "blk")
  /\ fpc \in ThreadPath \cup {"unlocked", "submit"} => site = "blk"
  /\ fipc # "idle" => waiting_rsps
  /\ fipc = "woken" => tpc # "asleep"
  /\ tpc = "asleep" => rsp_status = SLEEPING /\ (waiting_rsps => fipc = "flagged")
  /\ fpc = "sleep" => waiting_rsps /\ rsp_status = SLEEPING
  /\ ~waiting_rsps => rsp_status = SLEEPING
  /\ ~waiting_rsps /\ fpc \notin {"recheck", "read"} /\ rsp_prod # FrontSeen => FrontWakeupDue

\* The same for the request thread of the back end.  It does not hold.
BackWakeupDue == evt_back \/ bipc = "flagged" \/ fpc = "notify"
RequestThreadNotStranded ==
  bpc = "asleep" /\ req_cons # req_prod => req_status = SLEEPING /\ BackWakeupDue

\* The window: the interrupt comes after the request thread is marked SLEEPING
\* and before it clears waiting_reqs, and so takes back both.
BackRace == bpc = "sleep" /\ bipc # "idle"

-----------------------------------------------------------------------------
(* Progress *)

\* io_lock is held with interrupts disabled, and do_idd_request polls under it:
\* it is always released again.
LockIsReleased == fpc # "unlocked" ~> fpc = "unlocked"

\* Every submitted request is completed or refused.
EveryRequestEnds == \A r \in Request : blk[r] = "submitted" ~> blk[r] # "submitted"

\* With sleeping threads that depends on one thing only: BackRace.
EveryRequestEndsUnlessRace == []~BackRace => EveryRequestEnds

-----------------------------------------------------------------------------
(* Refinement *)

\* The back end is done with r and its pages: the response is being sent or is
\* on the ring.
Served(r) ==
  \E id \in Ids :
    /\ shadow[id].request = r
    /\ Untouched(id)
    /\ \/ ResponsesFor(id) # {}
       \/ \E p \in ServiceFor(id) : stage[p] = "respond"

Service == INSTANCE BlockService WITH
  st <- [r \in Request |-> IF blk[r] # "submitted" THEN "idle"
                           ELSE IF Served(r) THEN "served" ELSE "pending"]

\* The pair of drivers does what a block driver promises.
ImplementsBlockService == Service!AbsSpec

=============================================================================
