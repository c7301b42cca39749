----------------------------- MODULE SharedRing -----------------------------
(***************************************************************************)
(* What the two domains share: the ring page (struct idd_sring of          *)
(* src/kernel/ring.h) and the interdomain event channel.                   *)
(*                                                                         *)
(* The page holds the two producer indices, the slots and the state of     *)
(* the two polling threads, RUNNING or SLEEPING, which the other side      *)
(* reads to decide whether to send an interrupt.  req_event and rsp_event  *)
(* are left out: both drivers compute "notify" from them and ignore it.    *)
(***************************************************************************)
EXTENDS Ring

VARIABLES
  req_prod,    \* requests published by the front end
  rsp_prod,    \* responses published by the back end
  ring,        \* the slots: a request or a response each
  req_status,  \* state of the back end's request thread
  rsp_status,  \* state of the front end's response thread
  evt_back,    \* an interrupt is pending for the back end
  evt_front    \* an interrupt is pending for the front end

sringVars == <<req_prod, rsp_prod, ring, req_status, rsp_status>>
evtVars   == <<evt_back, evt_front>>

SLEEPING == "SLEEPING"
RUNNING  == "RUNNING"

Ids == 0 .. RingSize - 1

\* A slot is a union: kind says which of the two was written last.
Message  == [kind : {"req", "rsp", "zero"}, seq_no : Ids, res : {0, -1}]
ReqMsg(id)      == [kind |-> "req", seq_no |-> id, res |-> 0]
RspMsg(id, res) == [kind |-> "rsp", seq_no |-> id, res |-> res]
ZeroMsg         == [kind |-> "zero", seq_no |-> 0, res |-> 0]

SharedTypeOK ==
  /\ req_prod \in RING_IDX
  /\ rsp_prod \in RING_IDX
  /\ ring \in [Slots -> Message]
  /\ req_status \in {SLEEPING, RUNNING}
  /\ rsp_status \in {SLEEPING, RUNNING}
  /\ evt_back \in BOOLEAN
  /\ evt_front \in BOOLEAN

\* idd_alloc_shared (a zeroed page) and SHARED_RING_INIT.
SharedInit ==
  /\ req_prod = 0
  /\ rsp_prod = 0
  /\ ring = [s \in Slots |-> ZeroMsg]
  /\ req_status = RUNNING
  /\ rsp_status = RUNNING
  /\ evt_back = FALSE
  /\ evt_front = FALSE

=============================================================================
