---------------------------- MODULE BlockService ----------------------------
(***************************************************************************)
(* What the isolated block driver promises the block layer above it: every *)
(* submitted request is completed at most once per submission, and never   *)
(* before the driver domain has finished with it.  A request the driver    *)
(* does not handle (not REQ_TYPE_FS) is refused without reaching it.       *)
(***************************************************************************)
CONSTANTS
  Request,  \* block requests
  NonFs     \* those that are refused

VARIABLES st  \* of each request: not in the driver, on its way, handled

AbsInit == st = [r \in Request |-> "idle"]

AbsSubmit(r) ==
  /\ st[r] = "idle"
  /\ st' = [st EXCEPT ![r] = "pending"]

\* The driver domain is done with the request and its pages.
AbsServe(r) ==
  /\ r \notin NonFs
  /\ st[r] = "pending"
  /\ st' = [st EXCEPT ![r] = "served"]

AbsComplete(r) ==
  /\ st[r] = "served"
  /\ st' = [st EXCEPT ![r] = "idle"]

AbsRefuse(r) ==
  /\ r \in NonFs
  /\ st[r] = "pending"
  /\ st' = [st EXCEPT ![r] = "idle"]

AbsNext == \E r \in Request : AbsSubmit(r) \/ AbsServe(r) \/ AbsComplete(r) \/ AbsRefuse(r)

AbsSpec == AbsInit /\ [][AbsNext]_st

=============================================================================
