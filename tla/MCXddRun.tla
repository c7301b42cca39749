------------------------------ MODULE MCXddRun ------------------------------
(***************************************************************************)
(* An instance of XddRun for TLC: a target of two queue threads and one of *)
(* one.  The third thread has the same serializer barrier as the second:   *)
(* the threads of the first target are numbered 1 and 0, the next 2.       *)
(***************************************************************************)
EXTENDS XddRun

DepthsTwoOne == <<2, 1>>

=============================================================================
