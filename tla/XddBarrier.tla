----------------------------- MODULE XddBarrier -----------------------------
(***************************************************************************)
(* The barrier of the disk benchmark xdd (barrier.c) and the way its       *)
(* threads use one: two barriers taken in turn, round after round          *)
(* (thread_barrier[barrierindx], barrierindx ^= 1 in xdd_io_thread).       *)
(*                                                                         *)
(* xdd_barrier counts its callers under a mutex and then, outside it, does *)
(* one operation on a System V semaphore: the caller that completes the    *)
(* count puts back the counter and adds threads - 1, the others subtract 1 *)
(* and block while the semaphore is 0.  The count and the semaphore        *)
(* operation are therefore two steps, and a caller that comes back to the  *)
(* same barrier may take the unit left for a slower one.                   *)
(*                                                                         *)
(* A barrier of one thread returns at once; here its caller completes the  *)
(* count and adds 0, which comes to the same.                              *)
(***************************************************************************)
EXTENDS Naturals, FiniteSets

CONSTANTS
    Thread,     \* the threads that meet at the barriers
    MaxRound    \* how often they meet: the passes of a run

ASSUME ThreadAssumption == IsFiniteSet(Thread) /\ Thread # {}
ASSUME MaxRoundAssumption == MaxRound \in Nat

VARIABLES
    counter,    \* [0..1 -> Nat]: bp->counter of the two barriers
    sem,        \* [0..1 -> Nat]: the values of their semaphores
    round,      \* [Thread -> Nat]: the rounds a thread has left
    pc          \* [Thread -> {"run", "wait", "post"}]

vars == <<counter, sem, round, pc>>

Parties == Cardinality(Thread)

\* Mutant of Turn: one barrier is used for all rounds.
TurnOfOne(t) == 0

\* The barrier that t takes in the round it is in: barrierindx.
Turn(t) == round[t] % 2

-----------------------------------------------------------------------------

Init == /\ counter = [b \in 0..1 |-> 0]
        /\ sem = [b \in 0..1 |-> 0]
        /\ round = [t \in Thread |-> 0]
        /\ pc = [t \in Thread |-> "run"]

\* One of the first threads - 1 callers counts itself and is to subtract 1.
EnterEarly(t) ==
    /\ pc[t] = "run" /\ round[t] < MaxRound
    /\ counter[Turn(t)] # Parties - 1
    /\ counter' = [counter EXCEPT ![Turn(t)] = @ + 1]
    /\ pc' = [pc EXCEPT ![t] = "wait"]
    /\ UNCHANGED <<sem, round>>

\* The caller that completes the count empties it and is to add threads - 1.
EnterLast(t) ==
    /\ pc[t] = "run" /\ round[t] < MaxRound
    /\ counter[Turn(t)] = Parties - 1
    /\ counter' = [counter EXCEPT ![Turn(t)] = 0]
    /\ pc' = [pc EXCEPT ![t] = "post"]
    /\ UNCHANGED <<sem, round>>

\* semop(threads - 1) never blocks: the last caller goes on at once.
Post(t) ==
    /\ pc[t] = "post"
    /\ sem' = [sem EXCEPT ![Turn(t)] = @ + (Parties - 1)]
    /\ round' = [round EXCEPT ![t] = @ + 1]
    /\ pc' = [pc EXCEPT ![t] = "run"]
    /\ UNCHANGED counter

\* semop(-1) returns to a blocked caller, to any of them.
Wake(t) ==
    /\ pc[t] = "wait"
    /\ sem[Turn(t)] > 0
    /\ sem' = [sem EXCEPT ![Turn(t)] = @ - 1]
    /\ round' = [round EXCEPT ![t] = @ + 1]
    /\ pc' = [pc EXCEPT ![t] = "run"]
    /\ UNCHANGED counter

Enter(t) == EnterEarly(t) \/ EnterLast(t)

Next == \E t \in Thread : Enter(t) \/ Post(t) \/ Wake(t)

Spec == Init /\ [][Next]_vars

\* Every thread of xdd runs, and a unit of the semaphore that stays there is
\* taken by some caller blocked on it.
FairSpec == Spec /\ \A t \in Thread : WF_vars(Enter(t) \/ Post(t) \/ Wake(t))

-----------------------------------------------------------------------------
(* Properties *)

Waiting(b) == {t \in Thread : pc[t] = "wait" /\ Turn(t) = b}
Posting(b) == {t \in Thread : pc[t] = "post" /\ Turn(t) = b}

\* Type invariant: no counter passes the number of threads.
TypeOK == /\ counter \in [0..1 -> 0..(Parties - 1)]
          /\ sem \in [0..1 -> Nat]
          /\ round \in [Thread -> 0..MaxRound]
          /\ pc \in [Thread -> {"run", "wait", "post"}]

\* A thread leaves a round only when every other thread has entered it, and
\* none is ever two rounds ahead (xdd.c:800: with one barrier, "some threads
\* ... woken up prematurely").
Together ==
    \A t, u \in Thread :
        round[t] > round[u] => round[t] = round[u] + 1 /\ pc[u] = "wait"

\* What the barrier still owes its waiters: each of them has a unit of the
\* semaphore, is counted, or waits for the post of the last caller.
Accounted ==
    \A b \in 0..1 :
        Cardinality(Waiting(b)) =
            counter[b] + (sem[b] + (IF Posting(b) = {} THEN 0 ELSE Parties - 1))

\* Every thread gets through every round: no wakeup is lost or stolen.
EveryoneLeaves == <>(\A t \in Thread : round[t] = MaxRound)

=============================================================================
