------------------------------- MODULE XddRun -------------------------------
(***************************************************************************)
(* A run of xdd: main starts one thread for each queue position of each    *)
(* target, one after the other, through a pair of serializer barriers; the *)
(* threads go through the passes together, kept in step by the barriers of *)
(* all threads and of the queue threads of one target; queue thread 0 of   *)
(* the first target shows what the others have measured.                   *)
(*                                                                         *)
(* The barriers that the same threads take in turn are counters here: a    *)
(* thread leaves its r-th meeting when all the others have entered theirs  *)
(* (XddBarrier!Together).  The serializer barriers are entered by main and *)
(* a different thread each time, which XddBarrier does not cover: they     *)
(* appear with their count and their semaphore.                            *)
(***************************************************************************)
EXTENDS Integers, Sequences

CONSTANTS
    Depths,     \* the queue depths of the targets
    Passes,     \* the passes asked for
    MaxPasses   \* bound: the run time is over in this pass at the latest

ASSUME RunAssumption ==
    /\ Depths \in Seq(Nat \ {0}) /\ Depths # <<>>
    /\ Passes \in Nat \ {0} /\ MaxPasses \in Nat /\ MaxPasses >= Passes

Plan == INSTANCE XddPlan

\* The threads, as <<target, queue position>>, in the order main creates them.
Target == DOMAIN Depths
Thread == UNION {{j} \X (0..(Depths[j] - 1)) : j \in Target}
FirstOf[j \in Target] == IF j = 1 THEN 0 ELSE FirstOf[j - 1] + Depths[j - 1]
Order(t) == FirstOf[t[1]] + t[2]
Peers(t) == {u \in Thread : u[1] = t[1]}
T0Q0 == <<1, 0>>

\* The serializer barrier of a thread.
Slot(t) == Plan!mythreadnum(FirstOf[t[1]], Depths[t[1]], t[2]) % 2

VARIABLES
    option,     \* what is asked for: a run time, and reopening the targets
    main,       \* where main is
    made,       \* how many threads main has created and waited for
    count,      \* the counters of the two serializer barriers
    sem,        \* and their semaphores
    party,      \* what a thread or main does at its serializer barrier
    pc,         \* where each thread is
    failed,     \* how the initialisation of a thread failed
    abort,      \* xgp->abort_io
    open,       \* whether the target is open for a thread
    passes,     \* xgp->passes
    pass,       \* current_pass of each thread
    ring,       \* xgp->run_ring: the run time is over
    met,        \* the meetings of all threads that a thread has entered
    qmet        \* the meetings of its target's threads that it has entered

startup == <<main, made, count, sem, party, failed>>
vars == <<option, startup, pc, abort, open, passes, pass, ring, met, qmet>>

Main == <<0, 0>>

Init ==
    /\ option \in [runtime : BOOLEAN, reopen : BOOLEAN]
    /\ main = "create" /\ made = 0
    /\ count = [b \in 0..1 |-> 0] /\ sem = [b \in 0..1 |-> 0]
    /\ party = [p \in Thread \cup {Main} |-> "out"]
    /\ pc = [t \in Thread |-> "none"]
    /\ failed = [t \in Thread |-> "no"]
    /\ abort = FALSE
    /\ open = [t \in Thread |-> FALSE]
    /\ passes = Passes
    /\ pass = [t \in Thread |-> 1]
    /\ ring = FALSE
    /\ met = [t \in Thread |-> 0] /\ qmet = [t \in Thread |-> 0]

Goes(t, place) == pc' = [pc EXCEPT ![t] = place]

\* A thread enters a meeting and waits at "place" for the others to enter it.
Meets(t, place) ==
    /\ Goes(t, place)
    /\ met' = [met EXCEPT ![t] = @ + 1]
    /\ UNCHANGED qmet
MeetsPeers(t, place) ==
    /\ Goes(t, place)
    /\ qmet' = [qmet EXCEPT ![t] = @ + 1]
    /\ UNCHANGED met
Stays(t, place) == Goes(t, place) /\ UNCHANGED <<met, qmet>>

AllMet(t) == \A u \in Thread : met[u] >= met[t]
PeersMet(t) == \A u \in Peers(t) : qmet[u] >= qmet[t]

-----------------------------------------------------------------------------
(* Starting the threads *)

Created == CHOOSE t \in Thread : Order(t) = made
SlotOf(p) == IF p = Main THEN Slot(Created) ELSE Slot(p)

MainCreates ==
    /\ main = "create"
    /\ pc[Created] = "none"
    /\ Goes(Created, "init")
    /\ main' = "serial"
    /\ party' = [party EXCEPT ![Main] = "count"]
    /\ UNCHANGED <<option, made, count, sem, failed, abort, open, passes, pass,
                   ring, met, qmet>>

\* xdd_barrier: the second of the two callers posts for the first.
Counts(p) ==
    LET b == SlotOf(p)
    IN  /\ party[p] = "count"
        /\ count' = [count EXCEPT ![b] = IF @ = 1 THEN 0 ELSE @ + 1]
        /\ party' = [party EXCEPT ![p] = IF count[b] = 1 THEN "post" ELSE "wait"]
        /\ UNCHANGED <<option, main, made, sem, pc, failed, abort, open, passes,
                       pass, ring, met, qmet>>

\* The semaphore operation, after the count; a waiter takes any unit there is.
SemOp(p) ==
    LET b == SlotOf(p)
    IN  /\ \/ party[p] = "post" /\ sem' = [sem EXCEPT ![b] = @ + 1]
           \/ party[p] = "wait" /\ sem[b] > 0 /\ sem' = [sem EXCEPT ![b] = @ - 1]
        /\ party' = [party EXCEPT ![p] = "out"]

MainReleased ==
    /\ SemOp(Main)
    /\ main' = "check"
    /\ UNCHANGED <<option, made, count, pc, failed, abort, open, passes, pass,
                   ring, met, qmet>>

\* A thread that could not be initialised returns; the others go to the first
\* meeting of all threads.
ThreadReleased(t) ==
    /\ SemOp(t)
    /\ IF failed[t] = "no" THEN Meets(t, "start") ELSE Stays(t, "gone")
    /\ UNCHANGED <<option, main, made, count, failed, abort, open, passes, pass,
                   ring>>

\* Mutant of MainChecks: main does not look at abort_io.
MainChecksNothing ==
    /\ main = "check"
    /\ made' = made + 1
    /\ main' = IF \E t \in Thread : Order(t) = made + 1 THEN "create" ELSE "final"
    /\ UNCHANGED <<option, count, sem, party, pc, failed, abort, open, passes,
                   pass, ring, met, qmet>>

\* exit(1), which ends all threads, if some thread has failed; otherwise the
\* next thread, or the final barrier.
MainChecks ==
    /\ main = "check"
    /\ \/ /\ abort
          /\ main' = "exit"
          /\ pc' = [t \in Thread |-> "gone"]
          /\ party' = [p \in Thread \cup {Main} |-> "out"]
          /\ UNCHANGED made
       \/ /\ ~abort
          /\ made' = made + 1
          /\ main' = IF \E t \in Thread : Order(t) = made + 1
                       THEN "create" ELSE "final"
          /\ UNCHANGED <<party, pc>>
    /\ UNCHANGED <<option, count, sem, failed, abort, open, passes, pass, ring,
                   met, qmet>>

\* The target is opened, the seek list and the buffers are allocated.
InitEnds(t) ==
    /\ pc[t] = "init"
    /\ Stays(t, "serial")
    /\ party' = [party EXCEPT ![t] = "count"]
    /\ open' = [open EXCEPT ![t] = TRUE]
    /\ UNCHANGED <<option, main, made, count, sem, failed, abort, passes, pass,
                   ring>>

\* The target does not open or there is no buffer: abort_io, then the barrier.
InitFails(t) ==
    /\ pc[t] = "init"
    /\ Stays(t, "serial")
    /\ party' = [party EXCEPT ![t] = "count"]
    /\ failed' = [failed EXCEPT ![t] = "told"]
    /\ abort' = TRUE
    /\ UNCHANGED <<option, main, made, count, sem, open, passes, pass, ring>>

\* No memory for the seek list: the thread returns without the barrier.
InitDies(t) ==
    /\ pc[t] = "init"
    /\ Stays(t, "gone")
    /\ failed' = [failed EXCEPT ![t] = "silent"]
    /\ UNCHANGED <<option, main, made, count, sem, party, abort, open, passes,
                   pass, ring>>

-----------------------------------------------------------------------------
(* A pass *)

\* Mutant of Start: a thread that sees the abort returns at once.
StartReturns(t) ==
    /\ pc[t] = "start" /\ AllMet(t)
    /\ IF abort THEN Stays(t, "gone") ELSE Stays(t, "io")
    /\ UNCHANGED <<option, startup, abort, open, passes, pass, ring>>

\* Mutant of Start: abort_io is not looked at.
StartAnyway(t) ==
    /\ pc[t] = "start" /\ AllMet(t)
    /\ Stays(t, "io")
    /\ UNCHANGED <<option, startup, abort, open, passes, pass, ring>>

\* All threads start a pass together; if one has aborted, the loop is left.
Start(t) ==
    /\ pc[t] = "start" /\ AllMet(t)
    /\ IF abort THEN MeetsPeers(t, "left") ELSE Stays(t, "io")
    /\ UNCHANGED <<option, startup, abort, open, passes, pass, ring>>

\* xdd_io_loop; it may find the run time over, in the last pass it does.
Io(t) ==
    /\ pc[t] = "io"
    /\ MeetsPeers(t, "ran")
    /\ ring' \in IF ~option.runtime THEN {FALSE}
                 ELSE IF pass[t] >= MaxPasses THEN {TRUE} ELSE {ring, TRUE}
    /\ UNCHANGED <<option, startup, abort, open, passes, pass>>

\* The queue threads of the target have ended their loops.
Ran(t) ==
    /\ pc[t] = "ran" /\ PeersMet(t)
    /\ Stays(t, "results")
    /\ UNCHANGED <<option, startup, abort, open, passes, pass, ring>>

\* The thread adds the pass to its results.
Results(t) ==
    /\ pc[t] = "results"
    /\ MeetsPeers(t, "computed")
    /\ UNCHANGED <<option, startup, abort, open, passes, pass, ring>>

\* Mutant of Computed: no meeting of all threads before the results are shown.
ComputedAlone(t) ==
    /\ pc[t] = "computed" /\ PeersMet(t)
    /\ IF t = T0Q0 THEN Stays(t, "show") ELSE Meets(t, "shown")
    /\ UNCHANGED <<option, startup, abort, open, passes, pass, ring>>

Computed(t) ==
    /\ pc[t] = "computed" /\ PeersMet(t)
    /\ Meets(t, "compared")
    /\ UNCHANGED <<option, startup, abort, open, passes, pass, ring>>

\* All results are there: the first thread shows them, the others wait for it.
Compared(t) ==
    /\ pc[t] = "compared" /\ AllMet(t)
    /\ IF t = T0Q0 THEN Stays(t, "show") ELSE Meets(t, "shown")
    /\ UNCHANGED <<option, startup, abort, open, passes, pass, ring>>

Show(t) ==
    /\ pc[t] = "show"
    /\ Meets(t, "shown")
    /\ UNCHANGED <<option, startup, abort, open, passes, pass, ring>>

Shown(t) ==
    /\ pc[t] = "shown" /\ AllMet(t)
    /\ MeetsPeers(t, "settle")
    /\ UNCHANGED <<option, startup, abort, open, passes, pass, ring>>

\* The run time is over; or this was the last pass and one has to be added.
Settle(t) ==
    /\ pc[t] = "settle" /\ PeersMet(t)
    /\ IF option.runtime /\ ring THEN MeetsPeers(t, "left")
       ELSE IF option.runtime /\ pass[t] = passes THEN Stays(t, "grow")
       ELSE Stays(t, "reopen")
    /\ UNCHANGED <<option, startup, abort, open, passes, pass, ring>>

\* xgp->passes++ by every thread that saw its last pass, with no lock: it adds
\* to the value it compared or to the one it finds.
Grow(t) ==
    /\ pc[t] = "grow"
    /\ Stays(t, "reopen")
    /\ passes' \in {pass[t] + 1, passes + 1}
    /\ UNCHANGED <<option, startup, abort, open, pass, ring>>

\* Queue thread 0 closes the target and opens it again, unless this was the
\* last pass; an open that fails sets abort_io.
Reopen(t) ==
    /\ pc[t] = "reopen"
    /\ Stays(t, "again")
    /\ \/ /\ ~(option.reopen /\ t[2] = 0)
          /\ UNCHANGED <<abort, open>>
       \/ /\ option.reopen /\ t[2] = 0 /\ pass[t] = passes
          /\ open' = [open EXCEPT ![t] = FALSE]
          /\ UNCHANGED abort
       \/ /\ option.reopen /\ t[2] = 0 /\ pass[t] # passes
          /\ \E opens \in BOOLEAN :
               /\ open' = [open EXCEPT ![t] = opens]
               /\ abort' = (abort \/ ~opens)
    /\ UNCHANGED <<option, startup, passes, pass, ring>>

\* Mutant of Again: the next pass begins without the meeting of all threads.
AgainAlone(t) ==
    /\ pc[t] = "again"
    /\ IF pass[t] < passes THEN Stays(t, "io") ELSE MeetsPeers(t, "left")
    /\ pass' = [pass EXCEPT ![t] = IF pass[t] < passes THEN @ + 1 ELSE @]
    /\ UNCHANGED <<option, startup, abort, open, passes, ring>>

\* The head of the pass loop.
Again(t) ==
    /\ pc[t] = "again"
    /\ IF pass[t] < passes THEN Meets(t, "start") ELSE MeetsPeers(t, "left")
    /\ pass' = [pass EXCEPT ![t] = IF pass[t] < passes THEN @ + 1 ELSE @]
    /\ UNCHANGED <<option, startup, abort, open, passes, ring>>

-----------------------------------------------------------------------------
(* After the passes *)

Left(t) ==
    /\ pc[t] = "left" /\ PeersMet(t)
    /\ Meets(t, "total")
    /\ UNCHANGED <<option, startup, abort, open, passes, pass, ring>>

Total(t) ==
    /\ pc[t] = "total" /\ AllMet(t)
    /\ IF t = T0Q0 THEN Stays(t, "average") ELSE Meets(t, "averaged")
    /\ UNCHANGED <<option, startup, abort, open, passes, pass, ring>>

Average(t) ==
    /\ pc[t] = "average"
    /\ Meets(t, "averaged")
    /\ UNCHANGED <<option, startup, abort, open, passes, pass, ring>>

\* thread_complete is set, then the prefinal barrier.
Averaged(t) ==
    /\ pc[t] = "averaged" /\ AllMet(t)
    /\ Stays(t, "prefinal")
    /\ UNCHANGED <<option, startup, abort, open, passes, pass, ring>>

Complete == {u \in Thread : pc[u] \in {"prefinal", "combine", "final"}}

\* The prefinal barrier: the first thread combines the results of the others,
\* which close their targets and enter the final barrier.
PreFinal(t) ==
    /\ pc[t] = "prefinal" /\ Complete = Thread
    /\ Stays(t, IF t = T0Q0 THEN "combine" ELSE "final")
    /\ open' = [open EXCEPT ![t] = (t = T0Q0) /\ @]
    /\ UNCHANGED <<option, startup, abort, passes, pass, ring>>

Combine(t) ==
    /\ pc[t] = "combine"
    /\ Stays(t, "final")
    /\ open' = [open EXCEPT ![t] = FALSE]
    /\ UNCHANGED <<option, startup, abort, passes, pass, ring>>

\* The final barrier: main and all threads.
MainEnds ==
    /\ main = "final"
    /\ \A t \in Thread : pc[t] = "final"
    /\ main' = "done"
    /\ UNCHANGED <<option, made, count, sem, party, pc, failed, abort, open,
                   passes, pass, ring, met, qmet>>

-----------------------------------------------------------------------------

Runs(t) ==
    \/ InitEnds(t) \/ InitFails(t) \/ InitDies(t) \/ Counts(t) \/ ThreadReleased(t)
    \/ Start(t) \/ Io(t) \/ Ran(t) \/ Results(t) \/ Computed(t) \/ Compared(t)
    \/ Show(t) \/ Shown(t) \/ Settle(t) \/ Grow(t) \/ Reopen(t) \/ Again(t)
    \/ Left(t) \/ Total(t) \/ Average(t) \/ Averaged(t) \/ PreFinal(t) \/ Combine(t)

MainRuns ==
    MainCreates \/ Counts(Main) \/ MainReleased \/ MainChecks \/ MainEnds

Next == MainRuns \/ \E t \in Thread : Runs(t)

Spec == Init /\ [][Next]_vars

\* Every thread runs, and no I/O loop or initialisation lasts for ever.
FairSpec ==
    /\ Spec
    /\ WF_vars(MainRuns)
    /\ \A t \in Thread : WF_vars(Runs(t))

-----------------------------------------------------------------------------
(* Properties *)

\* While the first thread reads what all threads have measured, in a pass, for
\* the averages or for the combined results, no thread changes its own; at the
\* end all of them are complete (the assertion of xdd.c:1447).
ResultsQuiet ==
    \A u \in Thread \ {T0Q0} :
        CASE pc[T0Q0] = "show" -> pc[u] \in {"compared", "shown"}
          [] pc[T0Q0] = "average" -> pc[u] \in {"total", "averaged"}
          [] pc[T0Q0] = "combine" -> pc[u] \in {"prefinal", "final"}
          [] OTHER -> TRUE

\* While one thread does the I/O of a pass, no other is in another pass, though
\* each counts its passes itself and the run may be lengthened as it goes.
PassesInStep ==
    \A t, u \in Thread : pc[t] = "io" => pass[u] = pass[t]

\* No thread does I/O on a target it has closed or failed to open again.
IoOnOpenTarget == \A t \in Thread : pc[t] = "io" => open[t]

\* Once every thread has been initialised, the run ends: no thread is left at a
\* barrier by one that has gone through a different number of passes, met an
\* abort or seen the run time over.
RunEnds ==
    <>(\/ main \in {"done", "exit"}
       \/ \E t \in Thread : failed[t] # "no")

\* A thread that fails to start and says so stops xdd, if no thread before it
\* has used its serializer barrier (xdd.c:1607: "everything needs to stop").
FailureStopsRun ==
    \A t \in Thread :
        (\A u \in Thread : Order(u) < Order(t) => Slot(u) # Slot(t))
            => (failed[t] = "told" ~> main = "exit")

=============================================================================
