----------------------------- MODULE XddLockstep -----------------------------
(***************************************************************************)
(* Lockstep of two targets of xdd (option -lockstep): a master that asks a *)
(* slave for one task per interval of its own operations, and a slave that *)
(* stops after each task until it is asked again (xdd_io_loop).            *)
(*                                                                         *)
(* The two share a task counter and the flags ls_ms_state, under ls_mutex: *)
(* what a thread does while it holds the mutex is one step.  They meet at  *)
(* two barriers used in turn; by XddBarrier!Together neither leaves its    *)
(* r-th meeting before the other has entered as many, and that is how the  *)
(* barrier appears here.  LS_MASTER_WAITING is tested by the slave but set *)
(* nowhere, so the branches it guards are left out.                        *)
(*                                                                         *)
(* Intervals and tasks are counted in operations or in time; where they    *)
(* are times, whether one is over is a free choice.  An interval or a task *)
(* in bytes is one in operations, all but the last being of one size.      *)
(***************************************************************************)
EXTENDS Naturals

CONSTANTS
    MaxOps,     \* total_ops of both targets; an error or a time limit makes it fewer
    MaxValue,   \* the longest interval and task, in operations
    Passes      \* the passes of the run

ASSUME LockstepAssumption ==
    /\ MaxOps \in Nat \ {0}
    /\ MaxValue \in Nat \ {0}
    /\ Passes \in Nat \ {0}

VARIABLES
    option,     \* what the command line asks for
    waiting,    \* LS_SLAVE_WAITING
    finished,   \* LS_MASTER_FINISHED
    tasks,      \* ls_task_counter
    master,     \* the master's thread
    slave,      \* the slave's thread
    asked,      \* history: how often the slave has been asked for a task
    late        \* history: the slave's operations since the master finished

vars == <<option, waiting, finished, tasks, master, slave, asked, late>>

Options ==
    [interval : 1..MaxValue, intervalType : {"op", "time"},
     task : 1..MaxValue, taskType : {"op", "time"},
     startup : {"run", "wait"}, completion : {"complete", "stop"}]

\* A thread: where it is, the operation it is at (i), the base its interval or
\* task is counted from, the meetings it has entered and the pass.
Thread == [pc : {"loop", "meet", "io", "end", "lastmeet", "passed"},
           i : 0..MaxOps, base : 0..MaxOps, met : Nat, pass : 1..Passes]

\* "run" gives the slave a first task; "wait" raises the flag for a slave that
\* has not entered any meeting.
Init ==
    /\ option \in Options
    /\ waiting = (option.startup = "wait")
    /\ tasks = (IF option.startup = "run" THEN 1 ELSE 0)
    /\ finished = FALSE
    /\ master = [pc |-> "loop", i |-> 0, base |-> 0, met |-> 0, pass |-> 1]
    /\ slave = [pc |-> "loop", i |-> 0, base |-> 0, met |-> 0, pass |-> 1]
    /\ asked = tasks
    /\ late = 0

\* A thread that goes on to pc, or enters its next meeting there.
Going(t, pc) == [t EXCEPT !.pc = pc]
Entering(t, pc) == [Going(t, pc) EXCEPT !.met = @ + 1]
Done(t) == [Going(t, "loop") EXCEPT !.i = @ + 1]
Restarted(t) ==
    [pc |-> "loop", i |-> 0, base |-> 0, met |-> t.met, pass |-> t.pass + 1]

-----------------------------------------------------------------------------
(* The master *)

\* Mutant of Ask: the flag is not taken down.
AskKeepsFlag(m, here, next) ==
    /\ tasks' = tasks + 1
    /\ asked' = asked + 1
    /\ waiting' = waiting
    /\ master' = IF waiting THEN Entering(m, here) ELSE Going(m, next)

\* The slave is asked for one more task and, if its flag is up, kicked: the
\* master takes the flag down and enters the meeting it takes the slave to be at.
Ask(m, here, next) ==
    /\ tasks' = tasks + 1
    /\ asked' = asked + 1
    /\ waiting' = FALSE
    /\ master' = IF waiting THEN Entering(m, here) ELSE Going(m, next)

IntervalOver(over) ==
    option.intervalType = "op" =>
        over = (master.i >= option.interval + master.base)

\* Before each operation: nothing to do, or the interval is over.
MasterLoop ==
    /\ master.pc = "loop" /\ master.i < MaxOps
    /\ \E over \in BOOLEAN :
         /\ IntervalOver(over)
         /\ IF over THEN Ask([master EXCEPT !.base = master.i], "meet", "io")
                    ELSE /\ master' = Going(master, "io")
                         /\ UNCHANGED <<waiting, tasks, asked>>
    /\ UNCHANGED <<option, finished, slave, late>>

MasterMeets ==
    /\ master.pc \in {"meet", "lastmeet"}
    /\ slave.met >= master.met
    /\ master' = Going(master, IF master.pc = "meet" THEN "io" ELSE "passed")
    /\ UNCHANGED <<option, waiting, finished, tasks, slave, asked, late>>

\* The operation; an error or a time limit ends the loop after it.
MasterIo ==
    /\ master.pc = "io"
    /\ master' \in {Done(master), Going(master, "end")}
    /\ UNCHANGED <<option, waiting, finished, tasks, slave, asked, late>>

\* Mutant of MasterEnd: the slave is told, but not kicked.
MasterEndNoKick ==
    /\ \/ master.pc = "end"
       \/ master.pc = "loop" /\ master.i = MaxOps
    /\ finished' = TRUE
    /\ tasks' = tasks + 1
    /\ asked' = asked + 1
    /\ master' = Going(master, "passed")
    /\ UNCHANGED <<option, waiting, slave, late>>

\* The master's pass is over: it says so, and kicks the slave a last time.
MasterEnd ==
    /\ \/ master.pc = "end"
       \/ master.pc = "loop" /\ master.i = MaxOps
    /\ finished' = TRUE
    /\ Ask(master, "lastmeet", "passed")
    /\ UNCHANGED <<option, slave, late>>

-----------------------------------------------------------------------------
(* The slave *)

\* Mutant of TaskOver: a task is one operation longer.
TaskOverLate(over) ==
    option.taskType = "op" => over = (slave.i > option.task + slave.base)

TaskOver(over) ==
    option.taskType = "op" => over = (slave.i >= option.task + slave.base)

SlaveAtLoop == slave.pc = "loop" /\ slave.i < MaxOps

\* A task to do, and not over: straight to the operation.
SlaveRuns ==
    /\ SlaveAtLoop
    /\ tasks > 0 /\ TaskOver(FALSE)
    /\ slave' = Going(slave, "io")
    /\ UNCHANGED <<option, waiting, finished, tasks, master, asked, late>>

\* slave_wait: the slave has no task or is through with one, which it takes off
\* the counter.  s is what it is left with.
SlaveWaits(s) ==
    \/ /\ tasks = 0
       /\ s = slave
       /\ tasks' = tasks
    \/ /\ tasks > 0 /\ TaskOver(TRUE)
       /\ s = [slave EXCEPT !.base = slave.i]
       /\ tasks' = tasks - 1

Bases == {slave, [slave EXCEPT !.base = slave.i]}

\* While the master runs, a slave that has to wait enters the next meeting, even
\* when the master has already asked for another task.
SlaveMeets ==
    /\ SlaveAtLoop /\ ~finished
    /\ \E s \in Bases : SlaveWaits(s) /\ slave' = Entering(s, "meet")
    /\ waiting' = TRUE
    /\ UNCHANGED <<option, finished, master, asked, late>>

\* Kicked; the counter is not looked at again before the operation.
SlaveKicked ==
    /\ slave.pc = "meet"
    /\ master.met >= slave.met
    /\ slave' = Going(slave, "io")
    /\ UNCHANGED <<option, waiting, finished, tasks, master, asked, late>>

\* The master has finished, and the slave is to complete its operations.
SlaveCompletes ==
    /\ SlaveAtLoop /\ finished /\ option.completion = "complete"
    /\ \E s \in Bases : SlaveWaits(s) /\ slave' = Going(s, "io")
    /\ waiting' = FALSE
    /\ UNCHANGED <<option, finished, master, asked, late>>

\* The master has finished, and the slave is to stop: pass_ring, break.
SlaveStops ==
    /\ SlaveAtLoop /\ finished /\ option.completion = "stop"
    /\ \E s \in Bases : SlaveWaits(s) /\ slave' = Going(s, "end")
    /\ waiting' = FALSE
    /\ UNCHANGED <<option, finished, master, asked, late>>

SlaveIo ==
    /\ slave.pc = "io"
    /\ slave' \in {Done(slave), Going(slave, "end")}
    /\ late' = (IF finished THEN late + 1 ELSE late)
    /\ UNCHANGED <<option, waiting, finished, tasks, master, asked>>

\* The slave's pass is over: it takes its flag down.
SlaveEnd ==
    /\ \/ slave.pc = "end"
       \/ slave.pc = "loop" /\ slave.i = MaxOps
    /\ waiting' = FALSE
    /\ slave' = Going(slave, "passed")
    /\ UNCHANGED <<option, finished, tasks, master, asked, late>>

-----------------------------------------------------------------------------

\* All threads of a run meet before the next pass (thread_barrier).  Only the
\* threads' own indices and bases start anew: the counter and flags stay.
NextPass ==
    /\ master.pc = "passed" /\ slave.pc = "passed"
    /\ master.pass < Passes
    /\ master' = Restarted(master)
    /\ slave' = Restarted(slave)
    /\ late' = 0
    /\ UNCHANGED <<option, waiting, finished, tasks, asked>>

Master == MasterLoop \/ MasterMeets \/ MasterIo \/ MasterEnd
Slave == \/ SlaveRuns \/ SlaveMeets \/ SlaveKicked \/ SlaveCompletes
         \/ SlaveStops \/ SlaveIo \/ SlaveEnd

Next == Master \/ Slave \/ NextPass

Spec == Init /\ [][Next]_vars

\* Both threads run, and a thread whose meeting is complete leaves it.
FairSpec ==
    Spec /\ WF_vars(Master) /\ WF_vars(Slave) /\ WF_vars(NextPass)

-----------------------------------------------------------------------------
(* Properties *)

\* Type invariant.
TypeOK ==
    /\ option \in Options
    /\ waiting \in BOOLEAN /\ finished \in BOOLEAN
    /\ tasks \in Nat /\ asked \in Nat /\ late \in Nat
    /\ master \in Thread /\ slave \in Thread

InMeeting(t) == t.pc \in {"meet", "lastmeet"}

\* The master never blocks on the slave: it enters a meeting only when the slave
\* is there (xdd.h:714-719), if the slave was told to run at once.
MasterNeverBlocks ==
    option.startup = "run" /\ InMeeting(master) => slave.met >= master.met

\* A slave told to run does no operation it has not been asked for: while the
\* master runs, at most one task's worth for its first task and for each time the
\* master asked (parse.c:1020: what it does "before pausing").
WithinTasks ==
    (option.startup = "run" /\ option.taskType = "op" /\ ~finished) =>
        slave.i <= option.task * asked

\* A slave told to stop with its master does at most the task it is in, or the
\* one the last kick hands it (xdd.c:351: "we need to stop NOW").
StopsWithinTask ==
    (option.taskType = "op" /\ option.completion = "stop") => late <= option.task

\* The slave keeps to its tasks, while the master runs and afterwards.
TasksKept == WithinTasks /\ StopsWithinTask

Ended == /\ master.pc = "passed" /\ slave.pc = "passed"
         /\ master.pass = Passes

\* What becomes of a slave told to wait: its flag is up before it waits, and a
\* master that kicks it then is left in the meeting if the slave ends first.
MasterLeft ==
    option.startup = "wait" /\ InMeeting(master) /\ slave.pc = "passed"

\* The run ends; with "wait", unless the master is left alone in a meeting.
\* Nobody waits for a kick that nobody gives.
RunEnds == <>(Ended \/ MasterLeft)

=============================================================================
