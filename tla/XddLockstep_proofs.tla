------------------------- MODULE XddLockstep_proofs -------------------------
(***************************************************************************)
(* In a lockstep whose slave is told to run, the master never blocks.  The *)
(* invariant that carries the proof counts meetings: the slave has entered *)
(* one more than the master exactly while its flag is up, and then it is   *)
(* in the last of them.  The master enters a meeting only on that flag,    *)
(* and takes it down in the same critical section.                         *)
(*                                                                         *)
(* The slave keeps to its tasks, whatever the two intervals are, while the *)
(* master runs and after it has finished: see OnTask and Stopping below.   *)
(***************************************************************************)
EXTENDS XddLockstep, Integers, TLAPS

\* A thread that is in its loop has an operation left to do.
AtWork ==
    /\ master.pc \in {"meet", "io"} => master.i < MaxOps
    /\ slave.pc \in {"meet", "io"} => slave.i < MaxOps

InPass == slave.pass = master.pass

\* The flag and the meetings agree.
FlagTells ==
    option.startup = "run" =>
        /\ slave.met = master.met + (IF waiting THEN 1 ELSE 0)
        /\ waiting => slave.pc = "meet"

IInv == TypeOK /\ AtWork /\ InPass /\ FlagTells

-----------------------------------------------------------------------------
(* What the operators on threads return *)

LEMMA GoingType ==
  ASSUME NEW t \in Thread,
         NEW pc \in {"loop", "meet", "io", "end", "lastmeet", "passed"}
  PROVE  /\ Going(t, pc) \in Thread
         /\ Going(t, pc).pc = pc /\ Going(t, pc).i = t.i
         /\ Going(t, pc).base = t.base
         /\ Going(t, pc).met = t.met /\ Going(t, pc).pass = t.pass
BY DEF Going, Thread

LEMMA EnteringType ==
  ASSUME NEW t \in Thread,
         NEW pc \in {"loop", "meet", "io", "end", "lastmeet", "passed"}
  PROVE  /\ Entering(t, pc) \in Thread
         /\ Entering(t, pc).pc = pc /\ Entering(t, pc).i = t.i
         /\ Entering(t, pc).base = t.base
         /\ Entering(t, pc).met = t.met + 1 /\ Entering(t, pc).pass = t.pass
<1>1. Going(t, pc) \in Thread
  BY GoingType
<1> QED BY <1>1, GoingType DEF Entering, Thread

LEMMA DoneType ==
  ASSUME NEW t \in Thread, t.i < MaxOps
  PROVE  /\ Done(t) \in Thread
         /\ Done(t).pc = "loop" /\ Done(t).i = t.i + 1 /\ Done(t).base = t.base
         /\ Done(t).met = t.met /\ Done(t).pass = t.pass
<1>1. Going(t, "loop") \in Thread
  BY GoingType
<1>2. t.i + 1 \in 0..MaxOps
  BY LockstepAssumption DEF Thread
<1> QED BY <1>1, <1>2, GoingType DEF Done, Thread

LEMMA BaseType ==
  ASSUME NEW t \in Thread
  PROVE  LET s == [t EXCEPT !.base = t.i]
         IN  /\ s \in Thread
             /\ s.pc = t.pc /\ s.i = t.i /\ s.base = t.i
             /\ s.met = t.met /\ s.pass = t.pass
BY DEF Thread

-----------------------------------------------------------------------------

LEMMA InitInv == Init => IInv
<1> SUFFICES ASSUME Init PROVE IInv
  OBVIOUS
<1>1. option \in Options /\ waiting \in BOOLEAN /\ finished \in BOOLEAN
  BY DEF Init
<1>2. tasks \in Nat /\ asked \in Nat /\ late \in Nat
  BY DEF Init
<1>3. master \in Thread /\ slave \in Thread
  BY LockstepAssumption DEF Init, Thread
<1>4. TypeOK
  BY <1>1, <1>2, <1>3 DEF TypeOK
<1>5. AtWork /\ InPass
  BY DEF Init, AtWork, InPass
<1>6. option.startup = "run" => ~waiting
  BY DEF Init
<1>7. FlagTells
  BY <1>6 DEF Init, FlagTells
<1> QED BY <1>4, <1>5, <1>7 DEF IInv

\* Asking, from a master m that has all but its place, keeps the flag true.
LEMMA AskKeeps ==
  ASSUME IInv, NEW m \in Thread, m.met = master.met, m.pass = master.pass,
         NEW here \in {"meet", "lastmeet"}, NEW next \in {"io", "passed"},
         here = "meet" \/ next = "io" => m.i < MaxOps,
         Ask(m, here, next), finished' \in BOOLEAN, UNCHANGED <<option, slave, late>>
  PROVE  IInv'
<1>0. /\ option' \in Options /\ waiting' \in BOOLEAN /\ finished' \in BOOLEAN
      /\ tasks' \in Nat /\ asked' \in Nat /\ late' \in Nat /\ slave' \in Thread
  <2>1. tasks' = tasks + 1 /\ asked' = asked + 1 /\ waiting' = FALSE
    BY DEF Ask
  <2>2. tasks \in Nat /\ asked \in Nat
    BY DEF IInv, TypeOK
  <2>3. tasks' \in Nat /\ asked' \in Nat
    BY <2>1, <2>2
  <2> QED BY <2>1, <2>3 DEF IInv, TypeOK
<1>1. CASE waiting
  <2>1. master' = Entering(m, here)
    BY <1>1 DEF Ask
  <2>2. /\ master' \in Thread /\ master'.pc = here /\ master'.i = m.i
        /\ master'.met = m.met + 1 /\ master'.pass = m.pass
    BY <2>1, EnteringType
  <2>3. TypeOK'
    BY <1>0, <2>2 DEF TypeOK
  <2>4. AtWork' /\ InPass'
    BY <2>2 DEF IInv, AtWork, InPass
  <2>5. FlagTells'
    BY <1>1, <2>2 DEF IInv, FlagTells, Ask, TypeOK, Thread
  <2> QED BY <2>3, <2>4, <2>5 DEF IInv
<1>2. CASE ~waiting
  <2>1. master' = Going(m, next)
    BY <1>2 DEF Ask
  <2>2. /\ master' \in Thread /\ master'.pc = next /\ master'.i = m.i
        /\ master'.met = m.met /\ master'.pass = m.pass
    BY <2>1, GoingType
  <2>3. TypeOK'
    BY <1>0, <2>2 DEF TypeOK
  <2>4. AtWork' /\ InPass'
    BY <2>2 DEF IInv, AtWork, InPass
  <2>5. FlagTells'
    BY <1>2, <2>2 DEF IInv, FlagTells, Ask, TypeOK, Thread
  <2> QED BY <2>3, <2>4, <2>5 DEF IInv
<1> QED BY <1>1, <1>2

\* What a step that neither moves the flag nor enters a meeting has to show.
LEMMA NoMeeting ==
  ASSUME IInv, UNCHANGED <<option, waiting>>,
         TypeOK', AtWork', InPass',
         master'.met = master.met, slave'.met = slave.met,
         waiting => slave'.pc = "meet"
  PROVE  IInv'
BY DEF IInv, FlagTells

\* What a step has to show that takes down the flag of a slave outside a meeting.
LEMMA FlagDown ==
  ASSUME IInv, slave.pc # "meet", UNCHANGED <<option, master>>, waiting' = FALSE,
         TypeOK', AtWork', InPass', slave'.met = slave.met
  PROVE  IInv'
BY DEF IInv, FlagTells

-----------------------------------------------------------------------------

LEMMA MasterStep == ASSUME IInv, Master PROVE IInv'
<1>1. CASE MasterLoop
  <2>1. PICK over \in BOOLEAN :
          IF over THEN Ask([master EXCEPT !.base = master.i], "meet", "io")
                  ELSE /\ master' = Going(master, "io")
                       /\ UNCHANGED <<waiting, tasks, asked>>
    BY <1>1 DEF MasterLoop
  <2>2. /\ master \in Thread /\ master.i < MaxOps
        /\ finished' \in BOOLEAN /\ UNCHANGED <<option, finished, slave, late>>
    BY <1>1 DEF MasterLoop, IInv, TypeOK
  <2>3. CASE over
    <3> DEFINE m == [master EXCEPT !.base = master.i]
    <3>1. /\ m \in Thread /\ m.i = master.i
          /\ m.met = master.met /\ m.pass = master.pass
      BY <2>2, BaseType
    <3>2. Ask(m, "meet", "io")
      BY <2>1, <2>3
    <3> HIDE DEF m
    <3> QED BY <2>2, <3>1, <3>2, AskKeeps
  <2>4. CASE ~over
    <3>1. master' = Going(master, "io") /\ UNCHANGED <<waiting, tasks, asked>>
      BY <2>1, <2>4
    <3>2. /\ master' \in Thread /\ master'.i = master.i
          /\ master'.met = master.met /\ master'.pass = master.pass
      BY <2>2, <3>1, GoingType
    <3>3. TypeOK' /\ AtWork' /\ InPass'
      BY <2>2, <3>1, <3>2 DEF IInv, TypeOK, AtWork, InPass
    <3> QED BY <2>2, <3>1, <3>2, <3>3, NoMeeting DEF IInv, FlagTells
  <2> QED BY <2>3, <2>4
<1>2. CASE MasterMeets
  <2>1. /\ master' \in Thread /\ master'.i = master.i
        /\ master'.met = master.met /\ master'.pass = master.pass
        /\ master'.pc = "io" => master.pc = "meet"
        /\ master'.pc \in {"io", "passed"}
    BY <1>2, GoingType DEF MasterMeets, IInv, TypeOK
  <2>2. TypeOK' /\ AtWork' /\ InPass'
    BY <1>2, <2>1 DEF MasterMeets, IInv, TypeOK, AtWork, InPass
  <2> QED BY <1>2, <2>1, <2>2 DEF MasterMeets, IInv, FlagTells
<1>3. CASE MasterIo
  <2>1. /\ master' \in Thread
        /\ master'.met = master.met /\ master'.pass = master.pass
        /\ master'.pc \in {"loop", "end"}
    BY <1>3, GoingType, DoneType DEF MasterIo, IInv, TypeOK, AtWork
  <2>2. TypeOK' /\ AtWork' /\ InPass'
    BY <1>3, <2>1 DEF MasterIo, IInv, TypeOK, AtWork, InPass
  <2> QED BY <1>3, <2>1, <2>2 DEF MasterIo, IInv, FlagTells
<1>4. CASE MasterEnd
  <2>1. master \in Thread /\ finished' \in BOOLEAN
    BY <1>4 DEF MasterEnd, IInv, TypeOK
  <2>2. Ask(master, "lastmeet", "passed") /\ UNCHANGED <<option, slave, late>>
    BY <1>4 DEF MasterEnd
  <2> QED BY <2>1, <2>2, AskKeeps
<1> QED BY <1>1, <1>2, <1>3, <1>4 DEF Master

\* A slave that waits keeps all but its base, and the counter a number.
LEMMA WaitsType ==
  ASSUME IInv, NEW s \in Bases, SlaveWaits(s)
  PROVE  /\ s \in Thread /\ tasks' \in Nat
         /\ s.pc = slave.pc /\ s.i = slave.i
         /\ s.met = slave.met /\ s.pass = slave.pass
<1>1. slave \in Thread /\ tasks \in Nat
  BY DEF IInv, TypeOK
<1>2. tasks' \in Nat
  <2>1. tasks' = tasks \/ (tasks > 0 /\ tasks' = tasks - 1)
    BY Zenon DEF SlaveWaits
  <2> QED BY <1>1, <2>1
<1>3. CASE s = slave
  BY <1>1, <1>2, <1>3
<1>4. CASE s = [slave EXCEPT !.base = slave.i]
  BY <1>1, <1>2, <1>4, BaseType
<1> QED BY <1>3, <1>4 DEF Bases

LEMMA SlaveStep == ASSUME IInv, Slave PROVE IInv'
<1>0. slave \in Thread
  BY DEF IInv, TypeOK
<1>1. CASE SlaveRuns
  <2>1. /\ slave' \in Thread /\ slave'.i = slave.i /\ slave.i < MaxOps
        /\ slave'.met = slave.met /\ slave'.pass = slave.pass
        /\ slave.pc = "loop"
    BY <1>0, <1>1, GoingType DEF SlaveRuns, SlaveAtLoop
  <2>2. TypeOK' /\ AtWork' /\ InPass'
    BY <1>1, <2>1 DEF SlaveRuns, IInv, TypeOK, AtWork, InPass
  <2> QED BY <1>1, <2>1, <2>2 DEF SlaveRuns, IInv, FlagTells
<1>2. CASE SlaveMeets
  <2>1. PICK s \in Bases : SlaveWaits(s) /\ slave' = Entering(s, "meet")
    BY <1>2 DEF SlaveMeets
  <2>2. /\ s \in Thread /\ tasks' \in Nat /\ s.i = slave.i
        /\ s.met = slave.met /\ s.pass = slave.pass
    BY <2>1, WaitsType
  <2>3. /\ slave' \in Thread /\ slave'.pc = "meet" /\ slave'.i = slave.i
        /\ slave'.met = slave.met + 1 /\ slave'.pass = slave.pass
    BY <2>1, <2>2, EnteringType
  <2>4. TypeOK' /\ AtWork' /\ InPass'
    BY <1>2, <2>2, <2>3
    DEF SlaveMeets, SlaveAtLoop, IInv, TypeOK, AtWork, InPass
  <2>5. FlagTells'
    BY <1>2, <2>3 DEF SlaveMeets, SlaveAtLoop, IInv, FlagTells, TypeOK, Thread
  <2> QED BY <2>4, <2>5 DEF IInv
<1>3. CASE SlaveKicked
  <2>1. /\ slave' \in Thread /\ slave'.i = slave.i
        /\ slave'.met = slave.met /\ slave'.pass = slave.pass
        /\ slave.pc = "meet" /\ master.met >= slave.met
    BY <1>0, <1>3, GoingType DEF SlaveKicked
  <2>2. TypeOK' /\ AtWork' /\ InPass'
    BY <1>3, <2>1 DEF SlaveKicked, IInv, TypeOK, AtWork, InPass
  <2>3. FlagTells'
    BY <1>3, <2>1 DEF SlaveKicked, IInv, FlagTells, TypeOK, Thread
  <2> QED BY <2>2, <2>3 DEF IInv
<1>4. CASE SlaveCompletes
  <2>1. PICK s \in Bases : SlaveWaits(s) /\ slave' = Going(s, "io")
    BY <1>4 DEF SlaveCompletes
  <2>2. /\ s \in Thread /\ tasks' \in Nat /\ s.i = slave.i
        /\ s.met = slave.met /\ s.pass = slave.pass
    BY <2>1, WaitsType
  <2>3. /\ slave' \in Thread /\ slave'.i = slave.i
        /\ slave'.met = slave.met /\ slave'.pass = slave.pass
    BY <2>1, <2>2, GoingType
  <2>4. TypeOK' /\ AtWork' /\ InPass'
    BY <1>4, <2>2, <2>3
    DEF SlaveCompletes, SlaveAtLoop, IInv, TypeOK, AtWork, InPass
  <2> QED BY <1>4, <2>3, <2>4, FlagDown DEF SlaveCompletes, SlaveAtLoop
<1>5. CASE SlaveStops
  <2>1. PICK s \in Bases : SlaveWaits(s) /\ slave' = Going(s, "end")
    BY <1>5 DEF SlaveStops
  <2>2. /\ s \in Thread /\ tasks' \in Nat
        /\ s.met = slave.met /\ s.pass = slave.pass
    BY <2>1, WaitsType
  <2>3. /\ slave' \in Thread /\ slave'.pc = "end"
        /\ slave'.met = slave.met /\ slave'.pass = slave.pass
    BY <2>1, <2>2, GoingType
  <2>4. TypeOK' /\ AtWork' /\ InPass'
    BY <1>5, <2>2, <2>3 DEF SlaveStops, IInv, TypeOK, AtWork, InPass
  <2> QED BY <1>5, <2>3, <2>4, FlagDown DEF SlaveStops, SlaveAtLoop
<1>6. CASE SlaveIo
  <2>1. /\ slave' \in Thread /\ slave'.pc \in {"loop", "end"}
        /\ slave'.met = slave.met /\ slave'.pass = slave.pass
    BY <1>0, <1>6, GoingType, DoneType DEF SlaveIo, IInv, AtWork
  <2>2. TypeOK' /\ AtWork' /\ InPass'
    BY <1>6, <2>1 DEF SlaveIo, IInv, TypeOK, AtWork, InPass
  <2> QED BY <1>6, <2>1, <2>2 DEF SlaveIo, IInv, FlagTells
<1>7. CASE SlaveEnd
  <2>1. /\ slave' \in Thread /\ slave'.pc = "passed" /\ slave.pc # "meet"
        /\ slave'.met = slave.met /\ slave'.pass = slave.pass
    BY <1>0, <1>7, GoingType DEF SlaveEnd
  <2>2. TypeOK' /\ AtWork' /\ InPass'
    BY <1>7, <2>1 DEF SlaveEnd, IInv, TypeOK, AtWork, InPass
  <2> QED BY <1>7, <2>1, <2>2, FlagDown DEF SlaveEnd
<1> QED BY <1>1, <1>2, <1>3, <1>4, <1>5, <1>6, <1>7 DEF Slave

LEMMA NextPassStep == ASSUME IInv, NextPass PROVE IInv'
<1>1. master \in Thread /\ slave \in Thread /\ slave.pass = master.pass
  BY DEF IInv, TypeOK, InPass
<1>2. master.pass + 1 \in 1..Passes
  BY <1>1, LockstepAssumption DEF NextPass, Thread
<1>3. /\ master' \in Thread /\ master'.pc = "loop" /\ master'.met = master.met
      /\ slave' \in Thread /\ slave'.pc = "loop" /\ slave'.met = slave.met
      /\ slave'.pass = master'.pass
  BY <1>1, <1>2, LockstepAssumption DEF NextPass, Restarted, Thread
<1>4. TypeOK' /\ AtWork' /\ InPass'
  BY <1>3 DEF NextPass, IInv, TypeOK, AtWork, InPass
<1> QED BY <1>3, <1>4 DEF NextPass, IInv, FlagTells

THEOREM Invariance == Spec => []IInv
<1>1. IInv /\ [Next]_vars => IInv'
  <2> SUFFICES ASSUME IInv, [Next]_vars PROVE IInv'
    OBVIOUS
  <2>1. CASE UNCHANGED vars
    BY <2>1 DEF vars, IInv, TypeOK, AtWork, InPass, FlagTells
  <2>2. CASE Next
    BY <2>2, MasterStep, SlaveStep, NextPassStep DEF Next
  <2> QED BY <2>1, <2>2
<1> QED BY <1>1, InitInv, PTL DEF Spec

\* The counter and the flags keep their types: no task is ever taken off an
\* empty counter.
THEOREM TypeCorrect == Spec => []TypeOK
<1>1. IInv => TypeOK
  BY DEF IInv
<1> QED BY <1>1, Invariance, PTL

\* For every interval, task and number of operations, a master whose slave was
\* told to run finds it at each meeting it enters and goes on at once: the
\* barrier in the middle of its I/O (xdd.c:272, 789) costs it no waiting.
THEOREM NeverBlocks == Spec => []MasterNeverBlocks
<1>1. IInv => MasterNeverBlocks
  BY DEF IInv, TypeOK, Thread, FlagTells, MasterNeverBlocks
<1> QED BY <1>1, Invariance, PTL

-----------------------------------------------------------------------------
(* The slave keeps to its tasks.  While the master runs, the tasks that have *)
(* been taken off the counter pay for the base of the current one, and the   *)
(* current one is still on the counter unless the slave waits for it.  Once  *)
(* the master has finished, what the slave does counts towards the task it   *)
(* is in, and it goes into no other.                                         *)

\* A master that is through with its pass has said so.
MasterSays == master.pc \in {"lastmeet", "passed"} => finished

\* The operations that the tasks taken off the counter stand for.
Paid == option.task * (asked - tasks)

OnTask ==
    (option.startup = "run" /\ option.taskType = "op" /\ ~finished) =>
        /\ tasks > 0 \/ (slave.pc = "meet" /\ waiting)
        /\ tasks <= asked
        /\ slave.base <= Paid
        /\ slave.i <= slave.base + option.task
        /\ slave.pc = "io" => slave.i < slave.base + option.task
        /\ slave.pc = "meet" => slave.i = slave.base

Stopping ==
    (option.taskType = "op" /\ option.completion = "stop") =>
        /\ late <= option.task
        /\ slave.base <= slave.i
        /\ slave.pc \in {"loop", "io"} => slave.base + late <= slave.i
        /\ slave.pc = "io" => late < option.task
        /\ slave.pc = "meet" \/ ~finished => late = 0

TaskInv == MasterSays /\ OnTask /\ Stopping

\* The numbers of a state.
LEMMA Numbers ==
  ASSUME IInv
  PROVE  /\ tasks \in Nat /\ asked \in Nat /\ late \in Nat
         /\ option.task \in Nat /\ option.task > 0
         /\ slave.i \in Nat /\ slave.base \in Nat /\ slave.met \in Nat
         /\ master.met \in Nat /\ Paid \in Int
<1>1. /\ tasks \in Nat /\ asked \in Nat /\ late \in Nat
      /\ option \in Options /\ slave \in Thread /\ master \in Thread
  BY DEF IInv, TypeOK
<1>2. option.task \in Nat /\ option.task > 0
  BY <1>1, LockstepAssumption DEF Options
<1>3. /\ slave.i \in Nat /\ slave.base \in Nat /\ slave.met \in Nat
      /\ master.met \in Nat
  BY <1>1, LockstepAssumption DEF Thread
<1>4. asked - tasks \in Int
  BY <1>1
<1>5. Paid \in Int
  BY <1>2, <1>4 DEF Paid
<1> QED BY <1>1, <1>2, <1>3, <1>5

\* A task that is asked for is paid later, one that is over is paid now.
LEMMA Pays ==
  ASSUME IInv, UNCHANGED option
  PROVE  /\ tasks' = tasks /\ asked' = asked => Paid' = Paid
         /\ tasks' = tasks + 1 /\ asked' = asked + 1 => Paid' = Paid
         /\ tasks' = tasks - 1 /\ asked' = asked => Paid' = Paid + option.task
<1>1. tasks \in Nat /\ asked \in Nat /\ option.task \in Nat
  BY Numbers
<1>2. CASE tasks' = tasks /\ asked' = asked
  BY <1>1, <1>2 DEF Paid
<1>3. CASE tasks' = tasks + 1 /\ asked' = asked + 1
  <2>1. asked' - tasks' = asked - tasks
    BY <1>1, <1>3
  <2> QED BY <1>1, <1>3, <2>1 DEF Paid
<1>4. CASE tasks' = tasks - 1 /\ asked' = asked
  <2>1. asked' - tasks' = (asked - tasks) + 1 /\ asked - tasks \in Int
    BY <1>1, <1>4
  <2>2. option.task * ((asked - tasks) + 1) = option.task * (asked - tasks) + option.task
    BY <1>1, <2>1
  <2>3. Paid' = option.task * ((asked - tasks) + 1)
    BY <1>4, <2>1 DEF Paid
  <2> QED BY <1>1, <1>4, <2>2, <2>3 DEF Paid
<1> QED BY <1>1, <1>2, <1>3, <1>4

LEMMA TaskInit == Init => TaskInv
<1> SUFFICES ASSUME Init PROVE TaskInv
  OBVIOUS
<1>1. option.task \in Nat /\ option.task > 0
  BY LockstepAssumption DEF Init, Options
<1>2. /\ slave.pc = "loop" /\ slave.i = 0 /\ slave.base = 0 /\ master.pc = "loop"
      /\ late = 0 /\ asked = tasks /\ tasks \in Nat
      /\ option.startup = "run" => tasks = 1
  BY DEF Init
<1>3. Paid = 0
  BY <1>1, <1>2 DEF Paid
<1>4. MasterSays
  BY <1>2 DEF MasterSays
<1>5. OnTask
  BY <1>1, <1>2, <1>3 DEF OnTask
<1>6. Stopping
  BY <1>1, <1>2 DEF Stopping
<1> QED BY <1>4, <1>5, <1>6 DEF TaskInv

\* The master disturbs neither: a task it asks for is not yet paid for, and a
\* flag it takes down has a task behind it.
LEMMA TaskMaster ==
  ASSUME IInv, IInv', TaskInv, Master
  PROVE  TaskInv'
<1>0. /\ master \in Thread /\ UNCHANGED <<option, slave, late>>
      /\ tasks \in Nat /\ asked \in Nat
  BY DEF IInv, TypeOK, Master, MasterLoop, MasterMeets, MasterIo, MasterEnd
<1>1. /\ finished' = finished \/ finished'
      /\ \/ UNCHANGED <<tasks, asked, waiting>>
         \/ tasks' = tasks + 1 /\ asked' = asked + 1
  BY DEF Master, MasterLoop, MasterMeets, MasterIo, MasterEnd, Ask
<1>2. MasterSays'
  <2>1. CASE MasterLoop
    <3>1. [master EXCEPT !.base = master.i] \in Thread
      BY <1>0, BaseType
    <3>2. master'.pc \in {"meet", "io"}
      BY <1>0, <2>1, <3>1, GoingType, EnteringType DEF MasterLoop, Ask
    <3> QED BY <3>2 DEF MasterSays
  <2>2. CASE MasterMeets
    BY <1>0, <2>2, GoingType DEF MasterMeets, MasterSays, TaskInv
  <2>3. CASE MasterIo
    <3>1. master.i < MaxOps
      BY <2>3 DEF MasterIo, IInv, AtWork
    <3>2. master'.pc \in {"loop", "end"}
      BY <1>0, <2>3, <3>1, GoingType, DoneType DEF MasterIo
    <3> QED BY <3>2 DEF MasterSays
  <2>4. CASE MasterEnd
    BY <2>4 DEF MasterEnd, MasterSays
  <2> QED BY <2>1, <2>2, <2>3, <2>4 DEF Master
<1>3. Paid' = Paid
  BY <1>0, <1>1, Pays
<1>4. OnTask'
  BY <1>0, <1>1, <1>3, Numbers DEF OnTask, TaskInv
<1>5. Stopping'
  BY <1>0, <1>1 DEF Stopping, TaskInv
<1> QED BY <1>2, <1>4, <1>5 DEF TaskInv

\* What a slave that waits is left with: the next task starts where it stands.
LEMMA WaitsTask ==
  ASSUME IInv, TaskInv, NEW s \in Bases, SlaveWaits(s), SlaveAtLoop,
         UNCHANGED <<option, asked>>
  PROVE  /\ s \in Thread /\ s.i = slave.i
         /\ s.base = slave.base \/ s.base = slave.i
         /\ (option.startup = "run" /\ option.taskType = "op" /\ ~finished) =>
                /\ s.base = s.i /\ tasks' \in Nat /\ tasks' <= asked'
                /\ s.base <= Paid'
<1>0. slave \in Thread
  BY DEF IInv, TypeOK
<1>1. s \in Thread /\ s.i = slave.i
  BY WaitsType
<1>2. CASE s = slave /\ tasks = 0
  <2>1. ~(option.startup = "run" /\ option.taskType = "op" /\ ~finished)
    BY <1>2, Numbers DEF TaskInv, OnTask, SlaveAtLoop
  <2> QED BY <1>1, <1>2, <2>1
<1>3. CASE s = [slave EXCEPT !.base = slave.i] /\ tasks > 0 /\ tasks' = tasks - 1
                                             /\ TaskOver(TRUE)
  <2>1. s.base = slave.i
    BY <1>0, <1>3, BaseType
  <2>2. ASSUME option.startup = "run", option.taskType = "op", ~finished
        PROVE  tasks' \in Nat /\ tasks' <= asked' /\ s.base <= Paid'
    <3>1. Paid' = Paid + option.task
      BY <1>3, Pays
    <3>2. slave.base <= Paid /\ slave.i <= slave.base + option.task /\ tasks <= asked
      BY <2>2, Zenon DEF TaskInv, OnTask
    <3> QED BY <1>3, <2>1, <3>1, <3>2, Numbers
  <2> QED BY <1>1, <2>1, <2>2
<1> QED BY <1>2, <1>3 DEF SlaveWaits

LEMMA TaskSlave ==
  ASSUME IInv, IInv', TaskInv, Slave
  PROVE  TaskInv'
<1>0. slave \in Thread /\ UNCHANGED <<option, master, asked, finished>>
  BY DEF IInv, TypeOK, Slave, SlaveRuns, SlaveMeets, SlaveKicked,
         SlaveCompletes, SlaveStops, SlaveIo, SlaveEnd
<1>1. MasterSays'
  BY <1>0 DEF TaskInv, MasterSays
<1>2. CASE SlaveRuns
  <2>1. /\ slave.pc = "loop" /\ slave'.pc = "io" /\ slave'.i = slave.i
        /\ slave'.base = slave.base /\ tasks > 0 /\ UNCHANGED <<tasks, late>>
    BY <1>0, <1>2, GoingType DEF SlaveRuns, SlaveAtLoop
  <2>2. option.taskType = "op" => slave.i < slave.base + option.task
    <3>1. option.taskType = "op" => ~(slave.i >= option.task + slave.base)
      BY <1>2 DEF SlaveRuns, TaskOver
    <3> QED BY <3>1, Numbers
  <2>3. Paid' = Paid
    BY <1>0, <2>1, Pays
  <2>4. OnTask'
    BY <1>0, <2>1, <2>2, <2>3 DEF TaskInv, OnTask
  <2>5. Stopping'
    BY <1>0, <2>1, <2>2, Numbers DEF TaskInv, Stopping
  <2> QED BY <1>1, <2>4, <2>5 DEF TaskInv
<1>3. CASE SlaveMeets
  <2>1. PICK s \in Bases : SlaveWaits(s) /\ slave' = Entering(s, "meet")
    BY <1>3 DEF SlaveMeets
  <2>2. waiting' = TRUE /\ UNCHANGED late /\ ~finished /\ SlaveAtLoop
    BY <1>3 DEF SlaveMeets
  <2>3. /\ s \in Thread /\ s.i = slave.i
        /\ s.base = slave.base \/ s.base = slave.i
        /\ (option.startup = "run" /\ option.taskType = "op" /\ ~finished) =>
               /\ s.base = s.i /\ tasks' \in Nat /\ tasks' <= asked'
               /\ s.base <= Paid'
    BY <1>0, <2>1, <2>2, WaitsTask
  <2>4. slave'.pc = "meet" /\ slave'.i = s.i /\ slave'.base = s.base
    BY <2>1, <2>3, EnteringType
  <2>5. OnTask'
    BY <1>0, <2>2, <2>3, <2>4, Numbers DEF OnTask
  <2>6. Stopping'
    BY <1>0, <2>2, <2>3, <2>4, Numbers DEF TaskInv, Stopping
  <2> QED BY <1>1, <2>5, <2>6 DEF TaskInv
<1>4. CASE SlaveKicked
  <2>1. /\ slave.pc = "meet" /\ slave'.pc = "io" /\ slave'.i = slave.i
        /\ slave'.base = slave.base /\ UNCHANGED <<tasks, late, waiting>>
    BY <1>0, <1>4, GoingType DEF SlaveKicked
  <2>2. Paid' = Paid
    BY <1>0, <2>1, Pays
  <2>3. option.startup = "run" => ~waiting
    BY <1>4, Numbers DEF SlaveKicked, IInv, FlagTells
  <2>4. OnTask'
    BY <1>0, <2>1, <2>2, <2>3, Numbers DEF TaskInv, OnTask
  <2>5. Stopping'
    BY <1>0, <2>1, Numbers DEF TaskInv, Stopping
  <2> QED BY <1>1, <2>4, <2>5 DEF TaskInv
<1>5. CASE SlaveCompletes
  <2>1. finished /\ option.completion = "complete"
    BY <1>5 DEF SlaveCompletes
  <2> QED BY <1>0, <1>1, <2>1 DEF TaskInv, OnTask, Stopping
<1>6. CASE SlaveStops
  <2>1. PICK s \in Bases : SlaveWaits(s) /\ slave' = Going(s, "end")
    BY <1>6 DEF SlaveStops
  <2>2. finished /\ UNCHANGED late /\ SlaveAtLoop
    BY <1>6 DEF SlaveStops
  <2>3. s \in Thread /\ s.i = slave.i /\ (s.base = slave.base \/ s.base = slave.i)
    BY <1>0, <2>1, <2>2, WaitsTask
  <2>4. slave'.pc = "end" /\ slave'.i = s.i /\ slave'.base = s.base
    BY <2>1, <2>3, GoingType
  <2>5. OnTask'
    BY <1>0, <2>2 DEF OnTask
  <2>6. Stopping'
    BY <1>0, <2>2, <2>3, <2>4, Numbers DEF TaskInv, Stopping
  <2> QED BY <1>1, <2>5, <2>6 DEF TaskInv
<1>7. CASE SlaveIo
  <2>1. /\ slave.pc = "io" /\ slave'.base = slave.base
        /\ \/ slave'.pc = "loop" /\ slave'.i = slave.i + 1
           \/ slave'.pc = "end" /\ slave'.i = slave.i
    BY <1>0, <1>7, GoingType, DoneType DEF SlaveIo, IInv, AtWork
  <2>2. /\ UNCHANGED <<tasks, waiting>>
        /\ late' = IF finished THEN late + 1 ELSE late
    BY <1>7 DEF SlaveIo
  <2>3. Paid' = Paid
    BY <1>0, <2>2, Pays
  <2>4. OnTask'
    BY <1>0, <2>1, <2>2, <2>3, Numbers DEF TaskInv, OnTask
  <2>5. Stopping'
    BY <1>0, <2>1, <2>2, Numbers DEF TaskInv, Stopping
  <2> QED BY <1>1, <2>4, <2>5 DEF TaskInv
<1>8. CASE SlaveEnd
  <2>1. /\ slave.pc \in {"loop", "end"} /\ slave'.pc = "passed"
        /\ slave'.i = slave.i /\ slave'.base = slave.base
        /\ UNCHANGED <<tasks, late>>
    BY <1>0, <1>8, GoingType DEF SlaveEnd
  <2>2. Paid' = Paid
    BY <1>0, <2>1, Pays
  <2>3. OnTask'
    BY <1>0, <2>1, <2>2 DEF TaskInv, OnTask
  <2>4. Stopping'
    BY <1>0, <2>1, Numbers DEF TaskInv, Stopping
  <2> QED BY <1>1, <2>3, <2>4 DEF TaskInv
<1> QED BY <1>2, <1>3, <1>4, <1>5, <1>6, <1>7, <1>8 DEF Slave

\* A pass begins only after the master has finished one: the counter is not
\* looked at again, and the slave's late operations are counted from 0.
LEMMA TaskNextPass ==
  ASSUME IInv, IInv', TaskInv, NextPass
  PROVE  TaskInv'
<1>1. /\ finished /\ UNCHANGED <<option, finished>> /\ late' = 0
      /\ slave'.pc = "loop" /\ slave'.i = 0 /\ slave'.base = 0
      /\ master'.pc = "loop"
  BY DEF NextPass, TaskInv, MasterSays, Restarted
<1> QED BY <1>1, Numbers DEF TaskInv, MasterSays, OnTask, Stopping

THEOREM TaskInvariance == Spec => []TaskInv
<1>1. IInv /\ IInv' /\ TaskInv /\ [Next]_vars => TaskInv'
  <2> SUFFICES ASSUME IInv, IInv', TaskInv, [Next]_vars PROVE TaskInv'
    OBVIOUS
  <2>1. CASE UNCHANGED vars
    BY <2>1 DEF vars, TaskInv, MasterSays, OnTask, Paid, Stopping
  <2>2. CASE Next
    BY <2>2, TaskMaster, TaskSlave, TaskNextPass DEF Next
  <2> QED BY <2>1, <2>2
<1> QED BY <1>1, TaskInit, Invariance, PTL DEF Spec

\* What is paid for and the task in hand are within what was asked for.
LEMMA PaidWithin ==
  ASSUME IInv, tasks <= asked
  PROVE  /\ Paid <= option.task * asked
         /\ tasks > 0 => Paid + option.task <= option.task * asked
<1> DEFINE n == asked - tasks
<1>1. /\ tasks \in Nat /\ asked \in Nat /\ option.task \in Nat
      /\ n \in Nat /\ asked = n + tasks
  BY Numbers
<1>2. option.task * asked = option.task * n + option.task * tasks
  <2>1. \A t, a, b \in Nat : t * (a + b) = t * a + t * b
    OBVIOUS
  <2> HIDE DEF n
  <2> QED BY <1>1, <2>1
<1>3. option.task * tasks \in Nat /\ (tasks > 0 => option.task <= option.task * tasks)
  <2>1. \A t, a \in Nat : t * a \in Nat /\ (a > 0 => t <= t * a)
    OBVIOUS
  <2> QED BY <1>1, <2>1
<1>4. Paid = option.task * n /\ Paid \in Int
  BY Numbers DEF Paid
<1> HIDE DEF n
<1> QED BY <1>1, <1>2, <1>3, <1>4

\* For every interval, task and number of operations and passes, a slave told
\* to run does no operation that it has not been asked for while its master
\* runs, and one told to stop does no more than a task's worth afterwards
\* (the loop of xdd_io_loop, xdd.c:272-360, and its use of ls_task_counter).
THEOREM KeepsToTasks == Spec => []TasksKept
<1>1. IInv /\ TaskInv => TasksKept
  <2> SUFFICES ASSUME IInv, TaskInv PROVE TasksKept
    OBVIOUS
  <2>1. StopsWithinTask
    BY DEF TaskInv, Stopping, StopsWithinTask
  <2>2. ASSUME option.startup = "run", option.taskType = "op", ~finished
        PROVE  slave.i <= option.task * asked
    <3>1. /\ tasks > 0 \/ (slave.pc = "meet" /\ waiting)
          /\ tasks <= asked
          /\ slave.base <= Paid
          /\ slave.i <= slave.base + option.task
          /\ slave.pc = "meet" => slave.i = slave.base
      BY <2>2, Zenon DEF TaskInv, OnTask
    <3>2. option.task * asked \in Int
      BY Numbers
    <3>3. CASE tasks > 0
      BY <3>1, <3>2, <3>3, PaidWithin, Numbers
    <3>4. CASE slave.pc = "meet" /\ waiting
      BY <3>1, <3>2, <3>4, PaidWithin, Numbers
    <3> QED BY <3>1, <3>3, <3>4
  <2> QED BY <2>1, <2>2 DEF TasksKept, WithinTasks
<1> QED BY <1>1, Invariance, TaskInvariance, PTL

=============================================================================
