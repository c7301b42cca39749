# A verification of the Isolated Device Driver system (IDDR)

IDDR runs a block device driver in a Xen domain of its own. The application
domain loads a *front-end driver* that looks like a disk; it passes the requests
of the block layer through a ring of shared memory to the *back-end driver* in
the driver domain, which runs them on the real device and answers through the
same ring. To save interrupts both sides poll: each has a thread that spins on
the ring, marks itself `SLEEPING` on the shared page after a while, and is
interrupted by the other side only when it is so marked. The repository also
carries the tools its authors measured with, `xdd` and `sysstat`, as source.

This directory models the two drivers, and the parts of the tools that run
concurrently or compute something that can go wrong, in TLA+; it checks small
instances with TLC and proves theorems, for all values of the constants, with
TLAPS. Paths and line numbers refer to `src/`; `xdd.c` and its neighbours are in
`scripts/toolkit/xdd65.013007/`, `sadc.c`, `sar.c`, `iostat.c` and
their neighbours in `scripts/toolkit/sysstat-8.1.5/`.

## 1. Inventory

| Component | State | Operations | What is hard | What makes it correct |
|---|---|---|---|---|
| Ring (`kernel/ring.h`) | `req_prod`, `rsp_prod`, slots, `req_status`, `rsp_status` on the page; private indices on each side | push, get, full, unconsumed, final check; the size `__RING_SIZE` | indices are never reduced and wrap at 2^32; a response is written over an old request; no locks | the indices never overtake each other; a published message stays until it is consumed; the size is a power of two |
| Front end, request path (`myrepo/frontend/frontend.c`) | request queue, its stopped flag, shadow table and the free list threaded through it | `do_idd_request`, `idd_queue_request`, `flush_requests`, `add_id_to_freelist`, `get_id_from_freelist` | polls for responses under the queue lock; full ring and grant exhaustion stop the queue | an id per free slot; free list intact; every request ends once; the lock is released |
| Front end, response thread and interrupt | `waiting_rsps`, wait queue, `rsp_status` | `idd_read_response`, `kick_pending_request_queues`, `irq_ring_interrupt` | races with the request path, the back end and the interrupt | never asleep on a response nobody announces |
| Back end, request thread and interrupt (`myrepo/backend/backend.c`) | `waiting_reqs`, `req_status`, `req_cons` | `idd_request_schedule`, `do_block_io_op`, `dispatch_rw_block_io`, `irq_ring_interrupt` | the same sleep protocol with no lock; three ways for a dispatch to fail | never asleep on a request; every request is answered |
| Back end, completion and pool | 64 `pending_req`, their `pendcnt`, grant handles, `pending_free` | `end_block_io_op`, `make_response`, `alloc_req`, `free_req` | runs in any context, in any order, several at once | answered by the last bio only, after the pages are unmapped; pool never exhausted |
| Data path (both drivers, `ramdisk/ramdisk.c`) | segments, grants, the handle table, bios, the block layer's merged requests | `idd_queue_request`, `map_pages_to_req`, bios of `dispatch_rw_block_io`, `unmap_pages`, `blk_device_request` | mapping fails page by page; handles of an earlier request stay in the table; bios of different requests are merged | each sector goes once, to the right place, over a page that is mapped; no mapping outlives its grant |
| Life cycle | registrations, threads, event channels, the page | `idd_init`, `idd_cleanup`, `blk_init`, `blk_cleanup` | order of initialisation and tear-down, failure half way, reload of one side | nothing is used before it is there or after it is gone; a front end agrees with its page; unloading ends |
| Naming service | the page and port last registered, kept by Xen | hypercall `REGISTER`, `CONNECT` | the Xen patch is not in the repository | external part of `Lifecycle` |
| xdd: barriers, threads, passes (`barrier.c`, `xdd.c`) | a count and a semaphore for each barrier; passes, flags and results shared by all threads | `xdd_barrier`, `xdd_start_thread`, `xdd_io_thread`, `xdd_io_loop` | count and semaphore are two steps; barriers are used in turn; unlocked updates; a thread that fails to start | threads stay in step; results are read when nobody writes them; the run ends |
| xdd: lockstep | task counter, flags, two barriers | the lockstep parts of `xdd_io_loop` | each side decides by what it last saw of the other; nothing is reset between passes | tasks are kept to; nobody waits for a kick that does not come |
| xdd: request plan and seek list, global clock, read after write | none beyond one call | end of `xdd_parse`, `xdd_init_seek_list`, `clk_delta`, the reader's loop | remainders, integer division, delays, old messages | against reference definitions |
| xdd: command line (`parse.c`) | the parameters of the run and of each target | one function per option, the loop over the words, parameter files | an option sets what others set; each says how many words it has used; for one target or for all so far | options mean the same one after the other, for each target, in a file or on the line |
| sysstat: daily data files (`sadc.c`) | the files of the days, `flock`, `S_F_FILE_LOCKED`, the list of activities | `open_ofile`, `create_sa_file`, `rw_sa_stat_loop`, `sa_rotat`, the pipe to `sar` | several processes; each record several writes; change of file at midnight; being killed | records stay whole; `sar` finds a header where `sadc` writes one |
| sysstat: reports (`sar.c`, `sadf.c`) | position in the file | the loops over records and restarts | four loops may come to a restart first | each sample shown once for each activity |
| sysstat: samples (`rd_stats.c`, `sa_stub.c`, `sadc.c`) | a table or structure for each activity; which file the disks are read from | a reader per file of `/proc`, the wrappers for different kernels, counting items, wiping | two readers of the same lines; what a line does not say is kept; items come and go | nothing lost at first, nothing stale later; what two readers say fits together |
| sysstat: formats (`pr_stats.c`, `prf_stats.c`, `activity.c`, `sadf.c`) | none | the columns of each activity in five outputs | the same columns are listed in up to five places | same values under the same labels |
| sysstat: `iostat` | a table of devices and one of NFS directories, each with two buffers; flags for options and kernel | `main`, `io_sys_init`, `save_stats`, seven readers, `write_stats` | entries are used again, buffers alternate, devices come and go; four kernels | what is there and asked for is shown, against the last sample |

**Not modelled.** `xdd`'s time stamps, verification of data, tables of results, ticker
and clocks, and the buffers of its SCSI ioctl: sequential code that compares bytes,
reads a clock or prints, with no state beyond a call. The HPSS interface (`hpss.c`, a
tenth of the code) is compiled out (`#ifdef notdef`). `mpstat` and `pidstat`
repeat `iostat`'s loop over two buffers with other files. The thesis, the
shell scripts, build and Xen configuration, and `file.h`, which no source includes.
About 30 000 of the repository's 37 000 lines of code are tools of other projects;
the modules cover nearly all of the drivers, and about a third of all lines.

The two drivers meet in four places: the shared page (both read and write it
without a lock), the event channel (an interrupt each way, merged while pending),
`io_lock` (the block layer, the request path and the response thread of the front
end) and `blk_ring_lock` (the completions of the back end). The threads of `xdd`
meet at barriers and in plain shared variables; the processes of `sysstat` in
a file and a pipe.

The hazards this code is exposed to are listed, each at its line, in
`PROJECT.json`, with the properties that watch over them.

## 2. Modules

```
Ring               index arithmetic and the macros of ring.h, as operators
 +- SharedRing     the shared page and the event channel
     +- Frontend   front-end driver: one action per step between shared accesses
     +- Backend    back-end driver, likewise
         (both) -> Idd      composition, fairness, properties, refinement mapping
                    +- MCIdd            instances for TLC (symmetry)
                    +- Idd_proofs       types, sleep protocols, ring, ids, pool, refinement
BlockService       what a block driver promises; instantiated by Idd
DataPath           sectors, grants, mappings and bios of a request     + MCDataPath, DataPath_proofs
Lifecycle          loading and unloading both drivers                  + Lifecycle_proofs
RingSize           the size of a ring
XddBarrier         xdd's barriers                                      + XddBarrier_proofs
XddRun             a run of xdd, by the meetings XddBarrier promises   + MCXddRun, XddRun_proofs
XddLockstep        two targets in lockstep                             + XddLockstep_proofs
XddPlan, XddRaw, XddClock, SarReport  pure algorithms
XddOptions         xdd's command line and parameter files
SarColumns         the columns of sar and sadf in every format
ProcReaders        how sadc takes a sample
 +- Iostat         iostat, from its command line to its reports
MCFunctions        all of those, and RingSize, over bounded inputs     + Functions_proofs
SadcFiles          sadc processes, the files of the days, sar's pipe   + MCSadcFiles, SadcFiles_proofs
```

### The pair of drivers

**Grain of atomicity.** A step of either side makes at most one access to what
the other side changes (the page, an interrupt), so every interleaving of the
two domains that the code allows is there. Code under `io_lock` is not atomic
either: `fpc` is the program counter of its holder, and the back end and the
interrupt run between any two of its steps.

**Ring.** `Succ` and `Minus` are `++` and `-` on an unsigned integer: modulo
`IdxSpan`, which stands for 2^32. Instances use twice the ring size, so that the
indices wrap several times within a behaviour.

**Frontend.** Who holds `io_lock` is in `fpc`; `site` tells whether
`do_idd_request` was called by the block layer or by
`kick_pending_request_queues`, which calls it twice: `blk_start_queue` runs the
queue too. `Submit` and `RunQueue` are the block layer: requests are added to
the queue under its lock and the driver's function runs before the lock is
released, unless the queue is stopped. Shadow entries hold the request of an id,
or the next id of the free list.

**Backend.** `bpc` is the request thread. `stage[p]` is how far the request that
claimed `p` has come: claimed, at the device, about to answer, holding
`blk_ring_lock` after the answer is published, about to be freed. Stages of
different requests interleave freely, as completions do.

**Interrupts.** A handler has three steps (set the condition, wake the thread if
it is marked `SLEEPING`, mark it `RUNNING`). `FrontSmp` and `BackSmp` say whether
it may run beside the threads of its domain, on another CPU. If not, nothing of
the driver runs during the handler, and it waits for `io_lock` (respectively
`blk_ring_lock`), which are taken with interrupts disabled.

#### What is abstracted, and why nothing is lost

* `sleep_cond` and `cont_counter` count idle rounds (50000 and 6). An idle round
  changes nothing the model keeps, so the number of rounds before going to sleep
  or back to the queue is left open: every count the code can reach, and more.
  `FrontSleeps`/`BackSleeps` switch the sleeping off in some instances.
* `req_event`, `rsp_event` and the `notify` computed from them are left out: both
  drivers ignore `notify` and look at the thread status instead.
* A final check reads the producer index once: its first read only skips the write
  of the event field. The status word is read and set in one step: between the
  two only the other side's read or the interrupt, which sets `RUNNING` when it
  is `RUNNING`, could come. `make_response` fills and publishes a slot in one step:
  until it is published nobody looks at it.
* Memory is sequentially consistent. The barriers between the status word and the
  producer index are the full ones this needs (`smp_mb`, and `mb` in the push).
  Between setting `SLEEPING` and the final check the back end has one in the
  macro only, before the second read.
* Sectors, segments and operations are in `DataPath`, not here; a request beyond the
  end of the disk is refused like one without grants. `rsp->seq_no >= IDD_RING_SIZE`
  cannot occur with this back end. The free pool is a set.
* `try_to_freeze`, `kthread_should_stop` and the reference count are in `Lifecycle`.

### The other modules

**DataPath.** Follows the data of a request: a `Geometry` is a shape the block layer
may give (position, direction, first and last sector of each segment). What
moves is not data but the fact that sector *s* was copied to or from sector *k* of
a page: `moved` is the sequence of these facts for each request. The ring is one step each way.
`work` holds the locals of the request thread while it dispatches: it builds bios page by page
(`AddPage`, until a bio is full), then counts them (`CountBios` sets `pendcnt`) and submits them
one by one (`SubmitBio`), while the first ones may already end. The device has a queue of
requests, each a run of bios that continue each other, as the block layer merges them; it
dispatches one at a time and takes it chunk by chunk from `rq_pos` on. A mapping
hypercall fails for any set of its pages. A request has the result of its response, `res`, which
only the model keeps: `EndRequestAll` ends it as a success whatever that is, as the front end does. Discards, which neither driver passes on,
and requests the RAM disk would refuse (the back end sends none) are left out.

**Lifecycle.** Each step of `blk_init` and `idd_init`, each label of their way out, and both
clean-ups are actions; the *n*-th load of the back end makes page *n* and channel
*n*. Nine steps can fail (`Faults`): the block device cannot be opened, no shared page, channel, handler,
registration, memory or grant handles, no thread, no disk. The init tests some of them and goes its way out; three it does
not test (device, handles, thread), and the model goes on as the code does, with what is not there.
Binding the handler can fail with the port still open, or already closed by the kernel. The threads and interrupts appear with what they touch that may not be there:
a round of a thread is one step, and the ring is larger than the number of
requests. Orderly use is assumed of the administrator (front end unloaded before
the back end, no request under way, the last completion over), and named as
such where it is a guard: nothing in the code enforces it. `oops` collects what
a domain died of.

**RingSize, XddPlan, XddClock, XddRaw, SarReport** are operators and recursive functions,
translated expression by expression, without variables. In `MCFunctions` each bounded
input is a state, and the invariants compare what the code computes with a reference
definition: the largest power of two; each block of a target exactly once, a list
in its range, the share of reads asked for; a start never before its time; a
reader never ahead of the writer; each sample once.

**XddOptions.** A line is a sequence of words, a word its text and the number `atoi` makes of it.
Each option is an operator from the words after it and the parameters so far to the new
parameters, the number of words used, and whether it ends the run. A parameter
file is put in place of the option that names it. Abbreviations and help texts are left out.

**SarColumns.** A value is not a number but the formula that is printed, with the members of the
structure it uses; a format is what it does with a row of them. So one activity's
columns in the table, the average, the `ppc`, `db` and `XML` output can be compared
without any numbers.

**ProcReaders.** A file of `/proc` is the sequence of its lines, a line a key and its numbers.
`Scan` is `sscanf`: what the format names is stored, what the line is too short for stays
as it was. The tables have the size counted at the start, and some entries to spare.

**Iostat** uses the same files. A table is a record of its headers and its two buffers; `curr`
alternates. `main` is a fold over the words, as `-p` looks one ahead. The readers
are folds over lines, `read_nfs_stat` one with the five states of `sw`. A report is the
differences it prints, before they are divided by the interval and by the unit. In `MCFunctions`
a state is followed by the one with the reports, which are compared with the machine the
files were made from.

**XddBarrier.** The count of a caller (under the mutex) and its semaphore operation are
two steps, so that a fast thread can come back to a barrier and take the unit meant
for a slow one. `Together` is what users of barriers rely on, and what `XddRun`
and `XddLockstep` use in place of the barrier: a thread leaves its *r*-th meeting
after all others have entered theirs.

**XddRun.** `main` creates the threads one by one through the serializer barriers; these
appear with their count and semaphore, as they are shared by `main` and changing
partners. Then the passes: I/O (one step, which may end by the run
time), computing results, averages, reopening, the last barrier. A thread can
fail to start and say so, or fail and return silently; a target may not open again.

**XddLockstep.** A master and a slave over several passes, with every combination of
the options: interval and task in operations or time, *wait* or *run* at the start,
*stop* or *complete* at the end. What a thread does under `ls_mutex` is one step.

**SadcFiles.** A file is the sequence of what `write_all` put there. Opening, locking,
truncating and each write are steps of their own; `flock`, `O_APPEND` and positions
are the system's. A process may be killed between any two writes.

**Left out of these**: a connection to the time server that fails (`global_time.c:151-165`); a
`semop` interrupted by a signal, which `barrier.c:60-67` reports to callers who do not look; old messages of
read after write (`xdd.c:437`), which come in order over one connection; a list of activities of which
`sadc` knows a part (`sadc.c:595-627`), taken for one it knows nothing of; counters that wrap together with `iostat -x`.
`accident` is a history variable: it records the three ways the code has to spoil a
file, so that `RecordsWhole` can say that there is no fourth. `sar` reads the pipe
by what it expects next, which depends on the type of the record before.

### Bounds and assumptions

`RingSize` and `IdxSpan` (any size that divides the span), `Request`, `Pending`,
`MaxBios`; `MaxGrantFaults` and `MaxBioFaults` cap how often an allocation
fails; `MaxFinishing` caps how many completions are between their last bio and
`free_req` at once, the number of CPUs of the driver domain in the code.
`Lifecycle`: `MaxLoads` loads of each driver, `MaxRequests` over one page, `Faults` the steps
that may fail. `XddBarrier`: `MaxRound` meetings. `XddRun`: `MaxPasses`, after which the
run time is over. `XddLockstep`: `MaxOps` operations, intervals and tasks up to `MaxValue`.
`SadcFiles`: `MaxDay` days, `MaxDeaths` kills.

**Fairness.** `Idd`: weak for both threads, the two interrupt
handlers and the request path: each is a kernel thread, an interrupt or the
owner of a spin lock, and a CPU gets round to it. The completion of a request is
strongly fair: it competes for `blk_ring_lock`, a ticket lock, and for a CPU,
so being enabled again and again it gets its turn. Nothing is assumed of `Submit`.
`Lifecycle`: weak for the threads, for the module loader waiting in `kthread_stop`, for the
interrupts and for the polling of a request; loading, unloading and submitting are
up to the user. `XddBarrier`, `XddRun`, `XddLockstep`: weak for each thread and for `main`, which are
scheduled by the kernel and take no lock for longer than a step. `SadcFiles`: weak
for `sar` and the `sadc` it has started, whose alarms come; the others may stop for good.

## 3. Runs

| Run | Instance | Shows |
|---|---|---|
| `data` | ring 2, 3 requests (1 non-fs), pool 3, SMP, no sleeping | `TypeOK`; `RingOrder`: the six indices never overtake each other; `OneHolder`: each id in use is in exactly one place; `IdsSuffice`: the free list is intact and has an id for every free slot, so that the `BUG_ON` never fires; `PublishedMessagesStable`; `ImplementsBlockService` |
| `works` | ring 1, 2 requests, pool 3, 2 bios a request, all failures | `PoolSuffices`: the pool is never found empty; `ImplementsBlockService` under failure: no request ends before its bios have and its pages are unmapped, or twice |
| `progress` | ring 1, 2 requests, response thread sleeps | `ResponseThreadNotStranded`; `LockIsReleased`: polling under the lock ends; `EveryRequestEnds` |
| `progress_sleep` | ring 1, 1 request, both sleep | `EveryRequestEndsUnlessRace`: the race of section 5 is the only way for a request not to end |
| `datapath` | 2 requests of 21 shapes, pages of 2 sectors, blocks of 1 and 2 sectors; 107 519 states | `DataLands`: every request sent ends as a success, with each sector moved once to its place by aligned bios, or with none moved if it was answered -1; `PagesMappedDuringIo`; `NoStaleMapping`: no mapping outlives its grant, and no handle stays in the pool |
| `lifecycle` | 2 loads of each driver, 2 requests a page, all nine failures, one CPU; 105 035 distinct states | `FrontInStep`: a front end that starts from 0 agrees with its page; `ServicePageLives`; `OrderlyUseSafe`: nothing crashes but in the way of a step of an init that failed; `UnloadEnds` |
| `functions` | 40 957 inputs: 18 209 of the algorithms, 7 570 lines of options and parameter files, 1 834 selections of columns, 1 569 pairs of samples, 11 775 of `iostat` | `PlanAsAsked`: what of an amount or a number of requests is moved, and what is not; `RingRoundsDown`, `ClockNotEarly`, `RawFollows`, `ReportComplete`; `OptionsAsAsked`: options mean the same one after the other, and for one target or all; `FormatsInStep`: every format gives the same values under the same labels; `SamplesFaithful`: nothing lost, nothing stale, two readers agree; `DevicesFollowed`: reports of `iostat` while devices and directories come and go |
| `barrier` | 3 threads, 5 meetings | `Together`; `EveryoneLeaves`: no unit of the semaphore is lost |
| `xddrun` | targets of 2 and 1 threads, 2 or 3 passes | `ResultsQuiet`: results are read when nobody writes them; `PassesInStep`; `IoOnOpenTarget`; `RunEnds` (no failure at the start); `FailureStopsRun`: a thread that fails to start and says so ends the run, if its serializer barrier is its own so far |
| `lockstep` | 3 operations, tasks of 1 or 2, 2 passes | `TasksKept`: the slave does what it was asked for and no more, and stops within its task; `MasterNeverBlocks` (started by *run*); `RunEnds` |
| `sadc` | 3 processes of 5 mixes, 2 days, 1 killed | `RecordsWhole`: records stay whole but for three kinds of accident; `SarServed`: `sar` gets the lines it was asked for, over a change of file |
| `bug_back_wakeup` | ring 1, 2 requests, back end sleeps | violates `RequestThreadNotStranded`: section 5 |

Two slots let requests finish out of order, a slot be reused with the other
still in use, and the free list be permuted; a third request finds the ring full.
With one slot every second index wraps and every request meets a full ring, which
is the hard case of the sleep protocol. Each fault happens at most once
per behaviour but at any point of it. Two loads are enough for a front end to
find a page used before, and a reload of either side against the other as it was.
Pages of two sectors have a whole, a first half and a last half, and three
segments a first, a middle and a last. Three threads are the fewest of which one
can be overtaken by another while the third is away, and five meetings
use each of the two barriers more than twice. Three threads on two targets, numbered
1, 0 and 2, are the fewest of which two in a row share a serializer barrier. Two
passes show what the first leaves to the second. Deadlock is checked where the
system must not stop; it is off where it may end, or where a lost wakeup, a lost
request or a failed start can stop it.

`PoolSuffices` says what the pool needs: a structure for each slot and one for each
completion still on its way to `free_req`. Nothing has to be added for the
structures lost to `fail_put_bio`: the request of each is never answered, so it keeps a
slot as well. The code has 64, for 32 slots (of 120 bytes, after 64 bytes of header);
`progress` runs with a pool of one, where `alloc_req` does fail.

## 4. Proofs

The assumptions are those named in the modules (`RingAssumption`, `FrontAssumption`,
`BackAssumption`: the ring's size divides the span of an index and is smaller, the
pool is finite; `DataPathAssumption`: a request has at least one segment and no more than the driver
allows, each within a page and not empty; `RunAssumption`: there is a target, each has a
thread, and the bound on passes is not below the passes asked for;
`SadcAssumption`: there is a day, and each process has a kind; `LifecycleAssumption`,
`LockstepAssumption`, `ThreadAssumption` and `MaxRoundAssumption`: types). TLC
evaluates each of them in a run. For every value of the constants that meets them,
the following hold.

### The pair of drivers (`Idd_proofs`)

* **TypeCorrect**: `Spec => []TypeOK`. `TypeOK` alone is not inductive:
  `__end_block_io_op` decrements `pendcnt`, and `Dispatch` writes the structure
  `cur` points at. `TypeInv` adds that a structure not at the device has
  `pendcnt` 0 and that `cur` is claimed exactly while the thread dispatches.
* **ResponseThreadWokenUnlessRace**: `Spec /\ []~FrontRace => []ResponseThreadNotStranded`, on any
  number of CPUs: the interrupt between marking the thread `SLEEPING` and clearing
  `waiting_rsps` (section 5, 2) is the only one that loses a wakeup. TLC agrees that it
  does on two CPUs. The inductive invariant is `SleepInv`: while the
  condition `waiting_rsps` is false the thread is marked `SLEEPING`, and a
  response published since it last looked has an interrupt on its way
  (pending, being handled, or about to be sent by the holder of `blk_ring_lock`).
  The proof goes action by action over the front end (`FrontStepSleep`, where only
  `ThreadClearWaiting` and `FrontIrqDone` need the hypothesis) and the back
  end (`BackStepSleep`, where only publishing, notifying and the steps that hold the
  lock matter).
* **ResponseThreadWoken**: `ASSUME FrontSmp = FALSE PROVE Spec =>
  []ResponseThreadNotStranded`. On one CPU the handler runs only while nobody holds
  `io_lock`, and it is done before anybody takes it (`OutOfTheWay`): the race cannot happen.
* **IndicesInOrder**: `Spec => []RingOrder`. The order of the indices on the page is
  not inductive, because both sides work with copies: `RingInv` adds that the copy of
  `rsp_prod` the front end loops up to, and the copy of `req_prod` the back end
  does, lie in order between the others. That a response finds room behind
  `req_cons` needs a count: the requests claimed and not answered are
  as many as the indices between `rsp_prod` and `req_cons` (`ServiceCount`). Every
  distance is taken from `rsp_cons`, the oldest index; `OriginMoves` is the
  step where that one advances.
* **MessagesNotOverwritten**: `Spec => PublishedMessagesStable`. Only `QueueRequest` and
  `Respond` write a slot; by `RingInv` the index they write lies outside the
  two published ranges and within a ring's length of them, and `SlotsApart`
  shows that then the slots differ, also across the wrap.
* **HeldOnce**: `Spec => []OneHolder`. `HolderInv` says that the unread messages and the requests in
  service match the ids in use one to one (`OneEach`): the lemmas about `OneEach` say what becomes
  of the matching when a member moves from the ring to the back end, comes in, or
  leaves. That a message in the ring is still the one that was written rests on `SlotsApart`.
* **IdsAlwaysSuffice**: `Spec => []IdsSuffice`. `CountInv`: the ids in use are as many as the indices
  from the first response not handled to the last request prepared, so a ring with a
  free slot leaves an id. `ChainInv`: the links of the shadow table, from `shadow_free` on,
  are a walk that meets each free id once and ends in the mark of the end.
  `get_id_from_freelist` drops the first step of the walk, `add_id_to_freelist` puts one in front.
* **PoolNeverEmpty**: `Spec => []PoolSuffices`. A structure is free, finishing, or has a request in
  service, and these have a slot each: claimed structures are counted against the
  indices by `ServiceCount` of `RingInv`, the finishing ones by `MaxFinishing`.
* **DriversImplementBlockService**: `Spec => ImplementsBlockService`. Under the mapping of `Idd`
  (`Busy`: what the block layer has given and nobody has ended; `Done`) each
  action is a step of `BlockService` or a stutter. That an answer ends the request it
  was made for needs `HolderInv`; that no request is ended twice `QueueInv`, that its
  pages are unmapped `MappedInv`.

* **RequestThreadWoken**: `ASSUME Cardinality(Pending) >= RingSize + MaxFinishing PROVE Spec /\ []~BackRace
  => []RequestThreadNotStranded`. The back end's protocol is not safe (finding 1 of section 5), but the
  interrupt between setting `SLEEPING` and clearing `waiting_reqs` is, with a pool of
  that size, the only thing wrong with it: in behaviours without that race the request thread never sleeps on a request that nobody
  announces. `BackSleepInv` is to the request thread what `SleepInv` is to the response
  thread, on several CPUs as well; the step the race spoils is `BackClearWaiting`, which the hypothesis
  is about. It rests on `RingInv`, for the order of the indices, and on the pool: a thread that finds no
  `pending_req` leaves the ring without the final check, and with a pool smaller than that
  it does go to sleep on a request (TLC shows it for two slots and one structure).

Sums and walks need induction over numbers. The library's induction rule takes an operator, which
the provers here cannot instantiate; `LeastNat` and `InductionUpTo` get the same from the
well-foundedness of `<`, for sets in place of predicates.

### The data path (`DataPath_proofs`)

* **DataLandsAlways**: `Spec => []DataLands`, **DeviceFindsPages**: `Spec =>
  []PagesMappedDuringIo`, **PagesUnmappedInTime**: `Spec => []NoStaleMapping`, for every geometry,
  block size, limit of a bio, pool and set of pages that fail to map. They are consequences
  of one invariant, `DataInv` (**DataInvariance**): a structure in use serves a request of its own
  (`PendInv`); a request not completed has a grant for each page (`GrantInv`); handles and
  mappings are those of the structures that hold them, and no others (`MapInv`); the bios the
  request thread has in hand follow one another and cover the segments it has come to (`WorkInv`); in
  the queue of the device the bios of a structure lie together, `pendcnt` is the number of those not
  ended, in the queue or in hand, and what has been moved is each sector before the first of
  them, once (`QueueInv`); a request answered 0 has moved all, one answered -1 nothing (`DoneInv`). `FailInv`, a
  second invariant on top of it, says why a request is answered -1: `DataInv` gives that no page granted by the front end is
  refused (`NoPageRefused`) and that `end_block_io_op` answers 0 (`DeviceAnswersZero`), so it is off the blocks of
  the device, or a mapping failed; in an instance in which no mapping can fail, every well-formed request moves everything. `Before` counts the
  sectors before a segment as a cardinality, so that the proofs can use the facts
  about finite sets.

### The life cycle (`Lifecycle_proofs`)

* **RegisteredPageLives**: `Spec => []ServicePageLives`, and **LoadedInStep**: `Spec =>
  []FrontInStep`, for any number of loads and requests, any set of failures, and
  one CPU or several. The inductive invariant `IInv` has one part for each thing they
  rest on. `ServiceInv`: pages are registered in the order of the loads, and
  `blk_init` frees its page only if it has not registered it, because its way out
  after the registration leads to the second close of the port, which does not return.
  `PagesInv`: a channel is unbound only as long as no request has gone over
  its page; so a front end, which must bind it, finds the indices at 0.
  `BackRing` and `FrontRing`: each side's own indices follow those of its page.
  `FrontInv`: a front end is on a page no newer than the registered one, so
  that a new page is never one it is on.
* **OneCpuUseSafe**: `~FrontSmp => (Spec => []OrderlyUseSafe)`. With interrupts on the CPU of the threads,
  orderly use crashes nothing, except in the way of a step of an init that failed: `CrashesOf` lists for each
  step what may come of it (section 5, 8), and if no step fails nothing crashes at all. `FaultInv` ties each thing that is missing to
  the failure that explains it. `UseInv` adds to `IInv` at which steps of an init or clean-up a
  wait queue is set up (`BackQueue`, `FrontQueue`), and which handlers are registered there
  (`IrqInv`). Without the condition it is false: fault 7 of section 5.
* **TypeCorrect**: the types, from the same invariant.

### xdd (`XddBarrier_proofs`, `XddRun_proofs`, `XddLockstep_proofs`)

* **ThreadsStayTogether** (`XddBarrier_proofs`): `Spec => []Together`, for any number of threads and
  meetings. The invariant counts: at each barrier the counter, the units of the semaphore
  and those the last caller is about to post make up for the threads that wait there
  (`Accounted`); while one is about to post, all others wait for it (`Poster`); a thread that lags
  behind waits at a barrier whose count is closed (`Ahead`), and a barrier with units to
  take is entered by no one (`Open`, `OneOpen`): so whoever takes a unit waits in the same
  meeting as the one it was meant for. **WaitersAccounted** states the first of these for the reader.
* **NeverBlocks** (`XddLockstep_proofs`): `Spec => []MasterNeverBlocks`. The flag
  `LS_SLAVE_WAITING` is up exactly while the slave has entered one meeting more than
  the master (`FlagTells`); `AtWork` and `InPass` say at which places this may be. **TypeCorrect**
  includes that the task counter never goes below 0.
* **KeepsToTasks**: `Spec => []TasksKept`. `TaskInv` counts what the slave has done against the tasks it
  has been given. `OnTask`: while the master runs, the tasks taken off the counter pay for the
  operations done before the one the slave is in. `Stopping`: after the master has ended, the slave
  has only that task left, or the one the last kick has put on the counter.
* **PassesKeepInStep**, **ResultsAreQuiet**, **TargetsAreOpen** (`XddRun_proofs`): `PassesInStep`, `ResultsQuiet` and
  `IoOnOpenTarget`, for any targets, queue depths and passes. A pass has three meetings. `Counted`:
  the number of meetings a thread has entered tells where it is; `Met`: none is more
  than one behind. Each thread decides by itself whether to go on, from
  `abort_io`, `run_ring` and `passes`, which others write without a lock; that all decide alike
  (`AbortTogether`, `EndTogether`) is because each of the three changes only in places where
  no other thread is between reading it and the next meeting (`Limited`, `Opened`).

### Pure algorithms (`Functions_proofs`)

These are about any input, with no bound, and the invariants of `functions` follow: an input of
the model is one of those described in `InputInv` (**InputDescribed**).

* **RoundsDown**, **RingSizeIsPower**: `__RD32` gives the largest power of two for every number
  of 32 bits but 0, by one lemma for each macro of the tree; hence every ring's size,
  whatever the entries, is one, and `idx & (size - 1)` is `idx % size`. **RingIsRoundedDown**:
  `Spec => []RingRoundsDown`.
* **EstimateBehind**, **RefineBehind**, **ClockNeverEarly**: the difference `xdd` estimates is
  below the true one whatever the delays, and each answer moves it up but never past.
  So, through both loops of `clk_delta` and for any sequences of bounces of which one
  counts at all, a thread starts at its time or later, by no more than the quickest way
  back. **ClockIsNotEarly**: `Spec => []ClockNotEarly`.
* **BlocksDealtOut**, **AllOfItTransferred**, **AmountDealtOut**, **StaggerStaysInRange**, **ReadsAsAsked**: the parts of the
  plan. Requests are dealt out by division with remainder: block *x* belongs to request `x \div
  req`, and that one is the turn `\div depth` of thread `% depth` (`TurnsOfThread`,
  `BlockIsRequest`), which is unique (`DividedOnce`). After *k* operations
  `Smaller(k * iosize, bytes)` has been moved (`TransferredIs`). An amount becomes `\div iosize` requests, so that
  the bytes of the threads are the blocks of these requests (`WholeRequests`) and the remainder is nobody's; below one
  request the number is 0 and each thread falls back to the whole amount (`LessThanRequest`). The reads among the first *n* + 1 operations
  are as many as tenths have been passed (`ReadsCounted`). **PlanIsAsAsked**:
  `Spec => []PlanAsAsked`.
* **ReaderStaysBehind**, **ReaderKeepsPace**: the reader of read-after-write, for any number of writes of any
  lengths up to the size of a request. The reader believes for a while in what a short write
  did not bring, and its account is put right by the next message; `Behind` says how far it
  can be wrong: what is read and ready ends neither beyond the last write nor beyond the place from
  which the next message is counted. **ReaderFollows**: `Spec => []RawFollows`.

The loops are recursive functions: `Iterates` shows that such a loop has a value at each turn.

### Daily data files (`SadcFiles_proofs`)

* **RecordsStayWhole**: `Spec => []RecordsWhole`, for any processes, days and kills. The property excuses
  files with an accident, so the invariant says what a process knows of a file that has
  had none (`Knows`): while it writes it holds the lock, its position is the end of the
  file, and the list of activities it goes by is the one in the file. It has
  read that list before it locked the file; it is still the right one because
  only an unfit file is emptied, and emptying one that has become good in between is
  one of the accidents (section 5, 15). `Locked`: one process holds a lock, with the flag for
  that file. `WholeParts` and `AppendParts` say what appending an item does to a whole file.

### Model-checked only

Liveness and `ENABLED` are beyond the prover: `EveryRequestEnds`, `LockIsReleased`, `UnloadEnds`, `EveryoneLeaves`, both
`RunEnds`, `FailureStopsRun`, `SarServed` and `EveryRequestEndsUnlessRace` stay with TLC. So do, of
the invariants of `functions`, those about texts and tables: `ReportComplete`, `OptionsAsAsked`,
`FormatsInStep`, `SamplesFaithful` and `DevicesFollowed` compare folds over a hundred options, columns
or lines with what they should give, and a proof would have to go through each of them. `OrderlyUseSafe` is proved for one CPU only, for which the
run checks it: on several the code has the faults of section 5.

## 5. Where the code and its documents disagree, and what was seen on the way

Shown by a run:

1. *Back-end wakeup lost* (`backend.c:412-413`): an interrupt between setting
   `SLEEPING` and clearing `waiting_reqs` is undone; the thread ends up asleep and
   marked `RUNNING`, so that no interrupt is sent any more. Theorem `RequestThreadWoken` says that, but
   for an empty pool, nothing else does it.

Met while modelling. The models have these behaviours where the instances of
section 3 allow them; the properties say what holds in spite of them:

2. *Front-end wakeup lost* (`frontend.c:420-422`): the same, but only if the
   handler runs on another CPU: `ResponseThreadWoken` says that masking is enough,
   `ResponseThreadWokenUnlessRace` that nothing else has to be ruled out.
3. *Grant exhaustion* (`frontend.c:170-182`): a stopped queue nobody restarts.
4. *bio_alloc failure* (`backend.c:311-316`): the request is never answered.
5. *Errors dropped* (`frontend.c:310-314`, `396-400`): the error is worked out from the response and not used; a request
   whose pages could not be mapped ends as a success, having moved nothing. `DataLands` is stated with
   that: a success to the block layer says nothing of the data, a response of 0 does.
6. *Ring margin* (`ring.h:117-120`): the comment wants one slot free; the front
   end fills the ring. `RingOrder` and `OneHolder` hold all the same.
7. *Thread before its queue* (`frontend.c:582`): on several CPUs the response thread
   can wait on a queue that is not initialised.
8. *Failures of an init*. Not tested: `blkdev_get_by_path`, whose error is dereferenced (`backend.c:480-485`); the
   `kmalloc` of the grant handles, written through at once (`554`, `560`); both `kthread_run` (`573`, `frontend.c:582`), whose
   error the clean-up gives to `kthread_stop` (`593`, `601`). *Port closed twice* (`backend.c:583`): `unbind_from_irqhandler` has closed it already, and
   `blk_init` dies instead of failing. A front end that failed in `add_disk` counts as
   loaded, and its `rmmod` stops a thread that does not exist. `OrderlyUseSafe` allows each of these, for the failure
   it comes from.
9. *Serializer barrier* (`xdd.c:1606`, `parse.c:2861`): chosen by the parity of a number
   that does not alternate; the start is not as serial as `xdd.c:1578-1580` says.
10. *Silent failure* (`xdd.c:939`): a thread without memory for its seek list never
    enters the serializer barrier, and `main` waits for ever.
11. *Lockstep "wait"* (`parse.c:1184`, against `xdd.h:715-719`): raises the flag before the slave
    waits; and a slave waits although a task is on the counter (`xdd.c:331-333`).
12. *Reopening* (`xdd.c:1261`, `1278`): a descriptor is closed twice, and other queue threads
    keep the old one when the file is made anew.
13. *Other slips in xdd*: `=!` for `!=` (`verify.c:243`), the wrap of time stamps
    (`xdd.c:640`), a percentage truncated (`parse.c:1087`).
    *Amounts* (`parse.c:2821-2829`): `-mbytes` and `-kbytes` are cut to whole requests. The comment speaks of a last
    request that might be small, and `xdd.c:893-896` provides for it, but `numreqs` goes before the amount
    (`887-888`) and it is never done. An amount of less than one request makes `numreqs` 0, and each queue thread moves all
    of it. `PlanAsAsked` states both.
14. *Stale lock flag* (`sadc.c:431-435`, `763-771`): `S_F_FILE_LOCKED` stays set when the file
    changes, so the next file, if it exists, is written without a lock, though
    `man/sadc.8` says of `-L` that the lock is taken.
15. *Emptied after a look without the lock* (`sadc.c:551-565`): a file found empty or unfit is
    truncated even if another `sadc` has filled it in between.
16. *Half a record* (`sadc.c:442`): what a killed `sadc` leaves, the next one appends to.
17. *Empty list* (`sadc.c:585-640`): with `-F` on an unfit file, all activities have been
    deselected before the file is made anew; it gets an empty list, and every later
    `sadc` truncates it again.
18. *Text of a comment* (`sar.c:849-860`, `sadf.c:915`): the loop that goes on to the next
    restart skips a comment's header but not its text, and takes the text for records
    (against `sar.c:519`).
19. *Words of options* (`parse.c:813`, `1221`): `-delay` and `-maxerrors` count one word too few, so
    that their number is taken for the next option; `-roundrobin` and `-singleproc` (`1790`, `2079`) use
    up the rest of the line. A word before an option that is none ends in a null pointer.
20. *Options for all targets*: `-verify location` does not set the sequenced pattern it sets for one target
    (`2687`); `-throttle var` of 0 or less uses a target that is not there (`2479`); "previous" is looked for in
    `argv[0]` (`3033`); a parameter file that starts with a blank loses its first line (`2956`); `-setup` of a
    file that is not there counts as success (`1984-1992`).
21. *Letters after `u`* (`sa_common.c:1168`): `-u` ends the group of letters, so `sar -ur` forgets the `r`.
22. *Serial lines* (`prf_stats.c:810`): each field repeats the number of the line, which does not fit the
    list of fields; its heading says `txmtin/s` (`activity.c:296`). XML calls an interrupt's rate `value`.
23. *The file of the disks is chosen once* (`rd_stats.c:1499`): a `sadc` that starts before any disk has been used
    reads `/proc/stat` ever after, and the totals stay 0 on a kernel 2.6. A short line `proc4` would add
    the counts of `proc3` again (`1077-1110`).
24. *A device that comes back* (`iostat.c:389`): `save_stats` finds its name in an entry that is no longer used,
    and does not use it again: `iostat` shows it no more, although its comment says that devices may come and go.
25. *Time in interrupts* (`iostat.c:997`, `1408`): added to the system's when it is read and again when it is
    shown, so the shares of the CPU add up to more than 100.
26. *Partitions in `/sys`* (`iostat.c:571`): a `stat` file with eleven numbers is read by the format for four.
27. *NFS after extended statistics* (`iostat.c:1296`): with `-x -n` on a kernel 2.2 or 2.4 the report
    ends before the directories.

## 6. Plan

Done, in this order: ring, both drivers, their composition and refinement; life
cycle; data path; size of the ring; barriers, run, lockstep, algorithms and options of
`xdd`; daily files, samples, formats and reports of `sysstat`; the proofs of section 4.

Left, the most useful first:

1. Proofs: `ReportComplete` for files of any length.
2. Abstract peers: the front end against any back end that obeys `RingOrder`, for
   larger rings, and the reverse.
3. Lockstep chains, and the sockets of read after write with loss.
