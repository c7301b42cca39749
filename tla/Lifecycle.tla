----------------------------- MODULE Lifecycle ------------------------------
(***************************************************************************)
(* Loading and unloading the two drivers: idd_init and idd_cleanup of      *)
(* src/myrepo/frontend/frontend.c, blk_init and blk_cleanup of             *)
(* src/myrepo/backend/backend.c.                                           *)
(*                                                                         *)
(* The n-th load of the back end makes page n and event channel n.  The    *)
(* hypervisor's naming service (not in the repository) hands out the last  *)
(* page registered.  The threads, the interrupts and the requests of the   *)
(* other modules appear here only as far as they meet what is not          *)
(* initialised yet or gone already: a round of a thread is one step, and   *)
(* the ring is larger than the number of requests.                         *)
(***************************************************************************)
EXTENDS Integers, FiniteSets

CONSTANTS
  MaxLoads,     \* bound: loads of each driver
  MaxRequests,  \* bound: requests over one page
  Faults,       \* steps of the two init functions that may fail
  FrontSmp      \* the front end's domain has more than one CPU

ASSUME LifecycleAssumption ==
  /\ MaxLoads \in Nat \ {0}
  /\ MaxRequests \in Nat
  /\ Faults \subseteq {"device", "page", "evtchn", "bind", "register", "memory", "handles",
                     "disk", "thread"}
  /\ FrontSmp \in BOOLEAN

VARIABLES
  service,  \* the page CONNECT hands out; 0 if none was registered
  page,     \* the shared pages
  chan,     \* the event channels, as the hypervisor sees them
  evt,      \* pending interrupts of each channel
  bk,       \* back-end driver
  fr,       \* front-end driver
  oops      \* what a domain died of

vars == <<service, page, chan, evt, bk, fr, oops>>

Loads    == 1 .. MaxLoads
SLEEPING == "SLEEPING"
RUNNING  == "RUNNING"

\* idd_alloc_shared of the back end and SHARED_RING_INIT.
FreshPage == [granted |-> TRUE, req_prod |-> 0, rsp_prod |-> 0,
              req_status |-> RUNNING, rsp_status |-> RUNNING]
NoPage    == [FreshPage EXCEPT !.granted = FALSE]

\* Static data of a module that has just been loaded for the n-th time.
NewBack(n)  == [pc |-> "out", n |-> n, irq |-> FALSE, wq |-> FALSE, waiting |-> FALSE,
                stop |-> FALSE, thread |-> "none", req_cons |-> 0, io |-> 0, notify |-> FALSE]
NewFront(n) == [pc |-> "out", n |-> n, on |-> 0, wq |-> FALSE, waiting |-> FALSE,
                stop |-> FALSE, thread |-> "none", disk |-> FALSE, poll |-> FALSE,
                req_prod |-> 0, rsp_cons |-> 0, irqs |-> {}]

Init ==
  /\ service = 0
  /\ page = [n \in Loads |-> NoPage]
  /\ chan = [n \in Loads |-> "none"]
  /\ evt = [back |-> {}, front |-> {}]
  /\ bk = NewBack(0) /\ fr = NewFront(0)
  /\ oops = {}

-----------------------------------------------------------------------------
(* blk_init *)

BackDead  == bk.pc = "bug" \/ "back_wq" \in oops
BackAt(pc) == bk.pc = pc /\ ~BackDead
Fails(step) == step \in Faults

\* What kthread_run returned; neither driver looks at it.
Started == IF Fails("thread") THEN {"top", "failed"} ELSE {"top"}

\* The block device is used whether it could be opened or not.
BackLoad ==
  /\ BackAt("out") /\ bk.n < MaxLoads
  /\ LET n == bk.n + 1 IN
       \/ /\ bk' = [NewBack(n) EXCEPT !.pc = "evtchn"]
          /\ page' = [page EXCEPT ![n] = FreshPage]
          /\ UNCHANGED oops
       \/ Fails("page") /\ bk' = NewBack(n) /\ UNCHANGED <<page, oops>>
       \/ /\ Fails("device")
          /\ bk' = [NewBack(n) EXCEPT !.pc = "bug"]
          /\ oops' = oops \cup {"bad_device"}
          /\ UNCHANGED page
  /\ UNCHANGED <<service, chan, evt, fr>>

BackAllocUnbound ==
  /\ BackAt("evtchn")
  /\ \/ bk' = [bk EXCEPT !.pc = "bind"] /\ chan' = [chan EXCEPT ![bk.n] = "unbound"]
     \/ Fails("evtchn") /\ bk' = [bk EXCEPT !.pc = "end2"] /\ UNCHANGED chan
  /\ UNCHANGED <<service, page, evt, fr, oops>>

\* The kernel, if it is the handler that cannot be set, has closed the port.
BackBind ==
  /\ BackAt("bind")
  /\ \/ bk' = [bk EXCEPT !.pc = "register", !.irq = TRUE] /\ UNCHANGED chan
     \/ /\ Fails("bind")
        /\ bk' = [bk EXCEPT !.pc = "end3"]
        /\ chan' \in {chan, [chan EXCEPT ![bk.n] = "closed"]}
  /\ UNCHANGED <<service, page, evt, fr, oops>>

\* From here on a front end may connect and interrupt.
Register ==
  /\ BackAt("register")
  /\ \/ bk' = [bk EXCEPT !.pc = "setup"] /\ service' = bk.n
     \/ Fails("register") /\ bk' = [bk EXCEPT !.pc = "end4"] /\ UNCHANGED service
  /\ UNCHANGED <<page, chan, evt, fr, oops>>

\* Lists, locks and wait queues; then the pool and its pages.
BackSetup ==
  /\ BackAt("setup")
  /\ bk' = [bk EXCEPT !.pc = "memory", !.wq = TRUE, !.waiting = TRUE]
  /\ UNCHANGED <<service, page, chan, evt, fr, oops>>

\* Of the three allocations one goes untested, pending_grant_handles, and is
\* written to; of the thread nobody asks whether it was made.
BackStart ==
  /\ BackAt("memory")
  /\ \/ /\ \E thread \in Started : bk' = [bk EXCEPT !.pc = "in", !.thread = thread]
        /\ UNCHANGED oops
     \/ Fails("memory") /\ bk' = [bk EXCEPT !.pc = "end4"] /\ UNCHANGED oops
     \/ /\ Fails("handles")
        /\ bk' = [bk EXCEPT !.pc = "bug"]
        /\ oops' = oops \cup {"null_handles"}
  /\ UNCHANGED <<service, page, chan, evt, fr>>

\* Mutant of BackEnd4: the page is freed without closing the port again.
BackEnd4ToEnd2 ==
  /\ BackAt("end4")
  /\ bk' = [bk EXCEPT !.pc = "end2", !.irq = FALSE]
  /\ chan' = [chan EXCEPT ![bk.n] = "closed"]
  /\ UNCHANGED <<service, page, evt, fr, oops>>

\* unbind_from_irqhandler closes the port ...
BackEnd4 ==
  /\ BackAt("end4")
  /\ bk' = [bk EXCEPT !.pc = "end3", !.irq = FALSE]
  /\ chan' = [chan EXCEPT ![bk.n] = "closed"]
  /\ UNCHANGED <<service, page, evt, fr, oops>>

\* ... so closing it once more fails: BUG().
BackEnd3 ==
  /\ BackAt("end3")
  /\ IF chan[bk.n] = "closed"
     THEN bk' = [bk EXCEPT !.pc = "bug"] /\ oops' = oops \cup {"double_close"} /\ UNCHANGED chan
     ELSE /\ bk' = [bk EXCEPT !.pc = "end2"]
          /\ chan' = [chan EXCEPT ![bk.n] = "closed"]
          /\ UNCHANGED oops
  /\ UNCHANGED <<service, page, evt, fr>>

BackEnd2 ==
  /\ BackAt("end2")
  /\ bk' = NewBack(bk.n)
  /\ page' = [page EXCEPT ![bk.n].granted = FALSE]
  /\ UNCHANGED <<service, chan, evt, fr, oops>>

-----------------------------------------------------------------------------
(* blk_cleanup.  Nothing in the code holds the administrator back; in       *)
(* orderly use the front end is unloaded first and the last completion over. *)

Quiet == bk.io = 0 /\ ~bk.notify
Woken(thread) == IF thread = "asleep" THEN "wait" ELSE thread

\* kthread_stop takes what kthread_run returned for a thread.
BackUnload ==
  /\ BackAt("in") /\ fr.pc = "out" /\ Quiet
  /\ IF bk.thread = "failed"
     THEN /\ bk' = [bk EXCEPT !.pc = "bug"]
          /\ oops' = oops \cup {"back_stop"}
     ELSE /\ bk' = [bk EXCEPT !.pc = "stopping", !.stop = TRUE, !.thread = Woken(@)]
          /\ UNCHANGED oops
  /\ UNCHANGED <<service, page, chan, evt, fr>>

\* kthread_stop returned; the page, its grant and the registration stay.
BackUnloaded ==
  /\ BackAt("stopping") /\ bk.thread = "none"
  /\ bk' = NewBack(bk.n)
  /\ chan' = [chan EXCEPT ![bk.n] = "closed"]
  /\ UNCHANGED <<service, page, evt, fr, oops>>

-----------------------------------------------------------------------------
(* idd_request_schedule, irq_ring_interrupt and the completions, back end *)

BackThreadTop ==
  /\ bk.thread = "top" /\ ~BackDead
  /\ bk' = [bk EXCEPT !.thread = IF bk.stop THEN "none" ELSE "wait"]
  /\ UNCHANGED <<service, page, chan, evt, fr, oops>>

\* Mutant of BackThreadWait: the wait does not look for kthread_should_stop.
BackThreadWaitDeaf ==
  /\ bk.thread = "wait" /\ ~BackDead
  /\ bk' = [bk EXCEPT !.thread = IF bk.waiting THEN "round" ELSE "asleep"]
  /\ UNCHANGED <<service, page, chan, evt, fr, oops>>

BackThreadWait ==
  /\ bk.thread = "wait" /\ ~BackDead
  /\ bk' = [bk EXCEPT !.thread = IF bk.waiting \/ bk.stop THEN "round" ELSE "asleep"]
  /\ UNCHANGED <<service, page, chan, evt, fr, oops>>

BackTakes ==
  /\ bk.thread = "round" /\ ~BackDead /\ ~bk.stop
  /\ bk.req_cons # page[bk.n].req_prod
  /\ bk' = [bk EXCEPT !.req_cons = @ + 1, !.io = @ + 1]
  /\ UNCHANGED <<service, page, chan, evt, fr, oops>>

\* No request left, or the thread is to stop: another round, or sleep.
BackRoundEnds ==
  /\ bk.thread = "round" /\ ~BackDead
  /\ bk.stop \/ bk.req_cons = page[bk.n].req_prod
  /\ \/ bk' = [bk EXCEPT !.thread = "top"] /\ UNCHANGED page
     \/ /\ page[bk.n].req_status = RUNNING
        /\ page' = [page EXCEPT ![bk.n].req_status = SLEEPING]
        /\ bk' = [bk EXCEPT !.thread = "top", !.waiting = FALSE]
  /\ UNCHANGED <<service, chan, evt, fr, oops>>

BackIrq ==
  /\ bk.irq /\ bk.n \in evt.back /\ ~BackDead
  /\ evt' = [evt EXCEPT !.back = @ \ {bk.n}]
  /\ page' = [page EXCEPT ![bk.n].req_status = RUNNING]
  /\ IF page[bk.n].req_status = SLEEPING
     THEN /\ bk' = [bk EXCEPT !.waiting = TRUE, !.thread = Woken(@)]
          /\ oops' = IF bk.wq THEN oops ELSE oops \cup {"back_wq"}
     ELSE bk' = [bk EXCEPT !.waiting = TRUE] /\ UNCHANGED oops
  /\ UNCHANGED <<service, chan, fr>>

\* make_response publishes, then looks at the state of the response thread.
Answer ==
  /\ bk.io > 0 /\ ~bk.notify /\ ~BackDead
  /\ page' = [page EXCEPT ![bk.n].rsp_prod = @ + 1]
  /\ bk' = [bk EXCEPT !.io = @ - 1, !.notify = TRUE]
  /\ UNCHANGED <<service, chan, evt, fr, oops>>

NotifyFront ==
  /\ bk.notify /\ ~BackDead
  /\ evt' = IF page[bk.n].rsp_status = SLEEPING /\ chan[bk.n] = "bound"
            THEN [evt EXCEPT !.front = @ \cup {bk.n}] ELSE evt
  /\ bk' = [bk EXCEPT !.notify = FALSE]
  /\ UNCHANGED <<service, page, chan, fr, oops>>

-----------------------------------------------------------------------------
(* idd_init *)

FrontDead  == oops \cap {"front_wq", "front_text", "stop_null", "front_stop"} # {}

\* On one CPU an interrupt is taken before anything else runs, unless io_lock
\* is held, and a new thread waits until idd_init has returned.
FrontCpuFree == FrontSmp \/ evt.front \cap fr.irqs = {}
FrontAt(pc)  == fr.pc = pc /\ FrontCpuFree /\ ~FrontDead
FrontThreadAt(pc) ==
  /\ fr.thread = pc /\ ~FrontDead
  /\ FrontCpuFree /\ (FrontSmp \/ fr.pc # "wait queue")

FrontOut   == [NewFront(fr.n) EXCEPT !.irqs = fr.irqs]
Page       == page[fr.on]

\* CONNECT, mapping the page, FRONT_RING_INIT and the free list: the indices
\* start from 0 whatever the page holds.
Connect ==
  /\ FrontAt("out") /\ fr.n < MaxLoads
  /\ LET new == [NewFront(fr.n + 1) EXCEPT !.irqs = fr.irqs] IN
       fr' = IF service # 0 /\ page[service].granted
             THEN [new EXCEPT !.pc = "bind", !.on = service] ELSE new
  /\ UNCHANGED <<service, page, chan, evt, bk, oops>>

\* A port can be bound once: the hypervisor refuses one that is bound or closed.
FrontBind ==
  /\ FrontAt("bind")
  /\ IF chan[fr.on] = "unbound"
     THEN /\ chan' = [chan EXCEPT ![fr.on] = "bound"]
          /\ fr' = [fr EXCEPT !.pc = "disk", !.irqs = @ \cup {fr.on}]
     ELSE fr' = FrontOut /\ UNCHANGED chan
  /\ UNCHANGED <<service, page, evt, bk, oops>>

\* add_disk, or end3: the page and the port are given back, but err is still
\* the irq number, so the module counts as loaded.
AddDisk ==
  /\ FrontAt("disk")
  /\ \/ fr' = [fr EXCEPT !.pc = "thread", !.disk = TRUE] /\ UNCHANGED chan
     \/ /\ Fails("disk")
        /\ fr' = [fr EXCEPT !.pc = "dead", !.irqs = @ \ {fr.on}]
        /\ chan' = [chan EXCEPT ![fr.on] = IF @ = "bound" THEN "unbound" ELSE @]
  /\ UNCHANGED <<service, page, evt, bk, oops>>

FrontStart ==
  /\ FrontAt("thread")
  /\ \E thread \in Started : fr' = [fr EXCEPT !.pc = "wait queue", !.thread = thread]
  /\ UNCHANGED <<service, page, chan, evt, bk, oops>>

FrontInitQueue ==
  /\ FrontAt("wait queue")
  /\ fr' = [fr EXCEPT !.pc = "in", !.wq = TRUE, !.waiting = TRUE]
  /\ UNCHANGED <<service, page, chan, evt, bk, oops>>

-----------------------------------------------------------------------------
(* idd_cleanup.  An open disk holds a reference to the module (the owner of   *)
(* idd_fops), so its requests have ended; in orderly use the back end is done *)
(* with them too.                                                             *)

\* Mutant of FrontUnload: the open disk holds no reference to the module.
FrontUnloadOpen ==
  /\ FrontAt("in") /\ ~fr.poll /\ Quiet
  /\ fr' = [fr EXCEPT !.pc = "stopping", !.stop = TRUE, !.thread = Woken(@)]
  /\ UNCHANGED <<service, page, chan, evt, bk, oops>>

FrontUnload ==
  /\ FrontAt("in") /\ fr.rsp_cons = fr.req_prod /\ ~fr.poll /\ Quiet
  /\ IF fr.thread = "failed"
     THEN oops' = oops \cup {"front_stop"} /\ UNCHANGED fr
     ELSE /\ fr' = [fr EXCEPT !.pc = "stopping", !.stop = TRUE, !.thread = Woken(@)]
          /\ UNCHANGED oops
  /\ UNCHANGED <<service, page, chan, evt, bk>>

\* Mutant of FrontUnloaded: the event channel is given back.
FrontUnloadedUnbinds ==
  /\ FrontAt("stopping") /\ fr.thread = "none"
  /\ fr' = [FrontOut EXCEPT !.irqs = @ \ {fr.on}]
  /\ chan' = [chan EXCEPT ![fr.on] = IF @ = "bound" THEN "unbound" ELSE @]
  /\ UNCHANGED <<service, page, evt, bk, oops>>

\* kthread_stop returned, the disk is gone; the irq stays bound.
FrontUnloaded ==
  /\ FrontAt("stopping") /\ fr.thread = "none"
  /\ fr' = FrontOut
  /\ UNCHANGED <<service, page, chan, evt, bk, oops>>

\* After a failed init there is no thread to stop.
FrontUnloadDead ==
  /\ FrontAt("dead")
  /\ oops' = oops \cup {"stop_null"}
  /\ UNCHANGED <<service, page, chan, evt, bk, fr>>

-----------------------------------------------------------------------------
(* do_idd_request, idd_read_response and irq_ring_interrupt, front end *)

Submit ==
  /\ fr.disk /\ ~fr.stop /\ ~fr.poll /\ ~FrontDead /\ FrontCpuFree
  /\ fr.req_prod < MaxRequests
  /\ fr' = [fr EXCEPT !.req_prod = @ + 1, !.poll = TRUE]
  /\ page' = [page EXCEPT ![fr.on].req_prod = fr.req_prod + 1]
  /\ evt' = IF Page.req_status = SLEEPING /\ chan[fr.on] = "bound"
            THEN [evt EXCEPT !.back = @ \cup {fr.on}] ELSE evt
  /\ UNCHANGED <<service, chan, bk, oops>>

Poll ==
  /\ fr.poll /\ ~FrontDead
  /\ fr' = [fr EXCEPT !.rsp_cons = Page.rsp_prod, !.poll = FALSE]
  /\ UNCHANGED <<service, page, chan, evt, bk, oops>>

FrontThreadTop ==
  /\ FrontThreadAt("top")
  /\ fr' = [fr EXCEPT !.thread = IF fr.stop THEN "none" ELSE "wait"]
  /\ UNCHANGED <<service, page, chan, evt, bk, oops>>

\* wait_event_interruptible enters the wait queue only if it has to wait.
FrontThreadWait ==
  /\ FrontThreadAt("wait")
  /\ fr' = [fr EXCEPT !.thread = IF fr.waiting \/ fr.stop THEN "round" ELSE "asleep"]
  /\ oops' = IF fr'.thread = "asleep" /\ ~fr.wq THEN oops \cup {"front_wq"} ELSE oops
  /\ UNCHANGED <<service, page, chan, evt, bk>>

FrontThreadRound ==
  /\ FrontThreadAt("round") /\ ~fr.poll
  /\ \/ /\ fr' = [fr EXCEPT !.rsp_cons = Page.rsp_prod, !.thread = "top"]
        /\ UNCHANGED page
     \/ /\ Page.rsp_status = RUNNING
        /\ page' = [page EXCEPT ![fr.on].rsp_status = SLEEPING]
        /\ fr' = [fr EXCEPT !.rsp_cons = Page.rsp_prod, !.thread = "top", !.waiting = FALSE]
  /\ UNCHANGED <<service, chan, evt, bk, oops>>

\* The irq of channel n; it outlives the module it calls.
FrontIrq(n) ==
  /\ n \in evt.front \cap fr.irqs /\ ~FrontDead
  /\ evt' = [evt EXCEPT !.front = @ \ {n}]
  /\ IF fr.pc # "out" /\ fr.on = n
     THEN /\ page' = [page EXCEPT ![n].rsp_status = RUNNING]
          /\ fr' = [fr EXCEPT !.waiting = TRUE,
                              !.thread = IF Page.rsp_status = SLEEPING THEN Woken(@) ELSE @]
          /\ oops' = IF Page.rsp_status = SLEEPING /\ ~fr.wq THEN oops \cup {"front_wq"} ELSE oops
     ELSE oops' = oops \cup {"front_text"} /\ UNCHANGED <<page, fr>>
  /\ UNCHANGED <<service, chan, bk>>

-----------------------------------------------------------------------------

BackInit == BackAllocUnbound \/ BackBind \/ Register \/ BackSetup \/ BackStart
            \/ BackEnd4 \/ BackEnd3 \/ BackEnd2
BackThread == BackThreadTop \/ BackThreadWait \/ BackTakes \/ BackRoundEnds
FrontInit == FrontBind \/ AddDisk \/ FrontStart \/ FrontInitQueue
FrontThread == FrontThreadTop \/ FrontThreadWait \/ FrontThreadRound

Next ==
  \/ BackLoad \/ BackInit \/ BackUnload \/ BackUnloaded
  \/ BackThread \/ BackIrq \/ Answer \/ NotifyFront
  \/ Connect \/ FrontInit \/ FrontUnload \/ FrontUnloaded \/ FrontUnloadDead
  \/ Submit \/ Poll \/ FrontThread
  \/ \E n \in Loads : FrontIrq(n)

\* Threads and the module loader run; loading and unloading is up to the user.
Fairness ==
  /\ WF_vars(BackThread) /\ WF_vars(BackUnloaded)
  /\ WF_vars(FrontThread) /\ WF_vars(FrontUnloaded) /\ WF_vars(Poll)
  /\ \A n \in Loads : WF_vars(FrontIrq(n))

Spec     == Init /\ [][Next]_vars
FairSpec == Spec /\ Fairness

-----------------------------------------------------------------------------
(* Properties *)

\* Type invariant.
Thread == {"none", "failed", "top", "wait", "asleep", "round"}
Shared == [granted : BOOLEAN, req_prod : Nat, rsp_prod : Nat,
           req_status : {SLEEPING, RUNNING}, rsp_status : {SLEEPING, RUNNING}]
Back   == [pc : {"out", "evtchn", "bind", "register", "setup", "memory", "in", "stopping",
                 "end4", "end3", "end2", "bug"},
           n : 0 .. MaxLoads, irq : BOOLEAN, wq : BOOLEAN, waiting : BOOLEAN, stop : BOOLEAN,
           thread : Thread, req_cons : Nat, io : Nat, notify : BOOLEAN]
Front  == [pc : {"out", "bind", "disk", "thread", "wait queue", "in", "stopping", "dead"},
           n : 0 .. MaxLoads, on : 0 .. MaxLoads, wq : BOOLEAN, waiting : BOOLEAN,
           stop : BOOLEAN, thread : Thread, disk : BOOLEAN, poll : BOOLEAN,
           req_prod : Nat, rsp_cons : Nat, irqs : SUBSET Loads]
TypeOK ==
  /\ service \in 0 .. MaxLoads
  /\ page \in [Loads -> Shared]
  /\ chan \in [Loads -> {"none", "unbound", "bound", "closed"}]
  /\ evt \in [back : SUBSET Loads, front : SUBSET Loads]
  /\ bk \in Back /\ fr \in Front
  /\ oops \subseteq {"back_wq", "front_wq", "front_text", "bad_device", "double_close",
                  "null_handles", "back_stop", "stop_null", "front_stop"}

\* A front end starts from index 0 and never resets the page.  That is right
\* because a page serves one front end only: idd_cleanup leaves the channel
\* bound, so a second front end is refused at the bind until the back end is
\* reloaded and has made a new page.
FrontInStep ==
  fr.pc \in {"thread", "wait queue", "in", "stopping"} =>
    /\ fr.req_prod = Page.req_prod
    /\ fr.rsp_cons <= Page.rsp_prod /\ Page.rsp_prod <= Page.req_prod

\* blk_init never frees a page the naming service hands out, wherever it fails.
ServicePageLives == service # 0 => page[service].granted

\* What may come of a step of an init that fails: what it left is used as if it
\* were there (the device, the grant handles, either thread, at the latest when
\* rmmod stops it), or the way out closes the port twice.
CrashesOf(step) ==
  CASE step = "device"                          -> {"bad_device"}
    [] step \in {"bind", "register", "memory"}  -> {"double_close"}
    [] step = "handles"                         -> {"null_handles"}
    [] step = "thread"                          -> {"back_stop", "front_stop"}
    [] step = "disk"                            -> {"stop_null"}
    [] OTHER                                    -> {}

\* In orderly use nothing crashes but of a step of an init that failed, and then
\* in the way of that step; drivers whose inits went through never crash.
\* Nothing runs in a module that is gone and nothing wakes or sleeps on a queue
\* that is not there, whatever failed: an early front end cannot make the
\* handler wake the queue blk_init has yet to set up, as req_status is SLEEPING
\* only once the request thread, started last, has said so.
OrderlyUseSafe == oops \subseteq UNION {CrashesOf(step) : step \in Faults}

\* kthread_stop returns, also while the thread sleeps, is about to, or works.
UnloadEnds ==
  /\ bk.pc = "stopping" ~> bk.pc = "out"
  /\ fr.pc = "stopping" ~> fr.pc = "out"

=============================================================================
