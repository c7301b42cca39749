-------------------------- MODULE Lifecycle_proofs ---------------------------
(***************************************************************************)
(* Loading and unloading never gives a front end a page that is gone, or   *)
(* one whose indices have moved on.  Both follow from the order of loads:  *)
(* a page is registered after those of all earlier loads, a front end is   *)
(* on a page no newer than the one registered, and the channel of a page   *)
(* is unbound only as long as no request has gone over it.                 *)
(* On one CPU, nothing wakes a queue that is not set up, or runs in a      *)
(* module that is gone: see UseInv below.                                  *)
(***************************************************************************)
EXTENDS Lifecycle, TLAPS

\* The page registered is there, and blk_init frees the page of this load only
\* if it has not registered it: after the registration the way out passes
\* through the second close of the port, which does not return.
ServiceInv ==
  /\ service <= bk.n
  /\ ServicePageLives
  /\ bk.pc \in {"evtchn", "bind", "register"} => page[bk.n].granted
  /\ bk.pc \in {"evtchn", "bind", "register", "end2"} => service # bk.n
  /\ bk.pc = "end3" /\ service = bk.n => chan[bk.n] = "closed"

\* What a back end that is loaded has, and one that is not has not.
BackInv ==
  /\ bk.pc # "out" => bk.n # 0
  /\ bk.pc = "out" => bk.thread = "none" /\ ~bk.irq /\ bk.io = 0 /\ ~bk.notify

\* The indices of every page: a request goes over it only once its channel is
\* bound.
PagesInv ==
  /\ \A n \in Loads : page[n].rsp_prod <= page[n].req_prod
  /\ \A n \in Loads : chan[n] = "unbound" => page[n].req_prod = 0

\* The requests the back end is working on are those it has taken from its page
\* and not answered.
BackRing ==
  /\ bk.pc = "evtchn" => page[bk.n].req_prod = 0
  /\ bk.pc \notin {"out", "bug"} => /\ page[bk.n].rsp_prod + bk.io = bk.req_cons
                                   /\ bk.req_cons <= page[bk.n].req_prod

\* What a front end that is loaded has, and one that is not has not.
FrontInv ==
  /\ fr.on <= service
  /\ fr.pc # "out" => fr.on # 0
  /\ fr.pc = "out" => fr.thread = "none" /\ ~fr.poll /\ ~fr.disk
  /\ fr.pc \in {"bind", "disk", "dead"} => fr.thread = "none" /\ ~fr.poll /\ ~fr.disk
  /\ fr.pc \in {"bind", "disk"} => fr.req_prod = 0 /\ fr.rsp_cons = 0

\* A front end that has bound the channel of its page goes on from what the
\* page says.
FrontRing ==
  fr.pc \in {"disk", "thread", "wait queue", "in", "stopping"} =>
    /\ chan[fr.on] \in {"bound", "closed"}
    /\ fr.req_prod = Page.req_prod
    /\ fr.rsp_cons <= Page.rsp_prod

IInv == TypeOK /\ ServiceInv /\ BackInv /\ PagesInv /\ BackRing /\ FrontInv /\ FrontRing

-----------------------------------------------------------------------------

LEMMA InitInv == Init => IInv
<1> SUFFICES ASSUME Init PROVE IInv
  OBVIOUS
<1>1. page \in [Loads -> Shared]
  BY DEF Init, Shared, NoPage, FreshPage, SLEEPING, RUNNING
<1>2. bk \in Back /\ fr \in Front
  BY LifecycleAssumption DEF Init, NewBack, NewFront, Back, Front, Thread
<1>3. TypeOK
  BY <1>1, <1>2, LifecycleAssumption DEF Init, TypeOK
<1>4. ServiceInv /\ BackInv
  BY <1>3, LifecycleAssumption DEF Init, ServiceInv, ServicePageLives, BackInv,
      NewBack
<1>5. PagesInv /\ BackRing
  BY <1>3 DEF Init, PagesInv, BackRing, NoPage, FreshPage, NewBack
<1>6. FrontInv /\ FrontRing
  BY <1>3, LifecycleAssumption DEF Init, FrontInv, FrontRing, NewFront
<1> QED BY <1>3, <1>4, <1>5, <1>6 DEF IInv

\* What the types say of the fields the invariant speaks of, and which page a
\* driver is on.
LEMMA Typed ==
  ASSUME IInv
  PROVE  /\ bk.n \in Nat /\ bk.n <= MaxLoads /\ bk.io \in Nat /\ bk.req_cons \in Nat
         /\ fr.on \in Nat /\ fr.on <= MaxLoads /\ fr.req_prod \in Nat /\ fr.rsp_cons \in Nat
         /\ service \in Nat /\ service <= MaxLoads /\ MaxLoads \in Nat
         /\ fr.on <= service /\ service <= bk.n /\ (service # 0 => service \in Loads)
         /\ fr.n \in 0 .. MaxLoads /\ fr.irqs \in SUBSET Loads
         /\ \A n \in Loads : page[n].req_prod \in Nat /\ page[n].rsp_prod \in Nat
         /\ (bk.pc # "out" \/ bk.thread # "none" \/ bk.irq \/ bk.io > 0 \/ bk.notify)
              => bk.n \in Loads
         /\ (fr.pc # "out" \/ fr.thread # "none" \/ fr.poll \/ fr.disk) => fr.on \in Loads
<1>1. bk \in Back /\ fr \in Front /\ service \in 0 .. MaxLoads /\ page \in [Loads -> Shared]
  BY DEF IInv, TypeOK
<1>2. bk.n \in 0 .. MaxLoads /\ bk.io \in Nat /\ bk.req_cons \in Nat
  BY <1>1 DEF Back
<1>3. /\ fr.on \in 0 .. MaxLoads /\ fr.req_prod \in Nat /\ fr.rsp_cons \in Nat
      /\ fr.n \in 0 .. MaxLoads /\ fr.irqs \in SUBSET Loads
  BY <1>1 DEF Front
<1>4. \A n \in Loads : page[n].req_prod \in Nat /\ page[n].rsp_prod \in Nat
  BY <1>1 DEF Shared
<1>5. (bk.pc # "out" \/ bk.thread # "none" \/ bk.irq \/ bk.io > 0 \/ bk.notify) => bk.n # 0
  BY <1>2 DEF IInv, BackInv
<1>6. (fr.pc # "out" \/ fr.thread # "none" \/ fr.poll \/ fr.disk) => fr.on # 0
  BY DEF IInv, FrontInv
<1>7. fr.on <= service /\ service <= bk.n
  BY DEF IInv, FrontInv, ServiceInv
<1> QED BY <1>1, <1>2, <1>3, <1>4, <1>5, <1>6, <1>7, LifecycleAssumption DEF Loads

LEMMA AtMost ==
  ASSUME NEW a \in Nat, NEW b \in Nat, NEW c \in Nat, a <= b, b <= c
  PROVE  a <= c
OBVIOUS

\* What the front end relies on in the steps of the back end: registrations go
\* up, its channel may be closed, its page may get responses.
LEMMA FrontKept ==
  ASSUME IInv, UNCHANGED fr, service' >= service, service' \in Nat,
         fr.on \in Loads =>
           /\ chan'[fr.on] = chan[fr.on] \/ chan'[fr.on] = "closed"
           /\ page'[fr.on].req_prod = page[fr.on].req_prod
           /\ page'[fr.on].rsp_prod >= page[fr.on].rsp_prod
           /\ page'[fr.on].rsp_prod \in Nat
  PROVE  FrontInv' /\ FrontRing'
<1>1. fr.pc # "out" => fr.on \in Loads
  BY Typed
<1>2. fr'.on <= service'
  BY Typed
<1>3. FrontInv'
  BY <1>2 DEF IInv, FrontInv
<1>4. fr.pc \in {"disk", "thread", "wait queue", "in", "stopping"} =>
        /\ fr.on \in Loads /\ page[fr.on].rsp_prod \in Nat
        /\ chan[fr.on] \in {"bound", "closed"}
        /\ fr.req_prod = page[fr.on].req_prod
        /\ fr.rsp_cons <= page[fr.on].rsp_prod
  BY <1>1, Typed DEF IInv, FrontRing, Page
<1>5. fr.pc \in {"disk", "thread", "wait queue", "in", "stopping"} =>
        /\ chan'[fr.on] \in {"bound", "closed"}
        /\ fr.req_prod = page'[fr.on].req_prod
        /\ fr.rsp_cons <= page'[fr.on].rsp_prod
  <2> SUFFICES ASSUME fr.pc \in {"disk", "thread", "wait queue", "in", "stopping"}
               PROVE  /\ chan'[fr.on] \in {"bound", "closed"}
                      /\ fr.req_prod = page'[fr.on].req_prod
                      /\ fr.rsp_cons <= page'[fr.on].rsp_prod
    OBVIOUS
  <2>1. fr.rsp_cons \in Nat
    BY Typed
  <2>2. chan'[fr.on] \in {"bound", "closed"} /\ fr.req_prod = page'[fr.on].req_prod
    BY <1>4
  <2>3. /\ page[fr.on].rsp_prod <= page'[fr.on].rsp_prod
        /\ fr.rsp_cons <= page[fr.on].rsp_prod
        /\ page[fr.on].rsp_prod \in Nat /\ page'[fr.on].rsp_prod \in Nat
    BY <1>4
  <2>4. fr.rsp_cons <= page'[fr.on].rsp_prod
    BY <2>1, <2>3, AtMost
  <2> QED BY <2>2, <2>4
<1> QED BY <1>3, <1>5 DEF FrontRing, Page

\* What the back end relies on in the steps of the front end: what is granted
\* stays so, what is closed stays closed.
LEMMA BackKept ==
  ASSUME IInv, UNCHANGED <<service, bk>>,
         \A n \in Loads : page'[n].granted = page[n].granted,
         \A n \in Loads : chan[n] = "closed" => chan'[n] = "closed"
  PROVE  ServiceInv' /\ BackInv'
<1>1. service # 0 => service \in Loads
  BY Typed DEF Loads
<1>2. bk.pc = "end3" => bk.n \in Loads
  BY Typed
<1>3. bk.pc \in {"evtchn", "bind", "register"} => bk.n \in Loads
  BY Typed
<1>4. BackInv'
  BY DEF IInv, BackInv
<1>5. ServicePageLives'
  BY <1>1 DEF IInv, ServiceInv, ServicePageLives
<1> QED BY <1>2, <1>3, <1>4, <1>5 DEF IInv, ServiceInv

\* blk_init keeps the invariant.
LEMMA BackInitStep ==
  ASSUME IInv, BackLoad \/ BackInit
  PROVE  IInv'
<1>t. TypeOK /\ ServiceInv /\ BackInv /\ PagesInv /\ BackRing /\ FrontInv /\ FrontRing
  BY DEF IInv
<1>b. bk \in Back
  BY <1>t DEF TypeOK
<1>p. page \in [Loads -> Shared]
  BY <1>t DEF TypeOK
<1>1. CASE BackLoad
  <2>1. /\ bk.pc = "out" /\ bk.n < MaxLoads
        /\ UNCHANGED <<service, chan, fr>>
    BY <1>1 DEF BackLoad, BackAt
  <2>2. bk.n + 1 \in Loads
    BY <2>1, Typed DEF Loads
  <2>3. NewBack(bk.n + 1) \in Back
    BY <2>1, Typed DEF NewBack, Back, Thread
  <2>4. /\ NewBack(bk.n + 1).n = bk.n + 1 /\ NewBack(bk.n + 1).pc = "out"
        /\ NewBack(bk.n + 1).thread = "none" /\ ~NewBack(bk.n + 1).irq
        /\ NewBack(bk.n + 1).io = 0 /\ ~NewBack(bk.n + 1).notify
        /\ NewBack(bk.n + 1).req_cons = 0
    BY DEF NewBack
  <2>5. \/ bk' = [NewBack(bk.n + 1) EXCEPT !.pc = "evtchn"]
        \/ bk' = [NewBack(bk.n + 1) EXCEPT !.pc = "bug"]
        \/ bk' = NewBack(bk.n + 1)
    BY <1>1 DEF BackLoad
  <2>6. bk' \in Back
    BY <2>3, <2>5 DEF Back
  <2>7. /\ bk'.n = bk.n + 1 /\ bk'.pc \in {"evtchn", "out", "bug"}
        /\ bk'.thread = "none" /\ ~bk'.irq /\ bk'.io = 0 /\ ~bk'.notify
        /\ bk'.req_cons = 0
    BY <2>3, <2>4, <2>5 DEF Back
  <2>8. fr.on # bk.n + 1 /\ service # bk.n + 1
    BY Typed
  <2>9. /\ FreshPage \in Shared /\ FreshPage.granted
        /\ FreshPage.req_prod = 0 /\ FreshPage.rsp_prod = 0
    BY DEF FreshPage, Shared, SLEEPING, RUNNING
  <2>10. \/ page' = page /\ bk'.pc \in {"out", "bug"}
         \/ page' = [page EXCEPT ![bk.n + 1] = FreshPage]
    BY <1>1, <2>2, <2>3, <2>4 DEF BackLoad, Back
  <2>11. page' \in [Loads -> Shared]
    BY <2>9, <2>10, <1>p
  <2>12. /\ \A n \in Loads : page'[n] = page[n] \/ page'[n] = FreshPage
         /\ \A n \in Loads : n # bk.n + 1 => page'[n] = page[n]
         /\ bk'.pc = "evtchn" => page'[bk.n + 1] = FreshPage
    BY <2>2, <2>10, <1>p
  <2>13. TypeOK'
    BY <1>1, <1>t, <2>6, <2>11 DEF BackLoad, TypeOK
  <2>14. ServiceInv'
    BY <1>t, <2>1, <2>2, <2>7, <2>8, <2>9, <2>12, Typed DEF ServiceInv, ServicePageLives
  <2>15. BackInv'
    BY <2>7, Typed DEF BackInv
  <2>16. PagesInv'
    <3>1. \A n \in Loads : page'[n].rsp_prod <= page'[n].req_prod
      BY <1>t, <2>9, <2>12 DEF PagesInv
    <3>2. \A n \in Loads : chan'[n] = "unbound" => page'[n].req_prod = 0
      BY <1>t, <2>1, <2>9, <2>12 DEF PagesInv
    <3> QED BY <3>1, <3>2 DEF PagesInv
  <2>17. BackRing'
    BY <2>2, <2>7, <2>9, <2>12 DEF BackRing
  <2>18. fr.on \in Loads => page'[fr.on] = page[fr.on]
    BY <2>8, <2>12
  <2>19. FrontInv' /\ FrontRing'
    BY <2>1, <2>18, Typed, FrontKept
  <2> QED BY <2>13, <2>14, <2>15, <2>16, <2>17, <2>19 DEF IInv
<1>2. CASE BackAllocUnbound
  <2>1. /\ bk.pc = "evtchn"
        /\ UNCHANGED <<service, page, fr>>
    BY <1>2 DEF BackAllocUnbound, BackAt
  <2>2. bk.n \in Loads
    BY <2>1, Typed
  <2>3. bk' \in Back
    BY <1>2, <1>b DEF BackAllocUnbound, Back, Thread
  <2>4. /\ bk'.n = bk.n /\ bk'.pc \in {"bind", "end2"} /\ bk'.thread = bk.thread
        /\ bk'.irq = bk.irq /\ bk'.io = bk.io /\ bk'.notify = bk.notify
        /\ bk'.req_cons = bk.req_cons
    BY <1>2, <1>b DEF BackAllocUnbound, Back
  <2>5. chan' = chan \/ chan' = [chan EXCEPT ![bk.n] = "unbound"]
    BY <1>2 DEF BackAllocUnbound
  <2>6. bk.pc = "evtchn" => service # bk.n
    BY <1>t DEF ServiceInv
  <2>7. fr.on # bk.n
    BY <2>1, Typed, <2>6
  <2>8. TypeOK'
    BY <1>2, <1>t, <2>3, <2>2 DEF BackAllocUnbound, TypeOK
  <2>9. ServiceInv'
    BY <1>t, <2>1, <2>2, <2>4, <2>5, <2>7, Typed DEF ServiceInv, ServicePageLives,
        Loads, TypeOK
  <2>10. BackInv'
    BY <1>t, <2>1, <2>2, <2>4, <2>5, <2>7, Typed DEF BackInv, Loads
  <2>11. PagesInv'
    BY <1>t, <2>1, <2>2, <2>4, <2>5, <2>7, Typed DEF PagesInv, BackRing, TypeOK
  <2>12. BackRing'
    BY <1>t, <2>1, <2>2, <2>4, <2>5, <2>7, Typed DEF BackRing
  <2>13. FrontInv' /\ FrontRing'
    BY <2>1, <2>2, <2>4, <2>5, <2>7, <1>t, Typed, FrontKept DEF TypeOK
  <2> QED BY <2>8, <2>9, <2>10, <2>11, <2>12, <2>13 DEF IInv
<1>3. CASE BackBind
  <2>1. /\ bk.pc = "bind"
        /\ UNCHANGED <<service, page, fr>>
        /\ chan' = chan \/ chan' = [chan EXCEPT ![bk.n] = "closed"]
    BY <1>3 DEF BackBind, BackAt
  <2>2. bk.n \in Loads
    BY <2>1, Typed
  <2>3. bk' \in Back
    BY <1>3, <1>b, ZenonT(60) DEF BackBind, Back, Thread
  <2>4. /\ bk'.n = bk.n /\ bk'.pc \in {"register", "end3"}
        /\ bk'.thread = bk.thread /\ bk'.io = bk.io /\ bk'.notify = bk.notify
        /\ bk'.req_cons = bk.req_cons
    BY <1>3, <1>b DEF BackBind, Back
  <2>5. TypeOK'
    BY <1>3, <1>t, <2>3, <2>2 DEF BackBind, TypeOK
  <2>6. ServiceInv'
    BY <1>t, <2>1, <2>2, <2>4, Typed DEF ServiceInv, ServicePageLives, Loads, TypeOK
  <2>7. BackInv'
    BY <1>t, <2>1, <2>2, <2>4, Typed DEF BackInv, Loads
  <2>8. PagesInv'
    BY <1>t, <2>1, <2>2, <2>4, Typed DEF PagesInv, TypeOK
  <2>9. BackRing'
    BY <1>t, <2>1, <2>2, <2>4, Typed DEF BackRing
  <2>10. FrontInv' /\ FrontRing'
    BY <2>1, <2>2, <2>4, <1>t, Typed, FrontKept DEF TypeOK
  <2> QED BY <2>5, <2>6, <2>7, <2>8, <2>9, <2>10 DEF IInv
<1>4. CASE Register
  <2>1. /\ bk.pc = "register"
        /\ UNCHANGED <<page, chan, fr>>
    BY <1>4 DEF Register, BackAt
  <2>2. bk.n \in Loads
    BY <2>1, Typed
  <2>3. bk' \in Back
    BY <1>4, <1>b DEF Register, Back, Thread
  <2>4. /\ bk'.n = bk.n /\ bk'.pc \in {"setup", "end4"}
        /\ bk'.thread = bk.thread /\ bk'.irq = bk.irq /\ bk'.io = bk.io
        /\ bk'.notify = bk.notify /\ bk'.req_cons = bk.req_cons
    BY <1>4, <1>b DEF Register, Back
  <2>5. service' \in {service, bk.n}
    BY <1>4 DEF Register
  <2>6. TypeOK'
    BY <1>4, <1>t, <2>3, <2>2 DEF Register, Loads, TypeOK
  <2>7. ServiceInv'
    BY <1>t, <2>1, <2>2, <2>4, <2>5, Typed DEF ServiceInv, ServicePageLives, Loads,
        TypeOK
  <2>8. BackInv'
    BY <1>t, <2>1, <2>2, <2>4, <2>5, Typed DEF BackInv, Loads
  <2>9. PagesInv'
    BY <1>t, <2>1, <2>2, <2>4, <2>5, Typed DEF PagesInv
  <2>10. BackRing'
    BY <1>t, <2>1, <2>2, <2>4, <2>5, Typed DEF BackRing
  <2>11. FrontInv' /\ FrontRing'
    BY <2>1, <2>2, <2>4, <2>5, <1>t, Typed, FrontKept
  <2> QED BY <2>6, <2>7, <2>8, <2>9, <2>10, <2>11 DEF IInv
<1>5. CASE BackSetup
  <2>1. /\ bk.pc = "setup"
        /\ UNCHANGED <<service, page, chan, fr>>
    BY <1>5 DEF BackSetup, BackAt
  <2>2. bk.n \in Loads
    BY <2>1, Typed
  <2>3. bk' \in Back
    BY <1>5, <1>b DEF BackSetup, Back, Thread
  <2>4. /\ bk'.n = bk.n /\ bk'.pc = "memory" /\ bk'.thread = bk.thread
        /\ bk'.irq = bk.irq /\ bk'.io = bk.io /\ bk'.notify = bk.notify
        /\ bk'.req_cons = bk.req_cons
    BY <1>5, <1>b DEF BackSetup, Back
  <2>5. TypeOK'
    BY <1>5, <1>t, <2>3, <2>2 DEF BackSetup, TypeOK
  <2>6. ServiceInv'
    BY <1>t, <2>1, <2>2, <2>4, Typed DEF ServiceInv, ServicePageLives, Loads, TypeOK
  <2>7. BackInv'
    BY <1>t, <2>1, <2>2, <2>4, Typed DEF BackInv, Loads
  <2>8. PagesInv'
    BY <1>t, <2>1, <2>2, <2>4, Typed DEF PagesInv
  <2>9. BackRing'
    BY <1>t, <2>1, <2>2, <2>4, Typed DEF BackRing
  <2>10. FrontInv' /\ FrontRing'
    BY <2>1, <2>2, <2>4, <1>t, Typed, FrontKept
  <2> QED BY <2>5, <2>6, <2>7, <2>8, <2>9, <2>10 DEF IInv
<1>6. CASE BackStart
  <2>1. /\ bk.pc = "memory"
        /\ UNCHANGED <<service, page, chan, fr>>
    BY <1>6 DEF BackStart, BackAt
  <2>2. bk.n \in Loads
    BY <2>1, Typed
  <2>3. bk' \in Back
    BY <1>6, <1>b DEF BackStart, Started, Back, Thread
  <2>4. /\ bk'.n = bk.n /\ bk'.pc \in {"in", "end4", "bug"} /\ bk'.irq = bk.irq
        /\ bk'.io = bk.io /\ bk'.notify = bk.notify
        /\ bk'.req_cons = bk.req_cons
    BY <1>6, <1>b DEF BackStart, Back
  <2>5. TypeOK'
    BY <1>6, <1>t, <2>3, <2>2 DEF BackStart, TypeOK
  <2>6. ServiceInv'
    BY <1>t, <2>1, <2>2, <2>4, Typed DEF ServiceInv, ServicePageLives, Loads, TypeOK
  <2>7. BackInv'
    BY <1>t, <2>1, <2>2, <2>4, Typed DEF BackInv, Loads
  <2>8. PagesInv'
    BY <1>t, <2>1, <2>2, <2>4, Typed DEF PagesInv
  <2>9. BackRing'
    BY <1>t, <2>1, <2>2, <2>4, Typed DEF BackRing
  <2>10. FrontInv' /\ FrontRing'
    BY <2>1, <2>2, <2>4, <1>t, Typed, FrontKept
  <2> QED BY <2>5, <2>6, <2>7, <2>8, <2>9, <2>10 DEF IInv
<1>7. CASE BackEnd4
  <2>1. /\ bk.pc = "end4"
        /\ UNCHANGED <<service, page, fr>>
    BY <1>7 DEF BackEnd4, BackAt
  <2>2. bk.n \in Loads
    BY <2>1, Typed
  <2>3. bk' \in Back
    BY <1>7, <1>b DEF BackEnd4, Back, Thread
  <2>4. /\ bk'.n = bk.n /\ bk'.pc = "end3" /\ bk'.thread = bk.thread
        /\ bk'.io = bk.io /\ bk'.notify = bk.notify
        /\ bk'.req_cons = bk.req_cons
    BY <1>7, <1>b DEF BackEnd4, Back
  <2>5. chan' = [chan EXCEPT ![bk.n] = "closed"]
    BY <1>7 DEF BackEnd4
  <2>6. TypeOK'
    BY <1>7, <1>t, <2>3, <2>2 DEF BackEnd4, TypeOK
  <2>7. ServiceInv'
    BY <1>t, <2>1, <2>2, <2>4, <2>5, Typed DEF ServiceInv, ServicePageLives, Loads,
        TypeOK
  <2>8. BackInv'
    BY <1>t, <2>1, <2>2, <2>4, <2>5, Typed DEF BackInv, Loads
  <2>9. PagesInv'
    BY <1>t, <2>1, <2>2, <2>4, <2>5, Typed DEF PagesInv, TypeOK
  <2>10. BackRing'
    BY <1>t, <2>1, <2>2, <2>4, <2>5, Typed DEF BackRing
  <2>11. FrontInv' /\ FrontRing'
    BY <2>1, <2>2, <2>4, <2>5, <1>t, Typed, FrontKept DEF TypeOK
  <2> QED BY <2>6, <2>7, <2>8, <2>9, <2>10, <2>11 DEF IInv
<1>8. CASE BackEnd3
  <2>1. /\ bk.pc = "end3"
        /\ UNCHANGED <<service, page, fr>>
    BY <1>8 DEF BackEnd3, BackAt
  <2>2. bk.n \in Loads
    BY <2>1, Typed
  <2>3. bk' \in Back
    BY <1>8, <1>b DEF BackEnd3, Back, Thread
  <2>4. /\ bk'.n = bk.n /\ bk'.pc \in {"bug", "end2"} /\ bk'.thread = bk.thread
        /\ bk'.irq = bk.irq /\ bk'.io = bk.io /\ bk'.notify = bk.notify
        /\ bk'.req_cons = bk.req_cons
    BY <1>8, <1>b DEF BackEnd3, Back
  <2>5. chan' = chan \/ chan' = [chan EXCEPT ![bk.n] = "closed"]
    BY <1>8 DEF BackEnd3
  <2>6. bk'.pc = "end2" => chan[bk.n] # "closed"
    BY <1>8, <1>b DEF BackEnd3, Back
  <2>7. TypeOK'
    BY <1>8, <1>t, <2>3, <2>2 DEF BackEnd3, TypeOK
  <2>8. ServiceInv'
    BY <1>t, <2>1, <2>2, <2>4, <2>5, <2>6, Typed DEF ServiceInv, ServicePageLives,
        Loads, TypeOK
  <2>9. BackInv'
    BY <1>t, <2>1, <2>2, <2>4, <2>5, <2>6, Typed DEF BackInv, Loads
  <2>10. PagesInv'
    BY <1>t, <2>1, <2>2, <2>4, <2>5, <2>6, Typed DEF PagesInv, TypeOK
  <2>11. BackRing'
    BY <1>t, <2>1, <2>2, <2>4, <2>5, <2>6, Typed DEF BackRing
  <2>12. FrontInv' /\ FrontRing'
    BY <2>1, <2>2, <2>4, <2>5, <2>6, <1>t, Typed, FrontKept DEF TypeOK
  <2> QED BY <2>7, <2>8, <2>9, <2>10, <2>11, <2>12 DEF IInv
<1>9. CASE BackEnd2
  <2>1. /\ bk.pc = "end2"
        /\ UNCHANGED <<service, chan, fr>>
    BY <1>9 DEF BackEnd2, BackAt
  <2>2. bk.n \in Loads
    BY <2>1, Typed
  <2>3. bk' \in Back
    BY <1>9, <1>b, LifecycleAssumption DEF BackEnd2, NewBack, Back, Thread
  <2>4. /\ bk'.n = bk.n /\ bk'.pc = "out" /\ bk'.thread = "none" /\ ~bk'.irq
        /\ bk'.io = 0 /\ ~bk'.notify /\ bk'.req_cons = 0
    BY <1>9, <1>b DEF BackEnd2, NewBack, Back
  <2>5. page[bk.n] \in Shared
    BY <2>2, <1>p
  <2>6. /\ [page[bk.n] EXCEPT !.granted = FALSE] \in Shared
        /\ [page[bk.n] EXCEPT !.granted = FALSE].req_prod = page[bk.n].req_prod
        /\ [page[bk.n] EXCEPT !.granted = FALSE].rsp_prod = page[bk.n].rsp_prod
        /\ [page[bk.n] EXCEPT !.granted = FALSE].granted = FALSE
    BY <2>5 DEF Shared, SLEEPING, RUNNING
  <2>7. page' = [page EXCEPT ![bk.n] = [page[bk.n] EXCEPT !.granted = FALSE]]
    BY <1>9 DEF BackEnd2
  <2>8. page' \in [Loads -> Shared]
    BY <2>6, <2>7, <2>2, <1>p
  <2>9. \A n \in Loads :
          /\ page'[n].req_prod = page[n].req_prod
          /\ page'[n].rsp_prod = page[n].rsp_prod
          /\ n # bk.n => page'[n].granted = page[n].granted
    BY <2>6, <2>7, <1>p
  <2>10. TypeOK'
    BY <1>9, <1>t, <2>3, <2>8, <2>2 DEF BackEnd2, TypeOK
  <2>11. ServiceInv'
    BY <1>t, <2>1, <2>2, <2>4, <2>9, Typed DEF ServiceInv, ServicePageLives, Loads,
        TypeOK
  <2>12. BackInv'
    BY <1>t, <2>1, <2>2, <2>4, <2>9, Typed DEF BackInv, Loads
  <2>13. PagesInv'
    BY <1>t, <2>1, <2>2, <2>4, <2>9, Typed DEF PagesInv
  <2>14. BackRing'
    BY <1>t, <2>1, <2>2, <2>4, <2>9, Typed DEF BackRing
  <2>15. FrontInv' /\ FrontRing'
    BY <2>1, <2>2, <2>4, <2>9, <1>t, Typed, FrontKept
  <2> QED BY <2>10, <2>11, <2>12, <2>13, <2>14, <2>15 DEF IInv
<1> QED
  BY <1>1, <1>2, <1>3, <1>4, <1>5, <1>6, <1>7, <1>8, <1>9 DEF BackInit

\* blk_cleanup, the request thread, its interrupt and the completions keep it.
LEMMA BackRunStep ==
  ASSUME IInv, BackUnload \/ BackUnloaded \/ BackThread \/ BackIrq \/ Answer \/ NotifyFront
  PROVE  IInv'
<1>t. TypeOK /\ ServiceInv /\ BackInv /\ PagesInv /\ BackRing /\ FrontInv /\ FrontRing
  BY DEF IInv
<1>b. bk \in Back
  BY <1>t DEF TypeOK
<1>p. page \in [Loads -> Shared]
  BY <1>t DEF TypeOK
<1>1. CASE BackUnload
  <2>1. /\ bk.pc = "in"
        /\ UNCHANGED <<service, page, chan, fr>>
    BY <1>1 DEF BackUnload, BackAt
  <2>2. bk.n \in Loads
    BY <2>1, Typed
  <2>3. bk' \in Back
    BY <1>1, <1>b DEF BackUnload, Woken, Back, Thread
  <2>4. /\ bk'.n = bk.n /\ bk'.pc \in {"stopping", "bug"} /\ bk'.irq = bk.irq
        /\ bk'.io = bk.io /\ bk'.notify = bk.notify
        /\ bk'.req_cons = bk.req_cons
    BY <1>1, <1>b DEF BackUnload, Woken, Back
  <2>5. TypeOK'
    BY <1>1, <1>t, <2>3, <2>2 DEF BackUnload, TypeOK
  <2>6. ServiceInv'
    BY <1>t, <2>1, <2>2, <2>4, Typed DEF ServiceInv, ServicePageLives, Loads, TypeOK
  <2>7. BackInv'
    BY <1>t, <2>1, <2>2, <2>4, Typed DEF BackInv, Loads
  <2>8. PagesInv'
    BY <1>t, <2>1, <2>2, <2>4, Typed DEF PagesInv
  <2>9. BackRing'
    BY <1>t, <2>1, <2>2, <2>4, Typed DEF BackRing
  <2>10. FrontInv' /\ FrontRing'
    BY <2>1, <2>2, <2>4, <1>t, Typed, FrontKept
  <2> QED BY <2>5, <2>6, <2>7, <2>8, <2>9, <2>10 DEF IInv
<1>2. CASE BackUnloaded
  <2>1. /\ bk.pc = "stopping"
        /\ UNCHANGED <<service, page, fr>>
    BY <1>2 DEF BackUnloaded, BackAt
  <2>2. bk.n \in Loads
    BY <2>1, Typed
  <2>3. bk' \in Back
    BY <1>2, <1>b DEF BackUnloaded, NewBack, Back, Thread
  <2>4. /\ bk'.n = bk.n /\ bk'.pc = "out" /\ bk'.thread = "none" /\ ~bk'.irq
        /\ bk'.io = 0 /\ ~bk'.notify /\ bk'.req_cons = 0
    BY <1>2, <1>b DEF BackUnloaded, NewBack, Back
  <2>5. chan' = [chan EXCEPT ![bk.n] = "closed"]
    BY <1>2 DEF BackUnloaded
  <2>6. TypeOK'
    BY <1>2, <1>t, <2>3, <2>2 DEF BackUnloaded, TypeOK
  <2>7. ServiceInv'
    BY <1>t, <2>1, <2>2, <2>4, <2>5, Typed DEF ServiceInv, ServicePageLives, Loads,
        TypeOK
  <2>8. BackInv'
    BY <1>t, <2>1, <2>2, <2>4, <2>5, Typed DEF BackInv, Loads
  <2>9. PagesInv'
    BY <1>t, <2>1, <2>2, <2>4, <2>5, Typed DEF PagesInv, TypeOK
  <2>10. BackRing'
    BY <1>t, <2>1, <2>2, <2>4, <2>5, Typed DEF BackRing
  <2>11. FrontInv' /\ FrontRing'
    BY <2>1, <2>2, <2>4, <2>5, <1>t, Typed, FrontKept DEF TypeOK
  <2> QED BY <2>6, <2>7, <2>8, <2>9, <2>10, <2>11 DEF IInv
<1>3. CASE BackThreadTop
  <2>1. /\ bk.thread # "none"
        /\ UNCHANGED <<service, page, chan, fr>>
    BY <1>3 DEF BackThreadTop
  <2>2. bk.n \in Loads
    BY <2>1, Typed
  <2>3. bk' \in Back
    BY <1>3, <1>b DEF BackThreadTop, Back, Thread
  <2>4. /\ bk'.n = bk.n /\ bk'.pc = bk.pc /\ bk'.irq = bk.irq /\ bk'.io = bk.io
        /\ bk'.notify = bk.notify /\ bk'.req_cons = bk.req_cons
    BY <1>3, <1>b DEF BackThreadTop, Back
  <2>5. TypeOK'
    BY <1>3, <1>t, <2>3, <2>2 DEF BackThreadTop, TypeOK
  <2>6. ServiceInv'
    BY <1>t, <2>1, <2>2, <2>4, Typed DEF ServiceInv, ServicePageLives, Loads, TypeOK
  <2>7. BackInv'
    BY <1>t, <2>1, <2>2, <2>4, Typed DEF BackInv, Loads
  <2>8. PagesInv'
    BY <1>t, <2>1, <2>2, <2>4, Typed DEF PagesInv
  <2>9. BackRing'
    BY <1>t, <2>1, <2>2, <2>4, Typed DEF BackRing
  <2>10. FrontInv' /\ FrontRing'
    BY <2>1, <2>2, <2>4, <1>t, Typed, FrontKept
  <2> QED BY <2>5, <2>6, <2>7, <2>8, <2>9, <2>10 DEF IInv
<1>4. CASE BackThreadWait
  <2>1. /\ bk.thread # "none"
        /\ UNCHANGED <<service, page, chan, fr>>
    BY <1>4 DEF BackThreadWait
  <2>2. bk.n \in Loads
    BY <2>1, Typed
  <2>3. bk' \in Back
    BY <1>4, <1>b DEF BackThreadWait, Back, Thread
  <2>4. /\ bk'.n = bk.n /\ bk'.pc = bk.pc /\ bk'.irq = bk.irq /\ bk'.io = bk.io
        /\ bk'.notify = bk.notify /\ bk'.req_cons = bk.req_cons
    BY <1>4, <1>b DEF BackThreadWait, Back
  <2>5. TypeOK'
    BY <1>4, <1>t, <2>3, <2>2 DEF BackThreadWait, TypeOK
  <2>6. ServiceInv'
    BY <1>t, <2>1, <2>2, <2>4, Typed DEF ServiceInv, ServicePageLives, Loads, TypeOK
  <2>7. BackInv'
    BY <1>t, <2>1, <2>2, <2>4, Typed DEF BackInv, Loads
  <2>8. PagesInv'
    BY <1>t, <2>1, <2>2, <2>4, Typed DEF PagesInv
  <2>9. BackRing'
    BY <1>t, <2>1, <2>2, <2>4, Typed DEF BackRing
  <2>10. FrontInv' /\ FrontRing'
    BY <2>1, <2>2, <2>4, <1>t, Typed, FrontKept
  <2> QED BY <2>5, <2>6, <2>7, <2>8, <2>9, <2>10 DEF IInv
<1>5. CASE BackTakes
  <2>1. /\ bk.thread # "none" /\ bk.req_cons # page[bk.n].req_prod
        /\ UNCHANGED <<service, page, chan, fr>>
    BY <1>5 DEF BackTakes
  <2>2. bk.n \in Loads
    BY <2>1, Typed
  <2>3. bk.io + 1 \in Nat /\ bk.req_cons + 1 \in Nat
    BY <2>1, Typed
  <2>4. bk' \in Back
    BY <1>5, <1>b, <2>3 DEF BackTakes, Back, Thread
  <2>5. /\ bk'.n = bk.n /\ bk'.pc = bk.pc /\ bk'.thread = bk.thread
        /\ bk'.irq = bk.irq /\ bk'.io = bk.io + 1 /\ bk'.notify = bk.notify
        /\ bk'.req_cons = bk.req_cons + 1
    BY <1>5, <1>b DEF BackTakes, Back
  <2>6. TypeOK'
    BY <1>5, <1>t, <2>4, <2>2 DEF BackTakes, TypeOK
  <2>7. ServiceInv'
    BY <1>t, <2>1, <2>2, <2>5, Typed DEF ServiceInv, ServicePageLives, Loads, TypeOK
  <2>8. BackInv'
    BY <1>t, <2>1, <2>2, <2>5, Typed DEF BackInv, Loads
  <2>9. PagesInv'
    BY <1>t, <2>1, <2>2, <2>5, Typed DEF PagesInv
  <2>10. BackRing'
    BY <1>t, <2>1, <2>2, <2>5, Typed DEF BackRing, BackInv
  <2>11. FrontInv' /\ FrontRing'
    BY <2>1, <2>2, <2>5, <1>t, Typed, FrontKept
  <2> QED BY <2>6, <2>7, <2>8, <2>9, <2>10, <2>11 DEF IInv
<1>6. CASE BackRoundEnds
  <2>1. /\ bk.thread # "none"
        /\ UNCHANGED <<service, chan, fr>>
    BY <1>6 DEF BackRoundEnds
  <2>2. bk.n \in Loads
    BY <2>1, Typed
  <2>3. bk' \in Back
    BY <1>6, <1>b, ZenonT(60) DEF BackRoundEnds, Back, Thread
  <2>4. /\ bk'.n = bk.n /\ bk'.pc = bk.pc /\ bk'.irq = bk.irq /\ bk'.io = bk.io
        /\ bk'.notify = bk.notify /\ bk'.req_cons = bk.req_cons
    BY <1>6, <1>b DEF BackRoundEnds, Back
  <2>5. page[bk.n] \in Shared
    BY <2>2, <1>p
  <2>6. /\ [page[bk.n] EXCEPT !.req_status = SLEEPING] \in Shared
        /\ [page[bk.n] EXCEPT !.req_status = SLEEPING].granted = page[bk.n].granted
        /\ [page[bk.n] EXCEPT !.req_status = SLEEPING].req_prod = page[bk.n].req_prod
        /\ [page[bk.n] EXCEPT !.req_status = SLEEPING].rsp_prod = page[bk.n].rsp_prod
    BY <2>5 DEF Shared, SLEEPING, RUNNING
  <2>7. \/ page' = page
        \/ page' = [page EXCEPT ![bk.n] = [page[bk.n] EXCEPT !.req_status = SLEEPING]]
    BY <1>6 DEF BackRoundEnds
  <2>8. page' \in [Loads -> Shared]
    BY <2>6, <2>7, <2>2, <1>p
  <2>9. \A n \in Loads :
          /\ page'[n].granted = page[n].granted
          /\ page'[n].req_prod = page[n].req_prod
          /\ page'[n].rsp_prod = page[n].rsp_prod
    BY <2>6, <2>7, <1>p
  <2>10. TypeOK'
    BY <1>6, <1>t, <2>3, <2>8, <2>2 DEF BackRoundEnds, TypeOK
  <2>11. ServiceInv'
    BY <1>t, <2>1, <2>2, <2>4, <2>9, Typed DEF ServiceInv, ServicePageLives, Loads,
        TypeOK
  <2>12. BackInv'
    BY <1>t, <2>1, <2>2, <2>4, <2>9, Typed DEF BackInv, Loads
  <2>13. PagesInv'
    BY <1>t, <2>1, <2>2, <2>4, <2>9, Typed DEF PagesInv
  <2>14. BackRing'
    BY <1>t, <2>1, <2>2, <2>4, <2>9, Typed DEF BackRing
  <2>15. FrontInv' /\ FrontRing'
    BY <2>1, <2>2, <2>4, <2>9, <1>t, Typed, FrontKept
  <2> QED BY <2>10, <2>11, <2>12, <2>13, <2>14, <2>15 DEF IInv
<1>7. CASE BackIrq
  <2>1. /\ bk.irq
        /\ UNCHANGED <<service, chan, fr>>
    BY <1>7 DEF BackIrq
  <2>2. bk.n \in Loads
    BY <2>1, Typed
  <2>3. bk' \in Back
    BY <1>7, <1>b, ZenonT(60) DEF BackIrq, Woken, Back, Thread
  <2>4. /\ bk'.n = bk.n /\ bk'.pc = bk.pc /\ bk'.irq = bk.irq /\ bk'.io = bk.io
        /\ bk'.notify = bk.notify /\ bk'.req_cons = bk.req_cons
    BY <1>7, <1>b DEF BackIrq, Woken, Back
  <2>5. page[bk.n] \in Shared
    BY <2>2, <1>p
  <2>6. /\ [page[bk.n] EXCEPT !.req_status = RUNNING] \in Shared
        /\ [page[bk.n] EXCEPT !.req_status = RUNNING].granted = page[bk.n].granted
        /\ [page[bk.n] EXCEPT !.req_status = RUNNING].req_prod = page[bk.n].req_prod
        /\ [page[bk.n] EXCEPT !.req_status = RUNNING].rsp_prod = page[bk.n].rsp_prod
    BY <2>5 DEF Shared, SLEEPING, RUNNING
  <2>7. page' = [page EXCEPT ![bk.n] = [page[bk.n] EXCEPT !.req_status = RUNNING]]
    BY <1>7 DEF BackIrq
  <2>8. page' \in [Loads -> Shared]
    BY <2>6, <2>7, <2>2, <1>p
  <2>9. \A n \in Loads :
          /\ page'[n].granted = page[n].granted
          /\ page'[n].req_prod = page[n].req_prod
          /\ page'[n].rsp_prod = page[n].rsp_prod
    BY <2>6, <2>7, <1>p
  <2>10. TypeOK'
    BY <1>7, <1>t, <2>3, <2>8, <2>2 DEF BackIrq, TypeOK
  <2>11. ServiceInv'
    BY <1>t, <2>1, <2>2, <2>4, <2>9, Typed DEF ServiceInv, ServicePageLives, Loads,
        TypeOK
  <2>12. BackInv'
    BY <1>t, <2>1, <2>2, <2>4, <2>9, Typed DEF BackInv, Loads
  <2>13. PagesInv'
    BY <1>t, <2>1, <2>2, <2>4, <2>9, Typed DEF PagesInv
  <2>14. BackRing'
    BY <1>t, <2>1, <2>2, <2>4, <2>9, Typed DEF BackRing
  <2>15. FrontInv' /\ FrontRing'
    BY <2>1, <2>2, <2>4, <2>9, <1>t, Typed, FrontKept
  <2> QED BY <2>10, <2>11, <2>12, <2>13, <2>14, <2>15 DEF IInv
<1>8. CASE Answer
  <2>1. /\ bk.io > 0
        /\ UNCHANGED <<service, chan, fr>>
    BY <1>8 DEF Answer
  <2>2. bk.n \in Loads
    BY <2>1, Typed
  <2>3. bk.io - 1 \in Nat
    BY <2>1, Typed
  <2>4. bk' \in Back
    BY <1>8, <1>b, <2>3 DEF Answer, Back, Thread
  <2>5. /\ bk'.n = bk.n /\ bk'.pc = bk.pc /\ bk'.thread = bk.thread
        /\ bk'.irq = bk.irq /\ bk'.io = bk.io - 1 /\ bk'.req_cons = bk.req_cons
    BY <1>8, <1>b DEF Answer, Back
  <2>6. page[bk.n] \in Shared
    BY <2>2, <1>p
  <2>7. /\ [page[bk.n] EXCEPT !.rsp_prod = @ + 1] \in Shared
        /\ [page[bk.n] EXCEPT !.rsp_prod = @ + 1].granted = page[bk.n].granted
        /\ [page[bk.n] EXCEPT !.rsp_prod = @ + 1].req_prod = page[bk.n].req_prod
        /\ [page[bk.n] EXCEPT !.rsp_prod = @ + 1].rsp_prod = page[bk.n].rsp_prod + 1
    BY <2>6 DEF Shared, SLEEPING, RUNNING
  <2>8. page' = [page EXCEPT ![bk.n] = [page[bk.n] EXCEPT !.rsp_prod = @ + 1]]
    BY <1>8 DEF Answer
  <2>9. page' \in [Loads -> Shared]
    BY <2>7, <2>8, <2>2, <1>p
  <2>10. \A n \in Loads :
           /\ page'[n].granted = page[n].granted
           /\ page'[n].req_prod = page[n].req_prod
           /\ n # bk.n => page'[n].rsp_prod = page[n].rsp_prod
           /\ n = bk.n => page'[n].rsp_prod = page[n].rsp_prod + 1
    BY <2>7, <2>8, <1>p
  <2>11. TypeOK'
    BY <1>8, <1>t, <2>4, <2>9, <2>2 DEF Answer, TypeOK
  <2>12. ServiceInv'
    BY <1>t, <2>1, <2>2, <2>5, <2>10, Typed DEF ServiceInv, ServicePageLives, Loads,
        TypeOK
  <2>13. BackInv'
    BY <1>t, <2>1, <2>2, <2>5, <2>10, Typed DEF BackInv, Loads
  <2>14. PagesInv'
    <3>1. bk.pc \notin {"out", "bug"}
      BY <1>8, <1>t, <2>1 DEF Answer, BackDead, BackInv
    <3>2. page[bk.n].rsp_prod + 1 <= page[bk.n].req_prod
      BY <1>t, <2>1, <2>2, <3>1, Typed DEF BackRing
    <3>3. \A n \in Loads : page'[n].rsp_prod <= page'[n].req_prod
      BY <1>t, <2>10, <3>2 DEF PagesInv
    <3> QED BY <1>t, <2>1, <2>10, <3>3 DEF PagesInv
  <2>15. BackRing'
    BY <1>t, <2>1, <2>2, <2>5, <2>10, Typed DEF BackRing, BackInv
  <2>16. FrontInv' /\ FrontRing'
    BY <2>1, <2>2, <2>5, <2>10, <1>t, Typed, FrontKept
  <2> QED BY <2>11, <2>12, <2>13, <2>14, <2>15, <2>16 DEF IInv
<1>9. CASE NotifyFront
  <2>1. /\ bk.notify
        /\ UNCHANGED <<service, page, chan, fr>>
    BY <1>9 DEF NotifyFront
  <2>2. bk.n \in Loads
    BY <2>1, Typed
  <2>3. bk' \in Back
    BY <1>9, <1>b DEF NotifyFront, Back, Thread
  <2>4. /\ bk'.n = bk.n /\ bk'.pc = bk.pc /\ bk'.thread = bk.thread
        /\ bk'.irq = bk.irq /\ bk'.io = bk.io /\ bk'.req_cons = bk.req_cons
    BY <1>9, <1>b DEF NotifyFront, Back
  <2>5. TypeOK'
    BY <1>9, <1>t, <2>3, <2>2 DEF NotifyFront, TypeOK
  <2>6. ServiceInv'
    BY <1>t, <2>1, <2>2, <2>4, Typed DEF ServiceInv, ServicePageLives, Loads, TypeOK
  <2>7. BackInv'
    BY <1>t, <2>1, <2>2, <2>4, Typed DEF BackInv, Loads
  <2>8. PagesInv'
    BY <1>t, <2>1, <2>2, <2>4, Typed DEF PagesInv
  <2>9. BackRing'
    BY <1>t, <2>1, <2>2, <2>4, Typed DEF BackRing
  <2>10. FrontInv' /\ FrontRing'
    BY <2>1, <2>2, <2>4, <1>t, Typed, FrontKept
  <2> QED BY <2>5, <2>6, <2>7, <2>8, <2>9, <2>10 DEF IInv
<1> QED
  BY <1>1, <1>2, <1>3, <1>4, <1>5, <1>6, <1>7, <1>8, <1>9 DEF BackThread

\* idd_init and idd_cleanup keep it.
LEMMA FrontInitStep ==
  ASSUME IInv, Connect \/ FrontInit \/ FrontUnload \/ FrontUnloaded \/ FrontUnloadDead
  PROVE  IInv'
<1>t. TypeOK /\ ServiceInv /\ BackInv /\ PagesInv /\ BackRing /\ FrontInv /\ FrontRing
  BY DEF IInv
<1>f. fr \in Front
  BY <1>t DEF TypeOK
<1>1. CASE Connect
  <2>1. /\ fr.pc = "out" /\ fr.n < MaxLoads
        /\ UNCHANGED <<service, page, chan, bk>>
    BY <1>1 DEF Connect, FrontAt
  <2>2. NewFront(fr.n + 1) \in Front /\ fr.irqs \in SUBSET Loads
    BY <2>1, Typed DEF NewFront, Front, Thread
  <2>3. fr' \in Front
    <3>1. service \in 0 .. MaxLoads
      BY Typed
    <3>2. \/ fr' = [NewFront(fr.n + 1) EXCEPT !.irqs = fr.irqs]
          \/ fr' = [[NewFront(fr.n + 1) EXCEPT !.irqs = fr.irqs]
                     EXCEPT !.pc = "bind", !.on = service]
      BY <1>1 DEF Connect
    <3>3. [NewFront(fr.n + 1) EXCEPT !.irqs = fr.irqs] \in Front
      BY <2>2 DEF Front
    <3> QED BY <3>1, <3>2, <3>3, ZenonT(60) DEF Front
  <2>4. /\ fr'.thread = "none" /\ ~fr'.disk /\ ~fr'.poll /\ fr'.req_prod = 0
        /\ fr'.rsp_cons = 0
    BY <1>1, <1>f DEF Connect, NewFront
  <2>5. \/ fr'.on = 0 /\ fr'.pc = "out"
        \/ fr'.on = service /\ service # 0 /\ fr'.pc = "bind"
    BY <1>1, <1>f DEF Connect, NewFront
  <2>6. TypeOK'
    BY <1>1, <1>t, <2>3 DEF Connect, TypeOK
  <2>7. ServiceInv' /\ BackInv'
    BY <2>1, <2>4, <2>5, <1>t, BackKept DEF TypeOK
  <2>8. PagesInv'
    BY <1>t, <2>1, <2>4, <2>5, Typed DEF PagesInv
  <2>9. BackRing'
    BY <1>t, <2>1, <2>4, <2>5, Typed DEF BackRing
  <2>10. FrontInv'
    BY <1>t, <2>1, <2>4, <2>5, Typed DEF FrontInv
  <2>11. FrontRing'
    BY <1>t, <2>1, <2>4, <2>5, Typed DEF FrontRing, Page
  <2> QED BY <2>6, <2>7, <2>8, <2>9, <2>10, <2>11 DEF IInv
<1>2. CASE FrontBind
  <2>1. /\ fr.pc = "bind"
        /\ UNCHANGED <<service, page, bk>>
    BY <1>2 DEF FrontBind, FrontAt
  <2>2. fr.on \in Loads
    BY <2>1, Typed
  <2>3. NewFront(fr.n) \in Front /\ fr.irqs \in SUBSET Loads
    BY Typed DEF NewFront, Front, Thread
  <2>4. fr' \in Front
    <3>1. \/ fr' = [NewFront(fr.n) EXCEPT !.irqs = fr.irqs]
          \/ fr' = [fr EXCEPT !.pc = "disk", !.irqs = fr.irqs \cup {fr.on}]
      BY <1>2, <1>f DEF FrontBind, FrontOut, Front
    <3>2. fr.irqs \cup {fr.on} \in SUBSET Loads
      BY <2>2, <2>3
    <3> QED BY <1>f, <2>3, <3>1, <3>2, ZenonT(60) DEF Front
  <2>5. \/ /\ fr'.on = 0 /\ fr'.pc = "out" /\ fr'.thread = "none" /\ ~fr'.disk /\ ~fr'.poll
        \/ /\ fr'.on = fr.on /\ fr.on # 0 /\ fr'.pc = "disk"
           /\ fr'.thread = "none" /\ ~fr'.poll /\ ~fr'.disk
           /\ fr'.req_prod = 0 /\ fr'.rsp_cons = 0
    BY <1>2, <1>t, <1>f DEF FrontBind, FrontOut, NewFront, FrontAt, FrontInv, Front
  <2>6. \/ fr'.pc = "out" /\ chan' = chan
        \/ /\ fr'.pc = "disk" /\ chan[fr.on] = "unbound"
           /\ chan' = [chan EXCEPT ![fr.on] = "bound"]
    BY <1>2, <1>f DEF FrontBind, FrontOut, NewFront, Front
  <2>7. chan[fr.on] = "unbound" => page[fr.on].req_prod = 0
    BY <1>t, <2>2 DEF PagesInv
  <2>8. TypeOK'
    BY <1>2, <1>t, <2>4, <2>2 DEF FrontBind, TypeOK
  <2>9. ServiceInv' /\ BackInv'
    BY <2>1, <2>2, <2>5, <2>6, <2>7, <1>t, BackKept DEF TypeOK
  <2>10. PagesInv'
    BY <1>t, <2>1, <2>2, <2>5, <2>6, <2>7, Typed DEF PagesInv, TypeOK
  <2>11. BackRing'
    BY <1>t, <2>1, <2>2, <2>5, <2>6, <2>7, Typed DEF BackRing
  <2>12. FrontInv'
    <3>1. CASE fr'.on = 0
      BY <2>1, <2>5, <3>1, Typed DEF FrontInv
    <3>2. CASE fr'.on # 0
      BY <1>t, <2>1, <2>2, <2>5, <3>2, Typed DEF FrontInv
    <3> QED BY <3>1, <3>2
  <2>13. fr'.pc = "disk" => /\ fr'.on = fr.on /\ fr'.req_prod = 0 /\ fr'.rsp_cons = 0
                            /\ page[fr.on].req_prod = 0 /\ chan'[fr.on] = "bound"
    BY <1>t, <2>2, <2>5, <2>6, <2>7 DEF TypeOK
  <2>14. fr'.pc \in {"out", "disk"} /\ page[fr.on].rsp_prod \in Nat
    BY <2>2, <2>5, Typed
  <2>15. FrontRing'
    <3>1. fr'.pc = "disk" => fr'.rsp_cons <= page'[fr'.on].rsp_prod
      BY <2>1, <2>13, <2>14
    <3>2. fr'.pc = "disk" => fr'.req_prod = page'[fr'.on].req_prod /\ chan'[fr'.on] = "bound"
      BY <2>1, <2>13
    <3> QED BY <2>14, <3>1, <3>2 DEF FrontRing, Page
  <2> QED BY <2>8, <2>9, <2>10, <2>11, <2>12, <2>15 DEF IInv
<1>3. CASE AddDisk
  <2>1. /\ fr.pc = "disk"
        /\ UNCHANGED <<service, page, bk>>
    BY <1>3 DEF AddDisk, FrontAt
  <2>2. fr.on \in Loads
    BY <2>1, Typed
  <2>3. fr' \in Front
    BY <1>3, <1>f, ZenonT(60) DEF AddDisk, Front, Thread
  <2>4. /\ fr'.on = fr.on /\ fr'.pc \in {"thread", "dead"}
        /\ fr'.thread = fr.thread
        /\ fr'.pc = "dead" => fr'.disk = fr.disk
        /\ fr'.poll = fr.poll /\ fr'.req_prod = fr.req_prod
        /\ fr'.rsp_cons = fr.rsp_cons
    BY <1>3, <1>f DEF AddDisk, Front
  <2>5. chan' = chan \/ chan' = [chan EXCEPT ![fr.on] = IF @ = "bound" THEN "unbound" ELSE @]
    BY <1>3 DEF AddDisk
  <2>6. page[fr.on].req_prod = 0
    BY <2>1, <1>t DEF FrontInv, FrontRing, Page
  <2>7. fr'.pc = "thread" => chan' = chan
    BY <1>3, <1>f DEF AddDisk, Front
  <2>8. TypeOK'
    BY <1>3, <1>t, <2>3, <2>2 DEF AddDisk, TypeOK
  <2>9. ServiceInv' /\ BackInv'
    BY <2>1, <2>2, <2>4, <2>5, <2>6, <2>7, <1>t, BackKept DEF TypeOK
  <2>10. PagesInv'
    BY <1>t, <2>1, <2>2, <2>4, <2>5, <2>6, <2>7, Typed DEF PagesInv, TypeOK
  <2>11. BackRing'
    BY <1>t, <2>1, <2>2, <2>4, <2>5, <2>6, <2>7, Typed DEF BackRing
  <2>12. FrontInv'
    BY <1>t, <2>1, <2>2, <2>4, <2>5, <2>6, <2>7, Typed DEF FrontInv
  <2>13. FrontRing'
    BY <1>t, <2>1, <2>2, <2>4, <2>5, <2>6, <2>7, Typed DEF FrontRing, Page, TypeOK
  <2> QED BY <2>8, <2>9, <2>10, <2>11, <2>12, <2>13 DEF IInv
<1>4. CASE FrontStart
  <2>1. /\ fr.pc = "thread"
        /\ UNCHANGED <<service, page, chan, bk>>
    BY <1>4 DEF FrontStart, FrontAt
  <2>2. fr.on \in Loads
    BY <2>1, Typed
  <2>3. fr' \in Front
    <3>1. PICK thread \in Started : fr' = [fr EXCEPT !.pc = "wait queue", !.thread = thread]
      BY <1>4 DEF FrontStart
    <3>2. thread \in Thread
      BY DEF Started, Thread
    <3> QED BY <1>f, <3>1, <3>2 DEF Front
  <2>4. /\ fr'.on = fr.on /\ fr'.pc = "wait queue" /\ fr'.disk = fr.disk
        /\ fr'.poll = fr.poll /\ fr'.req_prod = fr.req_prod
        /\ fr'.rsp_cons = fr.rsp_cons
    BY <1>4, <1>f DEF FrontStart, Front
  <2>5. TypeOK'
    BY <1>4, <1>t, <2>3, <2>2 DEF FrontStart, TypeOK
  <2>6. ServiceInv' /\ BackInv'
    BY <2>1, <2>2, <2>4, <1>t, BackKept DEF TypeOK
  <2>7. PagesInv'
    BY <1>t, <2>1, <2>2, <2>4, Typed DEF PagesInv
  <2>8. BackRing'
    BY <1>t, <2>1, <2>2, <2>4, Typed DEF BackRing
  <2>9. FrontInv'
    BY <1>t, <2>1, <2>2, <2>4, Typed DEF FrontInv
  <2>10. FrontRing'
    BY <1>t, <2>1, <2>2, <2>4, Typed DEF FrontRing, Page
  <2> QED BY <2>5, <2>6, <2>7, <2>8, <2>9, <2>10 DEF IInv
<1>5. CASE FrontInitQueue
  <2>1. /\ fr.pc = "wait queue"
        /\ UNCHANGED <<service, page, chan, bk>>
    BY <1>5 DEF FrontInitQueue, FrontAt
  <2>2. fr.on \in Loads
    BY <2>1, Typed
  <2>3. fr' \in Front
    BY <1>5, <1>f DEF FrontInitQueue, Front, Thread
  <2>4. /\ fr'.on = fr.on /\ fr'.pc = "in" /\ fr'.thread = fr.thread
        /\ fr'.disk = fr.disk /\ fr'.poll = fr.poll
        /\ fr'.req_prod = fr.req_prod /\ fr'.rsp_cons = fr.rsp_cons
    BY <1>5, <1>f DEF FrontInitQueue, Front
  <2>5. TypeOK'
    BY <1>5, <1>t, <2>3, <2>2 DEF FrontInitQueue, TypeOK
  <2>6. ServiceInv' /\ BackInv'
    BY <2>1, <2>2, <2>4, <1>t, BackKept DEF TypeOK
  <2>7. PagesInv'
    BY <1>t, <2>1, <2>2, <2>4, Typed DEF PagesInv
  <2>8. BackRing'
    BY <1>t, <2>1, <2>2, <2>4, Typed DEF BackRing
  <2>9. FrontInv'
    BY <1>t, <2>1, <2>2, <2>4, Typed DEF FrontInv
  <2>10. FrontRing'
    BY <1>t, <2>1, <2>2, <2>4, Typed DEF FrontRing, Page
  <2> QED BY <2>5, <2>6, <2>7, <2>8, <2>9, <2>10 DEF IInv
<1>6. CASE FrontUnload
  <2>1. /\ fr.pc = "in"
        /\ UNCHANGED <<service, page, chan, bk>>
    BY <1>6 DEF FrontUnload, FrontAt
  <2>2. fr.on \in Loads
    BY <2>1, Typed
  <2>3. fr' \in Front
    <3>1. \/ fr' = fr
          \/ fr' = [fr EXCEPT !.pc = "stopping", !.stop = TRUE, !.thread = Woken(fr.thread)]
      BY <1>6 DEF FrontUnload
    <3>2. Woken(fr.thread) \in Thread
      BY <1>f DEF Front, Woken, Thread
    <3> QED BY <1>f, <3>1, <3>2 DEF Front
  <2>4. /\ fr'.on = fr.on /\ fr'.pc \in {"in", "stopping"} /\ fr'.disk = fr.disk
        /\ fr'.poll = fr.poll /\ fr'.req_prod = fr.req_prod
        /\ fr'.rsp_cons = fr.rsp_cons
    <3>1. \/ fr' = fr
          \/ fr' = [fr EXCEPT !.pc = "stopping", !.stop = TRUE, !.thread = Woken(fr.thread)]
      BY <1>6 DEF FrontUnload
    <3> QED BY <1>f, <2>1, <3>1 DEF Front
  <2>5. TypeOK'
    BY <1>6, <1>t, <2>3, <2>2 DEF FrontUnload, TypeOK
  <2>6. ServiceInv' /\ BackInv'
    BY <2>1, <2>2, <2>4, <1>t, BackKept DEF TypeOK
  <2>7. PagesInv'
    BY <1>t, <2>1, <2>2, <2>4, Typed DEF PagesInv
  <2>8. BackRing'
    BY <1>t, <2>1, <2>2, <2>4, Typed DEF BackRing
  <2>9. FrontInv'
    BY <1>t, <2>1, <2>2, <2>4, Typed DEF FrontInv
  <2>10. FrontRing'
    BY <1>t, <2>1, <2>2, <2>4, Typed DEF FrontRing, Page
  <2> QED BY <2>5, <2>6, <2>7, <2>8, <2>9, <2>10 DEF IInv
<1>7. CASE FrontUnloaded
  <2>1. /\ fr.pc = "stopping"
        /\ UNCHANGED <<service, page, chan, bk>>
    BY <1>7 DEF FrontUnloaded, FrontAt
  <2>2. fr.on \in Loads
    BY <2>1, Typed
  <2>3. NewFront(fr.n) \in Front /\ fr.irqs \in SUBSET Loads
    BY Typed DEF NewFront, Front, Thread
  <2>4. fr' \in Front
    BY <1>7, <1>f, <2>3 DEF FrontUnloaded, FrontOut, Front
  <2>5. /\ fr'.on = 0 /\ fr'.pc = "out" /\ fr'.thread = "none" /\ ~fr'.disk
        /\ ~fr'.poll
    BY <1>7, <1>f DEF FrontUnloaded, FrontOut, NewFront, Front
  <2>6. TypeOK'
    BY <1>7, <1>t, <2>4, <2>2 DEF FrontUnloaded, TypeOK
  <2>7. ServiceInv' /\ BackInv'
    BY <2>1, <2>2, <2>5, <1>t, BackKept DEF TypeOK
  <2>8. PagesInv'
    BY <1>t, <2>1, <2>2, <2>5, Typed DEF PagesInv
  <2>9. BackRing'
    BY <1>t, <2>1, <2>2, <2>5, Typed DEF BackRing
  <2>10. FrontInv'
    BY <1>t, <2>1, <2>2, <2>5, Typed DEF FrontInv
  <2>11. FrontRing'
    BY <1>t, <2>1, <2>2, <2>5, Typed DEF FrontRing, Page
  <2> QED BY <2>6, <2>7, <2>8, <2>9, <2>10, <2>11 DEF IInv
<1>8. CASE FrontUnloadDead
  <2>1. UNCHANGED <<service, page, chan, bk, fr>>
    BY <1>8 DEF FrontUnloadDead
  <2>2. TypeOK'
    BY <1>8, <1>t DEF FrontUnloadDead, TypeOK
  <2>3. ServiceInv' /\ BackInv'
    BY <2>1, <1>t, BackKept DEF TypeOK
  <2>4. PagesInv'
    BY <1>t, <2>1, Typed DEF PagesInv
  <2>5. BackRing'
    BY <1>t, <2>1, Typed DEF BackRing
  <2>6. FrontInv'
    BY <1>t, <2>1, Typed DEF FrontInv
  <2>7. FrontRing'
    BY <1>t, <2>1, Typed DEF FrontRing, Page
  <2> QED BY <2>2, <2>3, <2>4, <2>5, <2>6, <2>7 DEF IInv
<1> QED
  BY <1>1, <1>2, <1>3, <1>4, <1>5, <1>6, <1>7, <1>8 DEF FrontInit

\* The request path, the response thread and the interrupts of the front end keep it.
LEMMA FrontRunStep ==
  ASSUME IInv, Submit \/ Poll \/ FrontThread \/ \E n \in Loads : FrontIrq(n)
  PROVE  IInv'
<1>t. TypeOK /\ ServiceInv /\ BackInv /\ PagesInv /\ BackRing /\ FrontInv /\ FrontRing
  BY DEF IInv
<1>f. fr \in Front
  BY <1>t DEF TypeOK
<1>p. page \in [Loads -> Shared]
  BY <1>t DEF TypeOK
<1>1. CASE Submit
  <2>1. /\ fr.disk
        /\ UNCHANGED <<service, chan, bk>>
    BY <1>1 DEF Submit
  <2>2. fr.on \in Loads
    BY <2>1, Typed
  <2>3. fr.req_prod + 1 \in Nat
    BY Typed
  <2>4. fr' \in Front
    BY <1>1, <1>f, <2>3 DEF Submit, Front, Thread
  <2>5. /\ fr'.on = fr.on /\ fr'.pc = fr.pc /\ fr'.thread = fr.thread
        /\ fr'.disk = fr.disk /\ fr'.req_prod = fr.req_prod + 1
        /\ fr'.rsp_cons = fr.rsp_cons
    BY <1>1, <1>f DEF Submit, Front
  <2>6. fr.pc \in {"thread", "wait queue", "in", "stopping"}
    BY <1>f, <2>1, <1>t DEF FrontInv, Front
  <2>7. fr.req_prod = page[fr.on].req_prod /\ chan[fr.on] # "unbound"
    BY <2>6, <2>2, <1>t DEF FrontRing, Page
  <2>8. bk.pc = "evtchn" => service # bk.n
    BY <1>t DEF ServiceInv
  <2>9. bk.pc = "evtchn" => fr.on # bk.n
    BY Typed, <2>8
  <2>10. page[fr.on] \in Shared
    BY <2>2, <1>p
  <2>11. /\ [page[fr.on] EXCEPT !.req_prod = fr.req_prod + 1] \in Shared
         /\ [page[fr.on] EXCEPT !.req_prod = fr.req_prod + 1].granted = page[fr.on].granted
         /\ [page[fr.on] EXCEPT !.req_prod = fr.req_prod + 1].rsp_prod = page[fr.on].rsp_prod
         /\ [page[fr.on] EXCEPT !.req_prod = fr.req_prod + 1].req_prod = fr.req_prod + 1
    BY <2>10, <2>3 DEF Shared, SLEEPING, RUNNING
  <2>12. page' = [page EXCEPT ![fr.on] = [page[fr.on] EXCEPT !.req_prod = fr.req_prod + 1]]
    BY <1>1 DEF Submit
  <2>13. page' \in [Loads -> Shared]
    BY <2>11, <2>12, <2>2, <1>p
  <2>14. \A n \in Loads :
           /\ page'[n].granted = page[n].granted
           /\ page'[n].rsp_prod = page[n].rsp_prod
           /\ n # fr.on => page'[n].req_prod = page[n].req_prod
           /\ n = fr.on => page'[n].req_prod = page[n].req_prod + 1
    BY <2>7, <2>11, <2>12, <1>p
  <2>15. TypeOK'
    BY <1>1, <1>t, <2>4, <2>13, <2>2 DEF Submit, TypeOK
  <2>16. ServiceInv' /\ BackInv'
    BY <2>1, <2>2, <2>5, <2>6, <2>7, <2>9, <2>14, <1>t, BackKept DEF TypeOK
  <2>17. PagesInv'
    <3>1. \A n \in Loads : page'[n].rsp_prod <= page'[n].req_prod
      BY <1>t, <2>14, Typed DEF PagesInv
    <3>2. \A n \in Loads : chan'[n] = "unbound" => page'[n].req_prod = 0
      BY <1>t, <2>1, <2>7, <2>14 DEF PagesInv
    <3> QED BY <3>1, <3>2 DEF PagesInv
  <2>18. BackRing'
    <3>1. bk.pc # "out" => bk.n \in Loads
      BY Typed
    <3>2. bk.pc = "evtchn" => page'[bk.n].req_prod = 0
      BY <1>t, <2>9, <2>14, <3>1 DEF BackRing
    <3>3. bk.pc \notin {"out", "bug"} =>
            /\ page'[bk.n].rsp_prod + bk.io = bk.req_cons
            /\ bk.req_cons <= page'[bk.n].req_prod
      BY <1>t, <2>14, <3>1, Typed DEF BackRing
    <3> QED BY <2>1, <3>2, <3>3 DEF BackRing
  <2>19. FrontInv'
    BY <1>t, <2>1, <2>2, <2>5, <2>6, <2>7, <2>9, <2>14, Typed DEF FrontInv
  <2>20. FrontRing'
    BY <1>t, <2>1, <2>2, <2>5, <2>6, <2>7, <2>9, <2>14, Typed, ZenonT(60) DEF FrontRing, Page
  <2> QED BY <2>15, <2>16, <2>17, <2>18, <2>19, <2>20 DEF IInv
<1>2. CASE Poll
  <2>1. /\ fr.poll
        /\ UNCHANGED <<service, page, chan, bk>>
    BY <1>2 DEF Poll
  <2>2. fr.on \in Loads
    BY <2>1, Typed
  <2>3. page[fr.on].rsp_prod \in Nat
    BY Typed, <2>2
  <2>4. fr' \in Front
    BY <1>2, <1>f, <2>3 DEF Poll, Page, Front, Thread
  <2>5. /\ fr'.on = fr.on /\ fr'.pc = fr.pc /\ fr'.thread = fr.thread
        /\ fr'.disk = fr.disk /\ fr'.req_prod = fr.req_prod
        /\ fr'.rsp_cons = page[fr.on].rsp_prod
    BY <1>2, <1>f DEF Poll, Page, Front
  <2>6. TypeOK'
    BY <1>2, <1>t, <2>4, <2>2 DEF Poll, TypeOK
  <2>7. ServiceInv' /\ BackInv'
    BY <2>1, <2>2, <2>5, <1>t, BackKept DEF TypeOK
  <2>8. PagesInv'
    BY <1>t, <2>1, <2>2, <2>5, Typed DEF PagesInv
  <2>9. BackRing'
    BY <1>t, <2>1, <2>2, <2>5, Typed DEF BackRing
  <2>10. FrontInv'
    BY <1>t, <2>1, <2>2, <2>5, Typed DEF FrontInv
  <2>11. FrontRing'
    <3>1. /\ chan'[fr'.on] = chan[fr.on]
          /\ page'[fr'.on].req_prod = page[fr.on].req_prod
          /\ page'[fr'.on].rsp_prod = page[fr.on].rsp_prod
      BY <2>1, <2>2, <2>5
    <3>2. fr'.rsp_cons <= page'[fr'.on].rsp_prod
      BY <2>3, <2>5, <3>1
    <3> QED BY <1>t, <2>5, <3>1, <3>2 DEF FrontRing, Page
  <2> QED BY <2>6, <2>7, <2>8, <2>9, <2>10, <2>11 DEF IInv
<1>3. CASE FrontThreadTop
  <2>1. /\ fr.thread # "none"
        /\ UNCHANGED <<service, page, chan, bk>>
    BY <1>3 DEF FrontThreadTop, FrontThreadAt
  <2>2. fr.on \in Loads
    BY <2>1, Typed
  <2>3. fr' \in Front
    BY <1>3, <1>f DEF FrontThreadTop, Front, Thread
  <2>4. /\ fr'.on = fr.on /\ fr'.pc = fr.pc /\ fr'.disk = fr.disk
        /\ fr'.poll = fr.poll /\ fr'.req_prod = fr.req_prod
        /\ fr'.rsp_cons = fr.rsp_cons
    BY <1>3, <1>f DEF FrontThreadTop, Front
  <2>5. TypeOK'
    BY <1>3, <1>t, <2>3, <2>2 DEF FrontThreadTop, TypeOK
  <2>6. ServiceInv' /\ BackInv'
    BY <2>1, <2>2, <2>4, <1>t, BackKept DEF TypeOK
  <2>7. PagesInv'
    BY <1>t, <2>1, <2>2, <2>4, Typed DEF PagesInv
  <2>8. BackRing'
    BY <1>t, <2>1, <2>2, <2>4, Typed DEF BackRing
  <2>9. FrontInv'
    BY <1>t, <2>1, <2>2, <2>4, Typed DEF FrontInv
  <2>10. FrontRing'
    BY <1>t, <2>1, <2>2, <2>4, Typed DEF FrontRing, Page
  <2> QED BY <2>5, <2>6, <2>7, <2>8, <2>9, <2>10 DEF IInv
<1>4. CASE FrontThreadWait
  <2>1. /\ fr.thread # "none"
        /\ UNCHANGED <<service, page, chan, bk>>
    BY <1>4 DEF FrontThreadWait, FrontThreadAt
  <2>2. fr.on \in Loads
    BY <2>1, Typed
  <2>3. fr' \in Front
    BY <1>4, <1>f DEF FrontThreadWait, Front, Thread
  <2>4. /\ fr'.on = fr.on /\ fr'.pc = fr.pc /\ fr'.disk = fr.disk
        /\ fr'.poll = fr.poll /\ fr'.req_prod = fr.req_prod
        /\ fr'.rsp_cons = fr.rsp_cons
    BY <1>4, <1>f DEF FrontThreadWait, Front
  <2>5. TypeOK'
    BY <1>4, <1>t, <2>3, <2>2 DEF FrontThreadWait, TypeOK
  <2>6. ServiceInv' /\ BackInv'
    BY <2>1, <2>2, <2>4, <1>t, BackKept DEF TypeOK
  <2>7. PagesInv'
    BY <1>t, <2>1, <2>2, <2>4, Typed DEF PagesInv
  <2>8. BackRing'
    BY <1>t, <2>1, <2>2, <2>4, Typed DEF BackRing
  <2>9. FrontInv'
    BY <1>t, <2>1, <2>2, <2>4, Typed DEF FrontInv
  <2>10. FrontRing'
    BY <1>t, <2>1, <2>2, <2>4, Typed DEF FrontRing, Page
  <2> QED BY <2>5, <2>6, <2>7, <2>8, <2>9, <2>10 DEF IInv
<1>5. CASE FrontThreadRound
  <2>1. /\ fr.thread # "none"
        /\ UNCHANGED <<service, chan, bk>>
    BY <1>5 DEF FrontThreadRound, FrontThreadAt
  <2>2. fr.on \in Loads
    BY <2>1, Typed
  <2>3. page[fr.on].rsp_prod \in Nat
    BY Typed, <2>2
  <2>4. fr' \in Front
    BY <1>5, <1>f, <2>3, ZenonT(60) DEF FrontThreadRound, Page, Front, Thread
  <2>5. /\ fr'.on = fr.on /\ fr'.pc = fr.pc /\ fr'.disk = fr.disk
        /\ fr'.poll = fr.poll /\ fr'.req_prod = fr.req_prod
        /\ fr'.rsp_cons = page[fr.on].rsp_prod
    BY <1>5, <1>f DEF FrontThreadRound, Page, Front
  <2>6. page[fr.on] \in Shared
    BY <2>2, <1>p
  <2>7. /\ [page[fr.on] EXCEPT !.rsp_status = SLEEPING] \in Shared
        /\ [page[fr.on] EXCEPT !.rsp_status = SLEEPING].granted = page[fr.on].granted
        /\ [page[fr.on] EXCEPT !.rsp_status = SLEEPING].req_prod = page[fr.on].req_prod
        /\ [page[fr.on] EXCEPT !.rsp_status = SLEEPING].rsp_prod = page[fr.on].rsp_prod
    BY <2>6 DEF Shared, SLEEPING, RUNNING
  <2>8. \/ page' = page
        \/ page' = [page EXCEPT ![fr.on] = [page[fr.on] EXCEPT !.rsp_status = SLEEPING]]
    BY <1>5 DEF FrontThreadRound
  <2>9. page' \in [Loads -> Shared]
    BY <2>7, <2>8, <2>2, <1>p
  <2>10. \A n \in Loads :
           /\ page'[n].granted = page[n].granted
           /\ page'[n].req_prod = page[n].req_prod
           /\ page'[n].rsp_prod = page[n].rsp_prod
    BY <2>7, <2>8, <1>p
  <2>11. TypeOK'
    BY <1>5, <1>t, <2>4, <2>9, <2>2 DEF FrontThreadRound, TypeOK
  <2>12. ServiceInv' /\ BackInv'
    BY <2>1, <2>2, <2>5, <2>10, <1>t, BackKept DEF TypeOK
  <2>13. PagesInv'
    BY <1>t, <2>1, <2>2, <2>5, <2>10, Typed DEF PagesInv
  <2>14. BackRing'
    BY <1>t, <2>1, <2>2, <2>5, <2>10, Typed DEF BackRing
  <2>15. FrontInv'
    BY <1>t, <2>1, <2>2, <2>5, <2>10, Typed DEF FrontInv
  <2>16. FrontRing'
    <3>1. /\ chan'[fr'.on] = chan[fr.on]
          /\ page'[fr'.on].req_prod = page[fr.on].req_prod
          /\ page'[fr'.on].rsp_prod = page[fr.on].rsp_prod
      BY <2>1, <2>2, <2>5, <2>10
    <3>2. fr'.rsp_cons <= page'[fr'.on].rsp_prod
      BY <2>3, <2>5, <3>1
    <3> QED BY <1>t, <2>5, <3>1, <3>2 DEF FrontRing, Page
  <2> QED BY <2>11, <2>12, <2>13, <2>14, <2>15, <2>16 DEF IInv
<1>6. CASE \E n \in Loads : FrontIrq(n)
  <2>0. PICK n \in Loads : FrontIrq(n)
    BY <1>6
  <2>1. UNCHANGED <<service, chan, bk>>
    BY <2>0 DEF FrontIrq
  <2>2. fr.thread \in Thread /\ Woken(fr.thread) \in Thread
    BY <1>f DEF Front, Thread, Woken
  <2>2a. \/ fr' = fr
        \/ fr' = [fr EXCEPT !.waiting = TRUE, !.thread = fr.thread]
        \/ fr' = [fr EXCEPT !.waiting = TRUE, !.thread = Woken(fr.thread)]
    BY <2>0 DEF FrontIrq
  <2>3. fr' \in Front
    BY <2>2, <2>2a, <1>f, ZenonT(60) DEF Front
  <2>4. /\ fr'.on = fr.on /\ fr'.pc = fr.pc
        /\ fr.pc = "out" => fr'.thread = fr.thread
        /\ fr'.disk = fr.disk /\ fr'.poll = fr.poll
        /\ fr'.req_prod = fr.req_prod /\ fr'.rsp_cons = fr.rsp_cons
    BY <2>0, <1>f, ZenonT(60) DEF FrontIrq, Woken, Page, Front
  <2>5. page[n] \in Shared
    BY <2>0, <1>p
  <2>6. /\ [page[n] EXCEPT !.rsp_status = RUNNING] \in Shared
        /\ [page[n] EXCEPT !.rsp_status = RUNNING].granted = page[n].granted
        /\ [page[n] EXCEPT !.rsp_status = RUNNING].req_prod = page[n].req_prod
        /\ [page[n] EXCEPT !.rsp_status = RUNNING].rsp_prod = page[n].rsp_prod
    BY <2>5 DEF Shared, SLEEPING, RUNNING
  <2>7. \/ page' = page
        \/ page' = [page EXCEPT ![n] = [page[n] EXCEPT !.rsp_status = RUNNING]]
    BY <2>0 DEF FrontIrq
  <2>8. page' \in [Loads -> Shared]
    BY <2>6, <2>7, <2>0, <1>p
  <2>9. \A m \in Loads :
          /\ page'[m].granted = page[m].granted
          /\ page'[m].req_prod = page[m].req_prod
          /\ page'[m].rsp_prod = page[m].rsp_prod
    BY <2>6, <2>7, <1>p
  <2>10. TypeOK'
    BY <2>0, <1>t, <2>3, <2>8, <2>0 DEF FrontIrq, TypeOK
  <2>11. ServiceInv' /\ BackInv'
    BY <2>1, <2>4, <2>9, <1>t, BackKept DEF TypeOK
  <2>12. PagesInv'
    BY <1>t, <2>1, <2>4, <2>9, Typed DEF PagesInv
  <2>13. BackRing'
    BY <1>t, <2>1, <2>4, <2>9, Typed DEF BackRing
  <2>14. FrontInv'
    <3>1. fr.pc \in {"bind", "disk", "dead"} => fr'.thread = "none"
      BY <2>0, <1>t, <1>f DEF FrontIrq, FrontInv, Woken, Front
    <3> QED BY <1>t, <2>1, <2>4, <3>1 DEF FrontInv
  <2>15. FrontRing'
    BY <1>t, <2>1, <2>4, <2>9, Typed, ZenonT(60) DEF FrontRing, Page
  <2> QED BY <2>10, <2>11, <2>12, <2>13, <2>14, <2>15 DEF IInv
<1> QED
  BY <1>1, <1>2, <1>3, <1>4, <1>5, <1>6 DEF FrontThread

LEMMA StutterInv == ASSUME IInv, UNCHANGED vars PROVE IInv'
BY ZenonT(60) DEF IInv, vars, TypeOK, ServiceInv, ServicePageLives, BackInv, PagesInv,
    BackRing, FrontInv, FrontRing, Page

LEMMA Invariance == Spec => []IInv
<1>1. ASSUME IInv, [Next]_vars PROVE IInv'
  BY <1>1, BackInitStep, BackRunStep, FrontInitStep, FrontRunStep, StutterInv DEF
      Next
<1> QED BY <1>1, InitInv, PTL DEF Spec

-----------------------------------------------------------------------------

\* Every variable has its type in every reachable state.
THEOREM TypeCorrect == Spec => []TypeOK
<1>1. IInv => TypeOK
  BY DEF IInv
<1> QED BY <1>1, Invariance, PTL

\* blk_init frees no page that it has registered, wherever it fails.
THEOREM RegisteredPageLives == Spec => []ServicePageLives
<1>1. IInv => ServicePageLives
  BY DEF IInv, ServiceInv
<1> QED BY <1>1, Invariance, PTL

\* A front end that is loaded agrees with its page on the indices, although
\* idd_init starts from 0 without looking: the page it is on is one that no
\* front end has used before it.
THEOREM LoadedInStep == Spec => []FrontInStep
<1>1. IInv => FrontInStep
  <2> SUFFICES ASSUME IInv, fr.pc \in {"thread", "wait queue", "in", "stopping"}
               PROVE  /\ fr.req_prod = Page.req_prod
                      /\ fr.rsp_cons <= Page.rsp_prod /\ Page.rsp_prod <= Page.req_prod
    BY DEF FrontInStep
  <2>1. fr.on \in Loads
    BY Typed
  <2> QED BY <2>1 DEF IInv, FrontRing, PagesInv, Page
<1> QED BY <1>1, Invariance, PTL

-----------------------------------------------------------------------------
(* Nothing wakes or sleeps on a wait queue that is not there, or runs in a   *)
(* module that is gone.  A driver whose queue is not set up yet has a page   *)
(* on which nobody has said that he sleeps, and an interrupt of the front    *)
(* end is pending only while the module that takes it is in use: at the      *)
(* unload the back end is through with the page, and one CPU has taken what  *)
(* was pending.                                                              *)

\* The front end is on page n and may be interrupted over it.
Using(n) == fr.on = n /\ fr.pc \in {"disk", "thread", "wait queue", "in"}

BackQueue ==
  /\ bk.pc \in {"memory", "in", "stopping"} => bk.wq
  /\ bk.thread \notin {"none", "failed"} => bk.pc \in {"in", "stopping"}
  /\ bk.pc \notin {"out", "bug"} /\ ~bk.wq => page[bk.n].req_status = RUNNING

FrontQueue ==
  /\ fr.pc \in {"in", "stopping"} => fr.wq
  /\ fr.pc = "stopping" => fr.stop
  /\ fr.pc = "thread" => fr.thread = "none"
  /\ fr.pc \in {"disk", "thread", "wait queue"} => Page.rsp_status = RUNNING
  /\ bk.pc = "evtchn" => page[bk.n].rsp_status = RUNNING
  /\ \A n \in Loads : chan[n] = "unbound" => page[n].rsp_status = RUNNING

\* The back end has nothing more to do for the page of its load.
Settled == Quiet /\ (bk.pc \notin {"out", "bug"} => bk.req_cons = page[bk.n].req_prod)

IrqInv ==
  /\ \A n \in fr.irqs : n <= service /\ chan[n] \in {"bound", "closed"}
  /\ \A n \in evt.front \cap fr.irqs : Using(n)
  /\ bk.n \in fr.irqs => Using(bk.n) \/ Settled

UseInv == BackQueue /\ FrontQueue /\ IrqInv /\ OrderlyUseSafe

\* A driver is on its way out of an init, or without a thread, only after the
\* step failed that leads there.
FaultInv ==
  /\ bk.pc \in {"end4", "end3"} => Faults \cap {"bind", "register", "memory"} # {}
  /\ "failed" \in {bk.thread, fr.thread} => "thread" \in Faults
  /\ fr.pc = "dead" => "disk" \in Faults

LEMMA FaultSteps ==
  ASSUME IInv, FaultInv, [Next]_vars
  PROVE  FaultInv'
<1>t. bk \in Back /\ fr \in Front
  BY DEF IInv, TypeOK
<1>1. CASE BackLoad
  BY <1>1, <1>t DEF BackLoad, NewBack, FaultInv
<1>2. CASE BackInit
  <2>1. CASE BackAllocUnbound \/ BackSetup
    BY <2>1, <1>t DEF BackAllocUnbound, BackSetup, Back, FaultInv
  <2>5. CASE BackEnd4 \/ BackEnd3
    BY <2>5, <1>t DEF BackEnd4, BackEnd3, BackAt, Back, FaultInv
  <2>6. CASE BackEnd2
    BY <2>6 DEF BackEnd2, NewBack, FaultInv
  <2>2. CASE BackBind
    BY <2>2, <1>t DEF BackBind, Fails, Back, FaultInv
  <2>3. CASE Register
    BY <2>3, <1>t DEF Register, Fails, Back, FaultInv
  <2>4. CASE BackStart
    BY <2>4, <1>t DEF BackStart, Started, Fails, Back, FaultInv
  <2> QED BY <1>2, <2>1, <2>2, <2>3, <2>4, <2>5, <2>6 DEF BackInit
<1>3. CASE BackUnload \/ BackUnloaded \/ BackThread \/ BackIrq \/ Answer \/ NotifyFront
  <2>1. CASE BackUnload
    BY <2>1, <1>t DEF BackUnload, Woken, Back, FaultInv
  <2>4. CASE BackUnloaded
    BY <2>4 DEF BackUnloaded, NewBack, FaultInv
  <2>2. CASE BackThread
    BY <2>2, <1>t DEF BackThread, BackThreadTop, BackThreadWait, BackTakes, BackRoundEnds,
       Back, FaultInv
  <2>3. CASE BackIrq \/ Answer \/ NotifyFront
    BY <2>3, <1>t DEF BackIrq, Answer, NotifyFront, Woken, Back, FaultInv
  <2> QED BY <1>3, <2>1, <2>2, <2>3, <2>4
<1>4. CASE Connect
  BY <1>4, <1>t DEF Connect, NewFront, FaultInv
<1>5. CASE FrontInit
  <2>1. CASE FrontBind \/ FrontInitQueue
    BY <2>1, <1>t DEF FrontBind, FrontInitQueue, FrontOut, NewFront, Front, FaultInv
  <2>2. CASE AddDisk
    BY <2>2, <1>t DEF AddDisk, Fails, Front, FaultInv
  <2>3. CASE FrontStart
    BY <2>3, <1>t DEF FrontStart, Started, Fails, Front, FaultInv
  <2> QED BY <1>5, <2>1, <2>2, <2>3 DEF FrontInit
<1>6. CASE FrontUnload \/ FrontUnloaded \/ FrontUnloadDead
  BY <1>6, <1>t DEF FrontUnload, FrontUnloaded, FrontUnloadDead, FrontOut, NewFront, Woken,
     Front, FaultInv
<1>7. CASE Submit \/ Poll \/ FrontThread
  BY <1>7, <1>t DEF Submit, Poll, FrontThread, FrontThreadTop, FrontThreadWait,
     FrontThreadRound, Front, FaultInv
<1>8. CASE \E n \in Loads : FrontIrq(n)
  BY <1>8, <1>t DEF FrontIrq, Woken, Front, FaultInv
<1>9. CASE UNCHANGED vars
  BY <1>9 DEF vars, FaultInv
<1> QED BY <1>1, <1>2, <1>3, <1>4, <1>5, <1>6, <1>7, <1>8, <1>9 DEF Next

LEMMA FaultInvariant == Spec => []FaultInv
<1>1. Init => FaultInv
  BY DEF Init, NewBack, NewFront, FaultInv
<1> QED BY <1>1, FaultSteps, Invariance, PTL DEF Spec

\* A crash in the way of a step that may fail is one that orderly use allows.
LEMMA CrashExplained ==
  ASSUME OrderlyUseSafe, NEW step \in Faults, NEW crash \in CrashesOf(step),
         oops' = oops \cup {crash}
  PROVE  OrderlyUseSafe'
BY DEF OrderlyUseSafe

\* A page has both flags or none of them changed.
LEMMA Statuses ==
  ASSUME IInv
  PROVE  /\ page \in [Loads -> Shared]
         /\ bk \in Back /\ fr \in Front
         /\ evt.front \subseteq Loads /\ evt \in [back : SUBSET Loads, front : SUBSET Loads]
         /\ chan \in [Loads -> {"none", "unbound", "bound", "closed"}]
         /\ fr.irqs \subseteq Loads
         /\ RUNNING # SLEEPING
         /\ bk.pc = "evtchn" => fr.on < bk.n /\ bk.n \notin {n \in Loads : n <= service}
<1>1. /\ page \in [Loads -> Shared] /\ bk \in Back /\ fr \in Front
      /\ evt \in [back : SUBSET Loads, front : SUBSET Loads]
      /\ chan \in [Loads -> {"none", "unbound", "bound", "closed"}]
  BY DEF IInv, TypeOK
<1>2. fr.irqs \subseteq Loads /\ evt.front \subseteq Loads
  BY <1>1 DEF Front
<1>3. bk.pc = "evtchn" => service # bk.n
  BY DEF IInv, ServiceInv
<1>4. bk.pc = "evtchn" => fr.on < bk.n /\ bk.n \notin {n \in Loads : n <= service}
  BY <1>3, Typed
<1> QED BY <1>1, <1>2, <1>4 DEF RUNNING, SLEEPING

LEMMA UseInit == Init => UseInv
<1> SUFFICES ASSUME Init PROVE UseInv
  OBVIOUS
<1>1. BackQueue
  BY DEF Init, BackQueue, NewBack
<1>2. FrontQueue
  BY DEF Init, FrontQueue, NewFront, NewBack
<1>3. IrqInv
  BY DEF Init, IrqInv, NewFront
<1> QED BY <1>1, <1>2, <1>3 DEF Init, UseInv, OrderlyUseSafe

\* What the queue of the back end needs of the steps of the front end.
LEMMA BackQueueKept ==
  ASSUME IInv, BackQueue, UNCHANGED bk,
         \A n \in Loads : page'[n].req_status = page[n].req_status
  PROVE  BackQueue'
BY Typed DEF BackQueue

\* What the front end needs of the steps of the back end: no page gets asleep
\* for its responses, and no channel is opened again but on a new page.
LEMMA FrontQueueKept ==
  ASSUME IInv, FrontQueue, UNCHANGED fr,
         \A n \in Loads : \/ page'[n].rsp_status = page[n].rsp_status
                          \/ page'[n].rsp_status = RUNNING,
         \A n \in Loads : chan'[n] = "unbound" =>
                            chan[n] = "unbound" \/ page'[n].rsp_status = RUNNING,
         bk'.pc = "evtchn" => page'[bk'.n].rsp_status = RUNNING
  PROVE  FrontQueue'
<1>1. fr.pc \in {"disk", "thread", "wait queue"} =>
        fr.on \in Loads /\ page[fr.on].rsp_status = RUNNING
  BY Typed DEF FrontQueue, Page
<1>2. fr.pc \in {"disk", "thread", "wait queue"} => page'[fr.on].rsp_status = RUNNING
  BY <1>1
<1>3. \A n \in Loads : chan'[n] = "unbound" => page'[n].rsp_status = RUNNING
  BY DEF FrontQueue
<1> QED BY <1>2, <1>3 DEF FrontQueue, Page

\* A channel the front end has bound once stays bound or is closed, and the
\* back end starts nothing over a page that is settled.
LEMMA IrqKept ==
  ASSUME IInv, IrqInv, UNCHANGED fr, evt'.front \subseteq evt.front,
         service' \in Nat, service' >= service,
         \A n \in fr.irqs : chan'[n] = chan[n] \/ chan'[n] = "closed",
         bk'.n \in fr.irqs => bk'.n = bk.n /\ (Settled => Settled')
  PROVE  IrqInv'
<1>1. \A n \in fr.irqs : n \in Nat /\ service \in Nat
  BY Typed, Statuses DEF Loads
<1>2. \A n \in fr.irqs : n <= service' /\ chan'[n] \in {"bound", "closed"}
  BY <1>1 DEF IrqInv
<1>3. \A n : Using(n)' <=> Using(n)
  BY DEF Using
<1>4. \A n \in evt'.front \cap fr.irqs : Using(n)'
  BY <1>3 DEF IrqInv
<1>5. bk'.n \in fr.irqs => Using(bk.n)' \/ Settled'
  BY <1>3 DEF IrqInv
<1> QED BY <1>2, <1>4, <1>5 DEF IrqInv, Using

-----------------------------------------------------------------------------
(* The steps of the back end *)

LEMMA UseBackInit ==
  ASSUME IInv, FaultInv, UseInv, BackLoad \/ BackInit
  PROVE  UseInv'
<1>t. BackQueue /\ FrontQueue /\ IrqInv /\ OrderlyUseSafe /\ bk \in Back
  BY Statuses DEF UseInv
<1>0. /\ UNCHANGED <<fr, evt>> /\ page \in [Loads -> Shared]
      /\ chan \in [Loads -> {"none", "unbound", "bound", "closed"}]
      /\ fr.irqs \subseteq Loads /\ service \in Nat
  BY Statuses, Typed DEF BackLoad, BackInit, BackAllocUnbound, BackBind, Register,
     BackSetup, BackStart, BackEnd4, BackEnd3, BackEnd2
<1>o. OrderlyUseSafe'
  <2>1. CASE UNCHANGED oops
    BY <1>t, <2>1 DEF OrderlyUseSafe
  <2>2. CASE Fails("device") /\ oops' = oops \cup {"bad_device"}
    BY <1>t, <2>2, CrashExplained DEF CrashesOf, Fails
  <2>3. CASE Fails("handles") /\ oops' = oops \cup {"null_handles"}
    BY <1>t, <2>3, CrashExplained DEF CrashesOf, Fails
  <2>4. CASE bk.pc = "end3" /\ oops' = oops \cup {"double_close"}
    <3>1. PICK step \in Faults : step \in {"bind", "register", "memory"}
      BY <2>4 DEF FaultInv
    <3>2. "double_close" \in CrashesOf(step)
      BY <3>1 DEF CrashesOf
    <3> QED BY <1>t, <2>4, <3>2, CrashExplained
  <2> QED BY <2>1, <2>2, <2>3, <2>4 DEF BackLoad, BackInit, BackAllocUnbound, BackBind,
        Register, BackSetup, BackStart, BackEnd4, BackEnd3, BackEnd2, BackAt
<1>1. CASE BackLoad
  <2>1. bk.pc = "out" /\ bk.n + 1 \in Loads /\ UNCHANGED <<service, chan>>
    BY <1>1, Typed DEF BackLoad, BackAt, Loads
  <2>2. NewBack(bk.n + 1) \in Back
    BY <2>1, Typed DEF NewBack, Back, Thread, Loads
  <2>3. /\ bk'.n = bk.n + 1 /\ bk'.pc \in {"evtchn", "out", "bug"} /\ bk'.thread = "none"
        /\ \/ page' = page /\ bk'.pc \in {"out", "bug"}
           \/ page' = [page EXCEPT ![bk.n + 1] = FreshPage]
    BY <1>1, <2>2 DEF BackLoad, NewBack
  <2>4. FreshPage.req_status = RUNNING /\ FreshPage.rsp_status = RUNNING
    BY DEF FreshPage
  <2>5. BackQueue'
    BY <1>0, <2>1, <2>3, <2>4 DEF BackQueue
  <2>6. FrontQueue'
    BY <1>0, <1>t, <2>1, <2>3, <2>4, FrontQueueKept
  <2>7. bk'.n \notin fr.irqs
    BY <2>3, <1>t, Typed DEF IrqInv
  <2>8. IrqInv'
    BY <1>0, <1>t, <2>1, <2>7, IrqKept
  <2> QED BY <2>5, <2>6, <2>8, <1>o DEF UseInv
<1>2. CASE BackAllocUnbound
  <2>1. /\ bk.pc = "evtchn" /\ bk.n \in Loads /\ UNCHANGED <<service, page>>
        /\ bk'.n = bk.n /\ bk'.pc \in {"bind", "end2"} /\ bk'.wq = bk.wq
        /\ bk'.thread = bk.thread /\ bk'.io = bk.io /\ bk'.notify = bk.notify
        /\ bk'.req_cons = bk.req_cons
        /\ chan' = chan \/ chan' = [chan EXCEPT ![bk.n] = "unbound"]
    BY <1>2, <1>t, Typed DEF BackAllocUnbound, BackAt, Back
  <2>2. page[bk.n].rsp_status = RUNNING
    BY <1>t, <2>1 DEF FrontQueue
  <2>3. bk.n \notin fr.irqs
    BY <1>t, <2>1, Statuses DEF IrqInv
  <2>4. BackQueue'
    BY <1>t, <2>1 DEF BackQueue
  <2>5. FrontQueue'
    BY <1>0, <1>t, <2>1, <2>2, FrontQueueKept
  <2>6. IrqInv'
    BY <1>0, <1>t, <2>1, <2>3, IrqKept
  <2> QED BY <2>4, <2>5, <2>6, <1>o DEF UseInv
<1>3. CASE BackBind \/ Register \/ BackSetup \/ BackStart
  <2>1. /\ UNCHANGED page /\ bk'.n = bk.n
        /\ chan' = chan \/ chan' = [chan EXCEPT ![bk.n] = "closed"]
        /\ bk.pc \notin {"out", "bug"} /\ bk'.pc \notin {"out", "evtchn"}
        /\ bk'.io = bk.io /\ bk'.notify = bk.notify /\ bk'.req_cons = bk.req_cons
        /\ service' = service \/ service' = bk.n
        /\ bk.wq => bk'.wq
    BY <1>3, <1>t DEF BackBind, Register, BackSetup, BackStart, BackAt, Back
  <2>2. service' \in Nat /\ service' >= service
    BY <2>1, Typed
  <2>3. Settled => Settled'
    BY <2>1 DEF Settled, Quiet
  <2>4. BackQueue'
    <3>1. bk'.pc \in {"memory", "in", "stopping"} => bk'.wq
      BY <1>3, <1>t DEF BackBind, Register, BackSetup, BackStart, BackAt, Back, BackQueue
    <3>2. bk'.thread \notin {"none", "failed"} => bk'.pc \in {"in", "stopping"}
      BY <1>3, <1>t DEF BackBind, Register, BackSetup, BackStart, BackAt, Back, BackQueue
    <3> QED BY <1>t, <2>1, <3>1, <3>2 DEF BackQueue
  <2>5. FrontQueue'
    BY <1>0, <1>t, <2>1, FrontQueueKept
  <2>6. IrqInv'
    BY <1>0, <1>t, <2>1, <2>2, <2>3, IrqKept
  <2> QED BY <2>4, <2>5, <2>6, <1>o DEF UseInv
<1>4. CASE BackEnd4 \/ BackEnd3
  <2>1. /\ UNCHANGED <<page, service>> /\ bk'.n = bk.n
        /\ bk.pc \in {"end4", "end3"} /\ bk'.pc \in {"end3", "bug", "end2"}
        /\ bk'.io = bk.io /\ bk'.notify = bk.notify /\ bk'.req_cons = bk.req_cons
        /\ bk'.wq = bk.wq /\ bk'.thread = bk.thread
        /\ chan' = chan \/ chan' = [chan EXCEPT ![bk.n] = "closed"]
    BY <1>4, <1>t DEF BackEnd4, BackEnd3, BackAt, Back
  <2>2. Settled => Settled'
    BY <2>1 DEF Settled, Quiet
  <2>3. BackQueue'
    BY <1>t, <2>1 DEF BackQueue
  <2>4. FrontQueue'
    BY <1>0, <1>t, <2>1, FrontQueueKept
  <2>5. IrqInv'
    BY <1>0, <1>t, <2>1, <2>2, IrqKept
  <2> QED BY <2>3, <2>4, <2>5, <1>o DEF UseInv
<1>5. CASE BackEnd2
  <2>1. /\ bk.pc = "end2" /\ bk' = NewBack(bk.n) /\ UNCHANGED <<service, chan>>
        /\ bk.n \in Loads /\ page' = [page EXCEPT ![bk.n].granted = FALSE]
    BY <1>5, Typed DEF BackEnd2, BackAt
  <2>2. /\ bk'.n = bk.n /\ bk'.pc = "out" /\ bk'.thread = "none"
        /\ bk'.io = 0 /\ ~bk'.notify
    BY <2>1 DEF NewBack
  <2>3. \A n \in Loads : page'[n].rsp_status = page[n].rsp_status
    BY <1>0, <2>1 DEF Shared
  <2>4. BackQueue'
    BY <2>2 DEF BackQueue
  <2>5. FrontQueue'
    BY <1>0, <1>t, <2>1, <2>2, <2>3, FrontQueueKept
  <2>6. Settled'
    BY <2>2 DEF Settled, Quiet
  <2>7. IrqInv'
    BY <1>0, <1>t, <2>1, <2>2, <2>6, IrqKept
  <2> QED BY <2>4, <2>5, <2>7, <1>o DEF UseInv
<1> QED BY <1>1, <1>2, <1>3, <1>4, <1>5 DEF BackInit

LEMMA UseBackRun ==
  ASSUME IInv, FaultInv, UseInv,
         BackUnload \/ BackUnloaded \/ BackThread \/ BackIrq \/ Answer \/ NotifyFront
  PROVE  UseInv'
<1>t. BackQueue /\ FrontQueue /\ IrqInv /\ OrderlyUseSafe /\ bk \in Back
  BY Statuses DEF UseInv
<1>0. /\ UNCHANGED <<fr, service>> /\ page \in [Loads -> Shared]
      /\ chan \in [Loads -> {"none", "unbound", "bound", "closed"}]
      /\ fr.irqs \subseteq Loads /\ service \in Nat
  BY Statuses, Typed DEF BackUnload, BackUnloaded, BackThread, BackThreadTop,
     BackThreadWait, BackTakes, BackRoundEnds, BackIrq, Answer, NotifyFront
<1>1. CASE BackUnload \/ BackThreadTop \/ BackThreadWait
  <2>1. /\ UNCHANGED <<page, chan, evt>> /\ bk'.n = bk.n /\ bk'.wq = bk.wq
        /\ bk'.io = bk.io /\ bk'.notify = bk.notify /\ bk'.req_cons = bk.req_cons
        /\ bk.pc \in {"in", "stopping"} /\ bk'.pc \in {"in", "stopping", "bug"}
        /\ bk'.pc = "bug" => bk'.thread = "failed"
    <3>1. CASE BackUnload
      BY <1>t, <3>1 DEF BackUnload, BackAt, Back, Woken
    <3>2. CASE BackThreadTop
      BY <1>t, <3>2 DEF BackThreadTop, Back, BackQueue
    <3>3. CASE BackThreadWait
      BY <1>t, <3>3 DEF BackThreadWait, Back, BackQueue
    <3> QED BY <1>1, <3>1, <3>2, <3>3
  <2>2. BackQueue'
    BY <1>t, <2>1 DEF BackQueue
  <2>3. FrontQueue'
    BY <1>0, <1>t, <2>1, FrontQueueKept
  <2>4. Settled => Settled'
    BY <2>1 DEF Settled, Quiet
  <2>5. IrqInv'
    BY <1>0, <1>t, <2>1, <2>4, IrqKept
  <2>6. OrderlyUseSafe'
    <3>1. CASE UNCHANGED oops
      BY <1>t, <3>1 DEF OrderlyUseSafe
    <3>2. CASE bk.thread = "failed" /\ oops' = oops \cup {"back_stop"}
      BY <1>t, <3>2, CrashExplained DEF CrashesOf, FaultInv
    <3> QED BY <1>1, <3>1, <3>2 DEF BackUnload, BackThreadTop, BackThreadWait
  <2> QED BY <2>2, <2>3, <2>5, <2>6 DEF UseInv
<1>2. CASE BackUnloaded
  <2>1. /\ bk.pc = "stopping" /\ bk' = NewBack(bk.n) /\ UNCHANGED <<page, evt, oops>>
        /\ bk.n \in Loads /\ chan' = [chan EXCEPT ![bk.n] = "closed"]
    BY <1>2, Typed DEF BackUnloaded, BackAt
  <2>2. /\ bk'.n = bk.n /\ bk'.pc = "out" /\ bk'.thread = "none"
        /\ bk'.io = 0 /\ ~bk'.notify
    BY <2>1 DEF NewBack
  <2>3. BackQueue'
    BY <2>2 DEF BackQueue
  <2>4. FrontQueue'
    BY <1>0, <1>t, <2>1, <2>2, FrontQueueKept
  <2>5. Settled'
    BY <2>2 DEF Settled, Quiet
  <2>6. IrqInv'
    BY <1>0, <1>t, <2>1, <2>2, <2>5, IrqKept
  <2> QED BY <1>t, <2>1, <2>3, <2>4, <2>6 DEF UseInv, OrderlyUseSafe
<1>3. CASE BackTakes
  <2>1. /\ bk.thread = "round" /\ bk.req_cons # page[bk.n].req_prod
        /\ UNCHANGED <<page, chan, evt, oops>>
        /\ bk'.n = bk.n /\ bk'.wq = bk.wq /\ bk'.pc = bk.pc /\ bk'.thread = bk.thread
    BY <1>3, <1>t DEF BackTakes, Back
  <2>2. bk.pc \in {"in", "stopping"}
    BY <1>t, <2>1 DEF BackQueue
  <2>3. ~Settled
    BY <2>1, <2>2 DEF Settled
  <2>4. BackQueue'
    BY <1>t, <2>1 DEF BackQueue
  <2>5. FrontQueue'
    BY <1>0, <1>t, <2>1, <2>2, FrontQueueKept
  <2>6. IrqInv'
    BY <1>0, <1>t, <2>1, <2>3, IrqKept
  <2> QED BY <1>t, <2>1, <2>4, <2>5, <2>6 DEF UseInv, OrderlyUseSafe
<1>4. CASE BackRoundEnds
  <2>1. /\ bk.thread = "round" /\ UNCHANGED <<chan, evt, oops>>
        /\ bk'.n = bk.n /\ bk'.wq = bk.wq /\ bk'.pc = bk.pc
        /\ bk'.io = bk.io /\ bk'.notify = bk.notify /\ bk'.req_cons = bk.req_cons
        /\ page' = page \/ page' = [page EXCEPT ![bk.n].req_status = SLEEPING]
    BY <1>4, <1>t DEF BackRoundEnds, Back
  <2>2. bk.pc \in {"in", "stopping"} /\ bk.wq /\ bk.n \in Loads
    BY <1>t, <2>1, Typed DEF BackQueue
  <2>3. \A n \in Loads : /\ page'[n].rsp_status = page[n].rsp_status
                         /\ page'[n].req_prod = page[n].req_prod
    BY <1>0, <2>1 DEF Shared
  <2>4. BackQueue'
    BY <1>t, <2>1, <2>2 DEF BackQueue
  <2>5. FrontQueue'
    BY <1>0, <1>t, <2>1, <2>2, <2>3, FrontQueueKept
  <2>6. Settled => Settled'
    BY <2>1, <2>2, <2>3 DEF Settled, Quiet
  <2>7. IrqInv'
    BY <1>0, <1>t, <2>1, <2>6, IrqKept
  <2> QED BY <1>t, <2>1, <2>4, <2>5, <2>7 DEF UseInv, OrderlyUseSafe
<1>5. CASE BackIrq
  <2>1. bk.irq /\ bk.n \in Loads /\ bk.pc \notin {"out", "bug"}
    BY <1>5, Typed DEF BackIrq, BackDead, IInv, BackInv
  <2>2. ~bk.wq => page[bk.n].req_status # SLEEPING
    BY <1>t, <2>1, Statuses DEF BackQueue
  <2>3. oops' = oops
    BY <1>5, <2>2 DEF BackIrq
  <2>4. /\ bk'.n = bk.n /\ bk'.wq = bk.wq /\ bk'.pc = bk.pc
        /\ bk'.io = bk.io /\ bk'.notify = bk.notify /\ bk'.req_cons = bk.req_cons
        /\ bk'.thread \notin {"none", "failed"} => bk.thread \notin {"none", "failed"}
        /\ UNCHANGED chan
        /\ page' = [page EXCEPT ![bk.n].req_status = RUNNING]
    BY <1>5, <1>t DEF BackIrq, Back, Woken
  <2>5. evt'.front \subseteq evt.front
    BY <1>5, Statuses DEF BackIrq
  <2>6. \A n \in Loads : /\ page'[n].rsp_status = page[n].rsp_status
                         /\ page'[n].req_prod = page[n].req_prod
    BY <1>0, <2>4 DEF Shared
  <2>7. page'[bk.n].req_status = RUNNING
    BY <1>0, <2>1, <2>4 DEF Shared
  <2>8. BackQueue'
    BY <1>t, <2>1, <2>4, <2>7 DEF BackQueue
  <2>9. bk'.pc = "evtchn" => page'[bk'.n].rsp_status = RUNNING
    BY <1>t, <2>1, <2>4, <2>6 DEF FrontQueue
  <2>10. FrontQueue'
    BY <1>0, <1>t, <2>4, <2>6, <2>9, FrontQueueKept
  <2>11. Settled => Settled'
    BY <2>1, <2>4, <2>6 DEF Settled, Quiet
  <2>12. IrqInv'
    BY <1>0, <1>t, <2>4, <2>5, <2>11, IrqKept
  <2> QED BY <1>t, <2>3, <2>8, <2>10, <2>12 DEF UseInv, OrderlyUseSafe
<1>6. CASE Answer
  <2>1. /\ bk.io > 0 /\ bk.n \in Loads /\ UNCHANGED <<chan, evt, oops>>
        /\ bk'.n = bk.n /\ bk'.wq = bk.wq /\ bk'.pc = bk.pc /\ bk'.thread = bk.thread
        /\ page' = [page EXCEPT ![bk.n].rsp_prod = @ + 1]
    BY <1>6, <1>t, Typed DEF Answer, Back
  <2>2. \A n \in Loads : /\ page'[n].rsp_status = page[n].rsp_status
                         /\ page'[n].req_status = page[n].req_status
    BY <1>0, <2>1 DEF Shared
  <2>3. ~Settled
    BY <2>1, Typed DEF Settled, Quiet
  <2>4. BackQueue'
    BY <1>t, <2>1, <2>2 DEF BackQueue
  <2>5. bk'.pc = "evtchn" => page'[bk'.n].rsp_status = RUNNING
    BY <1>t, <2>1, <2>2 DEF FrontQueue
  <2>6. FrontQueue'
    BY <1>0, <1>t, <2>1, <2>2, <2>5, FrontQueueKept
  <2>7. IrqInv'
    BY <1>0, <1>t, <2>1, <2>3, IrqKept
  <2> QED BY <1>t, <2>1, <2>4, <2>6, <2>7 DEF UseInv, OrderlyUseSafe
<1>7. CASE NotifyFront
  <2>1. /\ bk.notify /\ UNCHANGED <<page, chan, oops>>
        /\ bk'.n = bk.n /\ bk'.wq = bk.wq /\ bk'.pc = bk.pc /\ bk'.thread = bk.thread
        /\ evt' = evt \/ evt' = [evt EXCEPT !.front = @ \cup {bk.n}]
    BY <1>7, <1>t DEF NotifyFront, Back
  <2>2. bk.n \in fr.irqs => Using(bk.n)
    BY <1>t, <2>1 DEF IrqInv, Settled, Quiet
  <2>3. evt'.front \subseteq evt.front \cup {bk.n}
    BY <2>1, Statuses
  <2>4. IrqInv'
    <3>1. \A n : Using(n)' <=> Using(n)
      BY <1>0 DEF Using
    <3>2. \A n \in fr.irqs : n <= service' /\ chan'[n] \in {"bound", "closed"}
      BY <1>0, <1>t, <2>1 DEF IrqInv
    <3>3. \A n \in evt'.front \cap fr.irqs : Using(n)'
      BY <1>t, <2>2, <2>3, <3>1 DEF IrqInv
    <3>4. bk'.n \in fr.irqs => Using(bk.n)'
      BY <2>1, <2>2, <3>1
    <3> QED BY <1>0, <2>1, <3>2, <3>3, <3>4 DEF IrqInv, Using
  <2>5. BackQueue'
    BY <1>t, <2>1 DEF BackQueue
  <2>6. bk'.pc = "evtchn" => page'[bk'.n].rsp_status = RUNNING
    BY <1>t, <2>1 DEF FrontQueue
  <2>7. FrontQueue'
    BY <1>0, <1>t, <2>1, <2>6, FrontQueueKept
  <2> QED BY <1>t, <2>1, <2>4, <2>5, <2>7 DEF UseInv, OrderlyUseSafe
<1> QED BY <1>1, <1>2, <1>3, <1>4, <1>5, <1>6, <1>7 DEF BackThread

-----------------------------------------------------------------------------
(* The steps of the front end *)

\* While the front end uses no page, no interrupt of its channels is pending
\* and the back end has nothing to do for one of them.
LEMMA NotUsing ==
  ASSUME IInv, IrqInv, fr.pc \in {"out", "bind", "stopping", "dead"}
  PROVE  /\ evt.front \cap fr.irqs = {}
         /\ bk.n \in fr.irqs => Settled
<1>1. \A n : ~Using(n)
  BY DEF Using
<1> QED BY <1>1 DEF IrqInv

LEMMA UseFrontInit ==
  ASSUME IInv, FaultInv, UseInv, ~FrontSmp,
         Connect \/ FrontInit \/ FrontUnload \/ FrontUnloaded \/ FrontUnloadDead
  PROVE  UseInv'
<1>t. BackQueue /\ FrontQueue /\ IrqInv /\ OrderlyUseSafe /\ fr \in Front
  BY Statuses DEF UseInv
<1>0. /\ UNCHANGED <<service, bk, evt, page>>
      /\ page \in [Loads -> Shared]
      /\ chan \in [Loads -> {"none", "unbound", "bound", "closed"}]
      /\ fr.irqs \subseteq Loads /\ service \in Nat
  BY Statuses, Typed DEF Connect, FrontInit, FrontBind, AddDisk, FrontStart, FrontInitQueue,
     FrontUnload, FrontUnloaded, FrontUnloadDead
<1>o. OrderlyUseSafe'
  <2>1. CASE UNCHANGED oops
    BY <1>t, <2>1 DEF OrderlyUseSafe
  <2>2. CASE fr.pc = "dead" /\ oops' = oops \cup {"stop_null"}
    BY <1>t, <2>2, CrashExplained DEF CrashesOf, FaultInv
  <2>3. CASE fr.thread = "failed" /\ oops' = oops \cup {"front_stop"}
    BY <1>t, <2>3, CrashExplained DEF CrashesOf, FaultInv
  <2> QED BY <2>1, <2>2, <2>3 DEF Connect, FrontInit, FrontBind, AddDisk, FrontStart,
        FrontInitQueue, FrontUnload, FrontUnloaded, FrontUnloadDead, FrontAt
<1>b. BackQueue'
  BY <1>0, <1>t, BackQueueKept
<1>s. Settled' <=> Settled
  BY <1>0 DEF Settled, Quiet
<1>1. CASE Connect
  <2>1. /\ fr.pc = "out" /\ fr'.irqs = fr.irqs /\ fr'.pc \in {"out", "bind"}
        /\ UNCHANGED chan
    BY <1>1, <1>t DEF Connect, FrontAt, NewFront
  <2>2. FrontQueue'
    BY <1>0, <1>t, <2>1 DEF FrontQueue
  <2>3. evt.front \cap fr.irqs = {} /\ (bk.n \in fr.irqs => Settled)
    BY <1>t, <2>1, NotUsing
  <2>4. IrqInv'
    BY <1>0, <1>t, <1>s, <2>1, <2>3 DEF IrqInv
  <2> QED BY <1>o, <1>b, <2>2, <2>4 DEF UseInv
<1>2. CASE FrontBind
  <2>1. fr.pc = "bind" /\ fr.on \in Loads
    BY <1>2, Typed DEF FrontBind, FrontAt
  <2>2. evt.front \cap fr.irqs = {} /\ (bk.n \in fr.irqs => Settled)
    BY <1>t, <2>1, NotUsing
  <2>3. CASE chan[fr.on] = "unbound"
    <3>1. /\ chan' = [chan EXCEPT ![fr.on] = "bound"]
          /\ fr'.pc = "disk" /\ fr'.on = fr.on /\ fr'.irqs = fr.irqs \cup {fr.on}
      BY <1>2, <1>t, <2>3 DEF FrontBind, Front
    <3>2. page[fr.on].rsp_status = RUNNING
      BY <1>t, <2>1, <2>3 DEF FrontQueue
    <3>3. \A n \in Loads : chan'[n] = "unbound" => chan[n] = "unbound"
      BY <1>0, <3>1
    <3>4. FrontQueue'
      BY <1>0, <1>t, <3>1, <3>2, <3>3 DEF FrontQueue, Page
    <3>5. fr.on <= service
      BY Typed
    <3>6. \A n \in fr'.irqs : n <= service' /\ chan'[n] \in {"bound", "closed"}
      BY <1>0, <1>t, <2>1, <3>1, <3>5 DEF IrqInv
    <3>7. \A n \in evt'.front \cap fr'.irqs : n = fr.on
      BY <1>0, <2>2, <3>1
    <3>8. bk'.n \in fr'.irqs => bk'.n = fr.on \/ Settled'
      BY <1>0, <1>s, <2>2, <3>1
    <3>9. IrqInv'
      BY <3>1, <3>6, <3>7, <3>8 DEF IrqInv, Using
    <3> QED BY <1>o, <1>b, <3>4, <3>9 DEF UseInv
  <2>4. CASE chan[fr.on] # "unbound"
    <3>1. fr'.irqs = fr.irqs /\ fr'.pc = "out" /\ UNCHANGED chan
      BY <1>2, <1>t, <2>4 DEF FrontBind, FrontOut, NewFront
    <3>2. FrontQueue'
      BY <1>0, <1>t, <3>1 DEF FrontQueue
    <3>3. IrqInv'
      BY <1>0, <1>t, <1>s, <2>2, <3>1 DEF IrqInv
    <3> QED BY <1>o, <1>b, <3>2, <3>3 DEF UseInv
  <2> QED BY <2>3, <2>4
<1>3. CASE AddDisk
  <2>1. fr.pc = "disk" /\ fr.on \in Loads /\ fr.thread = "none"
    BY <1>3, Typed DEF AddDisk, FrontAt, IInv, FrontInv
  <2>2. page[fr.on].rsp_status = RUNNING
    BY <1>t, <2>1 DEF FrontQueue, Page
  <2>3. CASE fr' = [fr EXCEPT !.pc = "thread", !.disk = TRUE] /\ UNCHANGED chan
    <3>1. /\ fr'.pc = "thread" /\ fr'.on = fr.on /\ fr'.irqs = fr.irqs
          /\ fr'.thread = fr.thread
      BY <1>t, <2>3 DEF Front
    <3>2. FrontQueue'
      BY <1>0, <1>t, <2>1, <2>2, <2>3, <3>1 DEF FrontQueue, Page
    <3>3. \A n : Using(n) => Using(n)'
      BY <3>1 DEF Using
    <3>4. IrqInv'
      BY <1>0, <1>t, <1>s, <2>3, <3>1, <3>3 DEF IrqInv, Using
    <3> QED BY <1>o, <1>b, <3>2, <3>4 DEF UseInv
  <2>4. CASE /\ fr' = [fr EXCEPT !.pc = "dead", !.irqs = @ \ {fr.on}]
             /\ chan' = [chan EXCEPT ![fr.on] = IF @ = "bound" THEN "unbound" ELSE @]
    <3>1. fr'.pc = "dead" /\ fr'.irqs = fr.irqs \ {fr.on}
      BY <1>t, <2>4 DEF Front
    <3>2. \A n \in Loads : n # fr.on => chan'[n] = chan[n]
      BY <1>0, <2>4
    <3>3. FrontQueue'
      BY <1>0, <1>t, <2>2, <3>1, <3>2 DEF FrontQueue
    <3>4. \A n \in fr'.irqs : ~Using(n) /\ n \in fr.irqs /\ n \in Loads /\ n # fr.on
      BY <1>0, <3>1 DEF Using
    <3>5. \A n \in fr'.irqs : n <= service' /\ chan'[n] \in {"bound", "closed"}
      BY <1>0, <1>t, <3>2, <3>4 DEF IrqInv
    <3>6. evt'.front \cap fr'.irqs = {}
      BY <1>0, <1>t, <3>4 DEF IrqInv
    <3>7. bk'.n \in fr'.irqs => Settled'
      BY <1>0, <1>t, <1>s, <3>4 DEF IrqInv
    <3>8. IrqInv'
      BY <3>5, <3>6, <3>7 DEF IrqInv
    <3> QED BY <1>o, <1>b, <3>3, <3>8 DEF UseInv
  <2> QED BY <1>3, <2>3, <2>4 DEF AddDisk
<1>4. CASE FrontStart \/ FrontInitQueue
  <2>1. /\ fr.pc \in {"thread", "wait queue"} /\ fr'.pc \in {"wait queue", "in"}
        /\ fr'.pc = "in" => fr'.wq
        /\ fr'.on = fr.on /\ fr'.irqs = fr.irqs /\ UNCHANGED chan
    BY <1>4, <1>t DEF FrontStart, FrontInitQueue, FrontAt, Front
  <2>2. FrontQueue'
    BY <1>0, <1>t, <2>1 DEF FrontQueue, Page
  <2>3. \A n : Using(n) => Using(n)'
    BY <2>1 DEF Using
  <2>4. IrqInv'
    BY <1>0, <1>t, <1>s, <2>1, <2>3 DEF IrqInv, Using
  <2> QED BY <1>o, <1>b, <2>2, <2>4 DEF UseInv
<1>5. CASE FrontUnload
  <2>1. /\ fr.pc = "in" /\ evt.front \cap fr.irqs = {}
        /\ fr.rsp_cons = fr.req_prod /\ Quiet /\ UNCHANGED chan
        /\ fr' = fr \/ (fr'.pc = "stopping" /\ fr'.stop)
        /\ fr'.wq = fr.wq /\ fr'.on = fr.on /\ fr'.irqs = fr.irqs
    BY <1>5, <1>t DEF FrontUnload, FrontAt, FrontCpuFree, Front
  <2>2. FrontQueue'
    BY <1>0, <1>t, <2>1 DEF FrontQueue
  <2>3. ASSUME fr.on = bk.n, bk.pc \notin {"out", "bug"}
        PROVE  bk.req_cons = page[bk.n].req_prod
    <3>1. bk.n \in Loads
      BY <2>3, Typed
    <3>2. /\ page[bk.n].rsp_prod + bk.io = bk.req_cons /\ bk.io = 0
          /\ bk.req_cons <= page[bk.n].req_prod
      BY <2>1, <2>3 DEF IInv, BackRing, Quiet
    <3>3. page[bk.n].req_prod = fr.rsp_cons /\ fr.rsp_cons <= page[bk.n].rsp_prod
      BY <2>1, <2>3 DEF IInv, FrontRing, Page
    <3> QED BY <3>1, <3>2, <3>3, Typed
  <2>4. bk.n \in fr.irqs => Settled
    BY <1>t, <2>1, <2>3 DEF IrqInv, Using, Settled
  <2>5. IrqInv'
    BY <1>0, <1>t, <1>s, <2>1, <2>4 DEF IrqInv
  <2> QED BY <1>o, <1>b, <2>2, <2>5 DEF UseInv
<1>6. CASE FrontUnloaded
  <2>1. fr.pc = "stopping" /\ fr'.irqs = fr.irqs /\ fr'.pc = "out" /\ UNCHANGED chan
    BY <1>6, <1>t DEF FrontUnloaded, FrontAt, FrontOut, NewFront
  <2>2. FrontQueue'
    BY <1>0, <1>t, <2>1 DEF FrontQueue
  <2>3. evt.front \cap fr.irqs = {} /\ (bk.n \in fr.irqs => Settled)
    BY <1>t, <2>1, NotUsing
  <2>4. IrqInv'
    BY <1>0, <1>t, <1>s, <2>1, <2>3 DEF IrqInv
  <2> QED BY <1>o, <1>b, <2>2, <2>4 DEF UseInv
<1>7. CASE FrontUnloadDead
  <2>1. UNCHANGED <<chan, fr>>
    BY <1>7 DEF FrontUnloadDead
  <2> QED BY <1>0, <1>o, <1>b, <1>s, <1>t, <2>1
      DEF UseInv, FrontQueue, Page, IrqInv, Using
<1> QED BY <1>1, <1>2, <1>3, <1>4, <1>5, <1>6, <1>7 DEF FrontInit

\* A request goes only over a page in use.
LEMMA SubmitUses ==
  ASSUME IInv, FrontQueue, fr.disk, ~fr.stop
  PROVE  Using(fr.on)
<1>1. fr.pc \notin {"out", "bind", "disk", "dead"}
  BY DEF IInv, FrontInv
<1>2. fr.pc \in {"thread", "wait queue", "in"}
  BY <1>1, Statuses DEF Front, FrontQueue
<1> QED BY <1>2 DEF Using

LEMMA UseFrontRun ==
  ASSUME IInv, UseInv, ~FrontSmp,
         \/ Submit \/ Poll \/ FrontThread
         \/ \E n \in Loads : FrontIrq(n)
  PROVE  UseInv'
<1>t. BackQueue /\ FrontQueue /\ IrqInv /\ OrderlyUseSafe /\ fr \in Front
  BY Statuses DEF UseInv
<1>0. /\ UNCHANGED <<service, bk, chan>>
      /\ page \in [Loads -> Shared]
      /\ chan \in [Loads -> {"none", "unbound", "bound", "closed"}]
      /\ evt \in [back : SUBSET Loads, front : SUBSET Loads]
      /\ fr.irqs \subseteq Loads /\ service \in Nat
  BY Statuses, Typed DEF Submit, Poll, FrontThread, FrontThreadTop, FrontThreadWait,
     FrontThreadRound, FrontIrq
\* A thread that runs has its queue.
<1>w. ASSUME fr.thread # "none", fr.pc # "wait queue" PROVE fr.pc \in {"in", "stopping"} /\ fr.wq
  <2>1. fr.pc \notin {"out", "bind", "disk", "dead", "thread"}
    BY <1>t, <1>w DEF IInv, FrontInv, FrontQueue
  <2>2. fr.pc \in {"in", "stopping"}
    BY <1>t, <1>w, <2>1 DEF Front
  <2> QED BY <1>t, <2>2 DEF FrontQueue
<1>1. CASE Submit
  <2>1. /\ fr.disk /\ ~fr.stop /\ UNCHANGED oops
        /\ fr'.pc = fr.pc /\ fr'.on = fr.on /\ fr'.irqs = fr.irqs /\ fr'.wq = fr.wq
        /\ fr'.stop = fr.stop /\ fr'.thread = fr.thread
        /\ page' = [page EXCEPT ![fr.on].req_prod = fr.req_prod + 1]
        /\ evt' = evt \/ evt' = [evt EXCEPT !.back = @ \cup {fr.on}]
    BY <1>1, <1>t DEF Submit, Front
  <2>2. Using(fr.on) /\ fr.on \in Loads
    BY <1>t, <2>1, SubmitUses, Typed
  <2>3. \A n \in Loads : /\ page'[n].rsp_status = page[n].rsp_status
                         /\ page'[n].req_status = page[n].req_status
                         /\ n # fr.on => page'[n].req_prod = page[n].req_prod
    BY <1>0, <2>1 DEF Shared
  <2>4. evt'.front = evt.front
    BY <1>0, <2>1
  <2>5. BackQueue'
    BY <1>0, <1>t, <2>3, BackQueueKept
  <2>6. bk.pc = "evtchn" => bk.n \in Loads
    BY Typed
  <2>7. FrontQueue'
    <3>1. bk'.pc = "evtchn" => page'[bk'.n].rsp_status = RUNNING
      BY <1>0, <1>t, <2>3, <2>6 DEF FrontQueue
    <3>2. \A m \in Loads : chan'[m] = "unbound" => page'[m].rsp_status = RUNNING
      BY <1>0, <1>t, <2>3 DEF FrontQueue
    <3>3. fr.pc \in {"disk", "thread", "wait queue"} => page'[fr.on].rsp_status = RUNNING
      BY <1>t, <2>2, <2>3 DEF FrontQueue, Page
    <3> QED BY <1>t, <2>1, <3>1, <3>2, <3>3 DEF FrontQueue, Page
  <2>8. \A n : Using(n)' <=> Using(n)
    BY <2>1 DEF Using
  <2>9. bk.n \in fr.irqs /\ ~Using(bk.n) => Settled'
    BY <1>0, <1>t, <2>2, <2>3 DEF IrqInv, Settled, Quiet
  <2>10. IrqInv'
    BY <1>0, <1>t, <2>1, <2>4, <2>8, <2>9 DEF IrqInv, Using
  <2> QED BY <1>t, <2>1, <2>5, <2>7, <2>10 DEF UseInv, OrderlyUseSafe
<1>2. CASE Poll \/ FrontThreadTop
  <2>1. /\ UNCHANGED <<page, evt, oops>>
        /\ fr'.pc = fr.pc /\ fr'.on = fr.on /\ fr'.irqs = fr.irqs /\ fr'.wq = fr.wq
        /\ fr'.stop = fr.stop /\ (fr.thread = "none" => fr'.thread = "none")
    BY <1>2, <1>t DEF Poll, FrontThreadTop, FrontThreadAt, Front
  <2>2. FrontQueue'
    BY <1>0, <1>t, <2>1 DEF FrontQueue, Page
  <2>3. IrqInv'
    BY <1>0, <1>t, <2>1 DEF IrqInv, Using, Settled, Quiet
  <2>4. BackQueue'
    BY <1>0, <1>t, <2>1, BackQueueKept
  <2> QED BY <1>t, <2>1, <2>2, <2>3, <2>4 DEF UseInv, OrderlyUseSafe
<1>3. CASE FrontThreadWait
  <2>1. fr.thread = "wait" /\ fr.pc # "wait queue"
    BY <1>3 DEF FrontThreadWait, FrontThreadAt
  <2>2. fr.wq /\ fr.pc \in {"in", "stopping"}
    BY <1>w, <2>1
  <2>3. /\ UNCHANGED <<page, evt, oops>>
        /\ fr'.pc = fr.pc /\ fr'.on = fr.on /\ fr'.irqs = fr.irqs /\ fr'.wq = fr.wq
        /\ fr'.stop = fr.stop
    BY <1>3, <1>t, <2>2 DEF FrontThreadWait, Front
  <2>4. FrontQueue'
    BY <1>0, <1>t, <2>2, <2>3 DEF FrontQueue, Page
  <2>5. IrqInv'
    BY <1>0, <1>t, <2>3 DEF IrqInv, Using, Settled, Quiet
  <2>6. BackQueue'
    BY <1>0, <1>t, <2>3, BackQueueKept
  <2> QED BY <1>t, <2>3, <2>4, <2>5, <2>6 DEF UseInv, OrderlyUseSafe
<1>4. CASE FrontThreadRound
  <2>1. fr.thread = "round" /\ fr.pc # "wait queue"
    BY <1>4 DEF FrontThreadRound, FrontThreadAt
  <2>2. fr.wq /\ fr.pc \in {"in", "stopping"}
    BY <1>w, <2>1
  <2>3. fr.on \in Loads /\ chan[fr.on] # "unbound" /\ (bk.pc = "evtchn" => bk.n # fr.on)
    BY <2>2, Typed, Statuses DEF IInv, FrontRing
  <2>4. /\ UNCHANGED <<evt, oops>>
        /\ fr'.pc = fr.pc /\ fr'.on = fr.on /\ fr'.irqs = fr.irqs /\ fr'.wq = fr.wq
        /\ fr'.stop = fr.stop
        /\ page' = page \/ page' = [page EXCEPT ![fr.on].rsp_status = SLEEPING]
    BY <1>4, <1>t DEF FrontThreadRound, Front
  <2>5. \A n \in Loads : /\ page'[n].req_status = page[n].req_status
                         /\ page'[n].req_prod = page[n].req_prod
                         /\ n # fr.on => page'[n].rsp_status = page[n].rsp_status
    BY <1>0, <2>4 DEF Shared
  <2>6. \A m \in Loads : chan'[m] = "unbound" => page'[m].rsp_status = RUNNING
    BY <1>0, <1>t, <2>3, <2>5 DEF FrontQueue
  <2>7. FrontQueue'
    <3>1. bk.pc = "evtchn" => bk.n \in Loads
      BY Typed
    <3>2. bk'.pc = "evtchn" => page'[bk'.n].rsp_status = RUNNING
      BY <1>0, <1>t, <2>3, <2>5, <3>1 DEF FrontQueue
    <3> QED BY <1>t, <2>2, <2>4, <2>6, <3>2 DEF FrontQueue
  <2>8. Settled => Settled'
    BY <1>0, <2>5, Typed DEF Settled, Quiet
  <2>9. IrqInv'
    BY <1>0, <1>t, <2>4, <2>8 DEF IrqInv, Using
  <2>10. BackQueue'
    BY <1>0, <1>t, <2>5, BackQueueKept
  <2> QED BY <1>t, <2>4, <2>7, <2>9, <2>10 DEF UseInv, OrderlyUseSafe
<1>5. ASSUME NEW n \in Loads, FrontIrq(n) PROVE UseInv'
  <2>1. n \in evt.front \cap fr.irqs
    BY <1>5 DEF FrontIrq
  <2>2. Using(n)
    BY <1>t, <2>1 DEF IrqInv
  <2>3. fr.on = n /\ fr.pc \in {"disk", "thread", "wait queue", "in"}
    BY <2>2 DEF Using
  <2>4. Page.rsp_status = SLEEPING => fr.wq
    BY <1>t, <2>3, Statuses DEF FrontQueue
  <2>5. oops' = oops
    BY <1>5, <2>3, <2>4 DEF FrontIrq
  <2>6. /\ page' = [page EXCEPT ![n].rsp_status = RUNNING]
        /\ fr'.pc = fr.pc /\ fr'.on = fr.on /\ fr'.irqs = fr.irqs /\ fr'.wq = fr.wq
        /\ fr'.stop = fr.stop /\ (fr.thread = "none" => fr'.thread = "none")
    BY <1>5, <1>t, <2>3 DEF FrontIrq, Front, Woken
  <2>7. evt'.front \subseteq evt.front
    BY <1>5, <1>0 DEF FrontIrq
  <2>8. \A m \in Loads : /\ page'[m].req_status = page[m].req_status
                         /\ page'[m].req_prod = page[m].req_prod
                         /\ \/ page'[m].rsp_status = page[m].rsp_status
                            \/ page'[m].rsp_status = RUNNING
    BY <1>0, <2>6 DEF Shared
  <2>9. bk.pc = "evtchn" => bk.n \in Loads
    BY Typed
  <2>10. fr'.pc \in {"disk", "thread", "wait queue"} => page'[n].rsp_status = RUNNING
    BY <1>5, <1>0, <2>6 DEF Shared
  <2>11. FrontQueue'
    <3>1. bk'.pc = "evtchn" => page'[bk'.n].rsp_status = RUNNING
      BY <1>0, <1>t, <2>8, <2>9 DEF FrontQueue
    <3>2. \A m \in Loads : chan'[m] = "unbound" => page'[m].rsp_status = RUNNING
      BY <1>0, <1>t, <2>8 DEF FrontQueue
    <3> QED BY <1>t, <2>3, <2>6, <2>10, <3>1, <3>2 DEF FrontQueue, Page
  <2>12. Settled => Settled'
    BY <1>0, <2>8, Typed DEF Settled, Quiet
  <2>13. IrqInv'
    BY <1>0, <1>t, <2>6, <2>7, <2>12 DEF IrqInv, Using
  <2>14. BackQueue'
    BY <1>0, <1>t, <2>8, BackQueueKept
  <2> QED BY <1>t, <2>5, <2>11, <2>13, <2>14 DEF UseInv, OrderlyUseSafe
<1> QED BY <1>1, <1>2, <1>3, <1>4, <1>5 DEF FrontThread

\* On one CPU, orderly use of the drivers crashes nothing but in the way of a step
\* of an init that failed, for every number of loads and requests and whichever
\* steps may fail; if none does, nothing crashes.  No interrupt meets a module
\* that is gone, or wakes a queue before blk_init or idd_init has set it up
\* (backend.c:537-573, frontend.c:582-583).
THEOREM OneCpuUseSafe == ~FrontSmp => (Spec => []OrderlyUseSafe)
<1> SUFFICES ASSUME ~FrontSmp PROVE Spec => []OrderlyUseSafe
  OBVIOUS
<1>1. IInv /\ FaultInv /\ UseInv /\ [Next]_vars => UseInv'
  <2> SUFFICES ASSUME IInv, FaultInv, UseInv, [Next]_vars PROVE UseInv'
    OBVIOUS
  <2>1. CASE UNCHANGED vars
    BY <2>1 DEF vars, UseInv, BackQueue, FrontQueue, Page, IrqInv, Using, Settled,
       Quiet, OrderlyUseSafe
  <2>2. CASE Next
    BY <2>2, UseBackInit, UseBackRun, UseFrontInit, UseFrontRun DEF Next
  <2> QED BY <2>1, <2>2
<1>2. UseInv => OrderlyUseSafe
  BY DEF UseInv
<1> QED BY <1>1, <1>2, UseInit, Invariance, FaultInvariant, PTL DEF Spec

=============================================================================
