------------------------------ MODULE DataPath ------------------------------
(***************************************************************************)
(* The data of a request, from the block layer of the application domain   *)
(* to the RAM disk and back: sectors, segments, grants, mappings, bios     *)
(* (idd_queue_request and idd_completion of frontend.c,                    *)
(* dispatch_rw_block_io and what it calls in backend.c, and the device of  *)
(* src/ramdisk/ramdisk.c).                                                 *)
(*                                                                         *)
(* The ring, the threads and their sleeping are in Frontend and Backend;   *)
(* here a message is sent and taken in one step each.  A grant reference   *)
(* is the pair of a request and a segment number: the front end gives a    *)
(* reference to each segment and takes all of them back when it completes  *)
(* the request.  What is moved is not the data but the fact that sector s  *)
(* of the disk was copied to or from sector k of a page.                   *)
(***************************************************************************)
EXTENDS Integers, Sequences, FiniteSets, SequencesExt

CONSTANTS
  Request,     \* requests of the block layer
  Geometry,    \* records [dir, pos, segs]: the shapes a request may have
  Pending,     \* pending_req structures of the back end
  PageSectors, \* sectors in a page: 8
  MaxSegs,     \* IDD_MAX_SEGMENTS_PER_REQUEST: 11
  BlockSizes,  \* logical block sizes the device may have, in sectors
  Faults       \* "map": a page cannot be mapped; "bio": bio_alloc fails

READ  == 0
WRITE == 1

\* struct idd_request_segment without the grant reference.
Segment == [first : Nat, last : Nat]

ASSUME DataPathAssumption ==
  /\ PageSectors \in Nat \ {0} /\ MaxSegs \in Nat \ {0}
  /\ BlockSizes \subseteq Nat \ {0}
  /\ Faults \subseteq {"map", "bio"}
  /\ Geometry \subseteq [dir : {READ, WRITE}, pos : Nat, segs : Seq(Segment)]
  /\ \A g \in Geometry :
       /\ Len(g.segs) \in 1 .. MaxSegs
       /\ \A i \in DOMAIN g.segs :
            g.segs[i].first <= g.segs[i].last /\ g.segs[i].last < PageSectors

VARIABLES
  block,    \* logical block size of the device, in sectors
  req,      \* front end: state, geometry and answer of each request
  grant,    \* grant table of the application domain: the references in use
  mapped,   \* pages mapped in the driver domain: pending_req, segment, reference
  pend,     \* the pending_req structures
  handle,   \* pending_grant_handles: a reference stands for the handle it gave
  work,     \* what the request thread has in hand
  queue,    \* request queue of the device: its bios, in order
  rq_pos,   \* where the device is on the disk, while there is a request
  moved     \* what was copied for each request, in order

vars == <<block, req, grant, mapped, pend, handle, work, queue, rq_pos, moved>>

INVALID == <<>>
NoGeometry == [dir |-> READ, pos |-> 0, segs |-> <<>>]
FreePend == [stage |-> "free", req |-> 0, operation |-> READ, nr_pages |-> 0,
             pendcnt |-> 0, status |-> 0]

Nsec(seg) == seg.last - seg.first + 1
\* The locals of dispatch_rw_block_io: the next segment, breq.sector_number and
\* the bios built and not submitted yet.
NoWork == [i |-> 1, sector |-> 0, biolist |-> <<>>]

Init ==
  /\ block \in BlockSizes
  /\ req = [r \in Request |-> [st |-> "new", g |-> NoGeometry, res |-> 0]]
  /\ grant = {} /\ mapped = {}
  /\ pend = [p \in Pending |-> FreePend]
  /\ handle = [p \in Pending |-> [i \in 1 .. MaxSegs |-> INVALID]]
  /\ work = NoWork
  /\ queue = <<>> /\ rq_pos = 0
  /\ moved = [r \in Request |-> <<>>]

-----------------------------------------------------------------------------
(* Front end *)

\* gnttab_grant_foreign_access_ref(.., readonly = rq_data_dir): the device
\* only reads the pages of a write.
Readonly(dir) == dir = WRITE

\* idd_queue_request: a reference for every segment, the rest of the eleven is
\* given back; then the message is on the ring.
QueueRequest(r, g) ==
  /\ req[r].st = "new"
  /\ req' = [req EXCEPT ![r] = [st |-> "sent", g |-> g, res |-> 0]]
  /\ grant' = grant \cup {[ref |-> <<r, i>>, ro |-> Readonly(g.dir)] : i \in DOMAIN g.segs}
  /\ UNCHANGED <<block, mapped, pend, handle, work, queue, rq_pos, moved>>

\* __blk_end_request_all(req, 0): the block layer is told of success whatever
\* the answer is; the error worked out from it is not used.
EndRequestAll(r) == req' = [req EXCEPT ![r].st = "ended"]

\* idd_completion ends the access to every page, from the front end's own copy
\* of the message; then the request ends.
Complete(r) ==
  /\ req[r].st = "answered"
  /\ EndRequestAll(r)
  /\ grant' = {g \in grant : g.ref[1] # r}
  /\ UNCHANGED <<block, mapped, pend, handle, work, queue, rq_pos, moved>>

-----------------------------------------------------------------------------
(* Back end: dispatch_rw_block_io *)

\* make_response.
Answer(r, res) == req' = [req EXCEPT ![r].st = "answered", ![r].res = res]

\* alloc_req and the copy of the message.
Claim(p, r) ==
  /\ pend[p].stage = "free" /\ req[r].st = "sent"
  /\ \A q \in Pending : pend[q].stage \notin {"claimed", "mapped", "submitting"}
  /\ req' = [req EXCEPT ![r].st = "taken"]
  /\ pend' = [pend EXCEPT ![p] =
       [stage |-> "claimed", req |-> r, operation |-> req[r].g.dir,
        nr_pages |-> Len(req[r].g.segs), pendcnt |-> 0, status |-> 0]]
  /\ work' = [NoWork EXCEPT !.sector = req[r].g.pos]
  /\ UNCHANGED <<block, grant, mapped, handle, queue, rq_pos, moved>>

Geom(p) == req[pend[p].req].g

\* The tests on the message.  Segments the front end makes lie within a page;
\* position and lengths must be multiples of the device's block.
WellFormed(g) ==
  /\ Len(g.segs) \in 1 .. MaxSegs
  /\ \A i \in DOMAIN g.segs :
       /\ g.segs[i].last < PageSectors /\ g.segs[i].first <= g.segs[i].last
       /\ g.pos % block = 0 /\ Nsec(g.segs[i]) % block = 0

\* fail_response.
Reject(p) ==
  /\ pend[p].stage = "claimed"
  /\ ~WellFormed(Geom(p))
  /\ Answer(pend[p].req, -1)
  /\ pend' = [pend EXCEPT ![p] = FreePend]
  /\ work' = NoWork
  /\ UNCHANGED <<block, grant, mapped, handle, queue, rq_pos, moved>>

\* What GNTTABOP_map_grant_ref (external) refuses: a reference not granted, or
\* to be written and granted read-only.  GNTMAP_readonly is set for a write.
Refused(p, i) ==
  ~\E g \in grant : /\ g.ref = <<pend[p].req, i>>
                    /\ g.ro => pend[p].operation # READ

\* Mutant of UnmapPages: the handles are not marked invalid.
UnmapPagesKeepHandles(p, mapping, handles) ==
  /\ mapped' = mapping \ {m \in mapping : /\ m.p = p
                                          /\ m.i \in 1 .. pend[p].nr_pages
                                          /\ m.ref = handles[p][m.i]}
  /\ handle' = handles

\* unmap_pages: every valid handle of the structure, which becomes invalid.
UnmapPages(p, mapping, handles) ==
  /\ mapped' = mapping \ {m \in mapping : /\ m.p = p
                                          /\ m.i \in 1 .. pend[p].nr_pages
                                          /\ m.ref = handles[p][m.i]}
  /\ handle' = [handles EXCEPT ![p] = [i \in DOMAIN @ |->
                                         IF i <= pend[p].nr_pages THEN INVALID ELSE @[i]]]

\* map_pages_to_req: one hypercall for all segments; each may fail on its own,
\* and then those that did not are unmapped again.
MapPages(p, bad) ==
  LET segs == 1 .. pend[p].nr_pages
      good == {i \in segs : i \notin bad /\ ~Refused(p, i)}
      mapping == mapped \cup {[p |-> p, i |-> i, ref |-> <<pend[p].req, i>>] : i \in good}
      handles == [handle EXCEPT ![p] = [i \in DOMAIN @ |->
                    IF i \in good THEN <<pend[p].req, i>>
                    ELSE IF i \in segs THEN INVALID ELSE @[i]]]
  IN
  /\ pend[p].stage = "claimed" /\ WellFormed(Geom(p))
  /\ bad \subseteq segs /\ (bad # {} => "map" \in Faults)
  /\ IF good = segs
     THEN /\ mapped' = mapping /\ handle' = handles
          /\ pend' = [pend EXCEPT ![p].stage = "mapped"]
          /\ UNCHANGED <<req, work>>
     ELSE /\ UnmapPages(p, mapping, handles)
          /\ Answer(pend[p].req, -1)
          /\ pend' = [pend EXCEPT ![p] = FreePend]
          /\ work' = NoWork
  /\ UNCHANGED <<block, grant, queue, rq_pos, moved>>

\* bio_alloc fails, for the first page or after a refusal: fail_put_bio.  The
\* count is 0 and becomes -1: nobody unmaps, answers or frees.
NoBio(p) ==
  /\ pend[p].stage = "mapped" /\ work.i <= pend[p].nr_pages /\ "bio" \in Faults
  /\ pend' = [pend EXCEPT ![p].stage = "lost", ![p].pendcnt = -1, ![p].status = -1]
  /\ work' = NoWork
  /\ UNCHANGED <<block, req, grant, mapped, handle, queue, rq_pos, moved>>

\* A bio of one page, at the sector the request has come to.  Like a bio_vec it
\* keeps the segments it was built from.
NewBio(p) ==
  [p |-> p, pos |-> work.sector, segs |-> Geom(p).segs,
   next |-> work.i, last |-> work.i, sectors |-> Nsec(Geom(p).segs[work.i])]

\* bio_add_page: the last bio has one page more.
Longer(bios) ==
  LET b == bios[Len(bios)]
  IN  [bios EXCEPT ![Len(bios)] =
         [b EXCEPT !.last = work.i, !.sectors = @ + Nsec(b.segs[work.i])]]

\* Mutant of AddPage: breq.sector_number does not move on.
AddPageStays(p, fits) ==
  /\ pend[p].stage = "mapped" /\ work.i <= pend[p].nr_pages
  /\ fits => work.biolist # <<>>
  /\ work' = [i |-> work.i + 1, sector |-> work.sector,
              biolist |-> IF fits THEN Longer(work.biolist)
                          ELSE Append(work.biolist, NewBio(p))]
  /\ UNCHANGED <<block, req, grant, mapped, pend, handle, queue, rq_pos, moved>>

\* The next page goes to the bio in hand, or bio_add_page refuses it (external)
\* and a new bio is begun.
AddPage(p, fits) ==
  /\ pend[p].stage = "mapped" /\ work.i <= pend[p].nr_pages
  /\ fits => work.biolist # <<>>
  /\ work' = [i |-> work.i + 1,
              sector |-> work.sector + Nsec(Geom(p).segs[work.i]),
              biolist |-> IF fits THEN Longer(work.biolist)
                          ELSE Append(work.biolist, NewBio(p))]
  /\ UNCHANGED <<block, req, grant, mapped, pend, handle, queue, rq_pos, moved>>

\* All pages are in bios: atomic_set(pendcnt, nbio), before the first of them is
\* submitted.
CountBios(p) ==
  /\ pend[p].stage = "mapped" /\ work.i > pend[p].nr_pages
  /\ pend' = [pend EXCEPT ![p].stage = "submitting", ![p].pendcnt = Len(work.biolist)]
  /\ UNCHANGED <<block, req, grant, mapped, handle, work, queue, rq_pos, moved>>

\* A request of the device's queue is a run of bios of one direction, adjacent
\* on the disk: the block layer (external) may append a bio to the last one,
\* whose bio is then joined.  left is history: how many bios of its structure
\* are submitted after it.
Enqueued(bio, dir, merge, left) ==
  LET lst == queue[Len(queue)]
      adjacent == queue # <<>> /\ lst.dir = dir /\ lst.pos + lst.sectors = bio.pos
  IN  [p |-> bio.p, pos |-> bio.pos, segs |-> bio.segs, next |-> bio.next,
       last |-> bio.last, sectors |-> bio.sectors, dir |-> dir,
       joined |-> merge /\ adjacent, left |-> left]

\* submit_bio of the next bio of the list.  After the last one the thread is
\* through with the request.
SubmitBio(p, merge) ==
  LET bio == Head(work.biolist)
      rest == Tail(work.biolist)
  IN
  /\ pend[p].stage = "submitting"
  /\ queue' = Append(queue, Enqueued(bio, pend[p].operation, merge, Len(rest)))
  /\ rq_pos' = IF queue = <<>> THEN bio.pos ELSE rq_pos
  /\ IF rest = <<>>
     THEN work' = NoWork /\ pend' = [pend EXCEPT ![p].stage = "io"]
     ELSE work' = [work EXCEPT !.biolist = rest] /\ UNCHANGED pend
  /\ UNCHANGED <<block, req, grant, mapped, handle, moved>>

-----------------------------------------------------------------------------
(* The RAM disk: blk_device_request *)

\* __blk_end_request_cur (external): the queue without its current chunk, and
\* where the next one is.  A request goes on where it was through the bios joined
\* to it; the next request starts where its first bio does.
Rest ==
  IF Head(queue).next < Head(queue).last
  THEN [queue EXCEPT ![1].next = @ + 1]
  ELSE Tail(queue)

NextPos(n) ==
  IF Len(queue) = 1 \/ Head(queue).next < Head(queue).last \/ queue[2].joined
  THEN rq_pos + n ELSE queue[2].pos

\* Mutant of EndBio: every bio unmaps the pages of the request.
EndBioUnmapsFirst(p) ==
  /\ UnmapPages(p, mapped, handle)
  /\ IF pend[p].pendcnt = 1
     THEN Answer(pend[p].req, pend[p].status) /\ pend' = [pend EXCEPT ![p] = FreePend]
     ELSE pend' = [pend EXCEPT ![p].pendcnt = @ - 1] /\ UNCHANGED req

\* end_block_io_op, when the last chunk of a bio is done.
EndBio(p) ==
  IF pend[p].pendcnt = 1
  THEN /\ UnmapPages(p, mapped, handle)
       /\ Answer(pend[p].req, pend[p].status)
       /\ pend' = [pend EXCEPT ![p] = FreePend]
  ELSE /\ pend' = [pend EXCEPT ![p].pendcnt = @ - 1]
       /\ UNCHANGED <<mapped, handle, req>>

\* blk_device_transfer of the current chunk: blk_rq_pos sectors from the start,
\* blk_rq_cur_sectors of them, to or from the buffer of the chunk.
Transfer ==
  LET bio == Head(queue)
      seg == bio.segs[bio.next]
      r   == pend[bio.p].req
  IN
  /\ queue # <<>>
  /\ moved' = [moved EXCEPT ![r] = @ \o
       [k \in 1 .. Nsec(seg) |-> [sector |-> rq_pos + k - 1, i |-> bio.next,
                                 at |-> seg.first + k - 1, dir |-> bio.dir]]]
  /\ queue' = Rest
  /\ rq_pos' = NextPos(Nsec(seg))
  /\ IF bio.next = bio.last THEN EndBio(bio.p) ELSE UNCHANGED <<pend, mapped, handle, req>>
  /\ UNCHANGED <<block, grant, work>>

-----------------------------------------------------------------------------

Next ==
  \/ \E r \in Request : \/ \E g \in Geometry : QueueRequest(r, g)
                        \/ \E p \in Pending : Claim(p, r)
                        \/ Complete(r)
  \/ \E p \in Pending :
       \/ Reject(p) \/ NoBio(p)
       \/ \E bad \in SUBSET (1 .. MaxSegs) : MapPages(p, bad)
       \/ \E fits \in BOOLEAN : AddPage(p, fits)
       \/ CountBios(p)
       \/ \E merge \in BOOLEAN : SubmitBio(p, merge)
  \/ Transfer

Spec == Init /\ [][Next]_vars

-----------------------------------------------------------------------------
(* Properties *)

\* The sectors of the segments before the i-th.
Before(segs, i) ==
  Cardinality({s \in (1 .. i - 1) \X (0 .. PageSectors - 1) :
                 segs[s[1]].first <= s[2] /\ s[2] <= segs[s[1]].last})

\* Sector by sector, what the i-th segment of a request has to move, and what all
\* of them have.
WantedOf(g, i) ==
  {[sector |-> g.pos + Before(g.segs, i) + k - g.segs[i].first, i |-> i, at |-> k,
    dir |-> g.dir] : k \in g.segs[i].first .. g.segs[i].last}
Wanted(g) == UNION {WantedOf(g, i) : i \in DOMAIN g.segs}

SectorsOnce ==
  \A r \in Request : req[r].st = "ended" =>
    IF req[r].res = 0
    THEN ToSet(moved[r]) = Wanted(req[r].g) /\ IsInjective(moved[r])
    ELSE moved[r] = <<>> /\ (WellFormed(req[r].g) => "map" \in Faults)
BiosAligned == \A n \in DOMAIN queue : queue[n].pos % block = 0

\* Every request that was sent ends as a success to the block layer.  It is one if the
\* back end answered 0: then each of its sectors was moved once, between the
\* right sector of the disk and the right place of the right page, however it
\* was cut into bios, merged with others and done chunk by chunk.  It is none,
\* as nothing was moved, if the back end answered -1, and that takes a request
\* that does not keep to the blocks of the device, or a page that cannot be
\* mapped.  And no bio starts within a block of the device, although the test of
\* dispatch_rw_block_io looks at the position of the request only.
DataLands == SectorsOnce /\ BiosAligned

\* The device never touches a page that is not mapped for this request, or
\* writes one that was granted read-only.
PagesMappedDuringIo ==
  \A n \in DOMAIN queue : \A i \in queue[n].next .. queue[n].last :
    LET b == queue[n]
        ref == <<pend[b.p].req, i>> IN
    /\ [p |-> b.p, i |-> i, ref |-> ref] \in mapped
    /\ \E g \in grant : g.ref = ref /\ (g.ro => b.dir = WRITE)

\* When the front end ends the access to a page nobody maps it any more.
NoMappingOutlivesGrant == \A m \in mapped : \E g \in grant : g.ref = m.ref

\* A structure in the pool holds no handle, so its next use cannot unmap a page
\* of another request, and none of its pages is mapped.
PoolHoldsNoHandle ==
  \A p \in Pending : pend[p].stage = "free" =>
    /\ \A i \in 1 .. MaxSegs : handle[p][i] = INVALID
    /\ ~\E m \in mapped : m.p = p

\* No mapping is left behind, in the tables of the hypervisor or in the pool.
NoStaleMapping == NoMappingOutlivesGrant /\ PoolHoldsNoHandle

=============================================================================
