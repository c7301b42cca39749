------------------------------ MODULE XddPlan ------------------------------
(***************************************************************************)
(* What the disk benchmark xdd plans to do before it starts: how the       *)
(* requests of a target are dealt out to its queue threads (the end of     *)
(* xdd_parse), how many operations of which size a thread makes of them    *)
(* (xdd_io_thread, xdd_io_loop), and where and whether each one reads or   *)
(* writes (xdd_init_seek_list).                                            *)
(***************************************************************************)
EXTENDS Integers, FiniteSets

Smaller(a, b) == IF a < b THEN a ELSE b

-----------------------------------------------------------------------------
(* Dealing out the requests: n of them over a queue of depth d *)

\* An amount of data is turned into whole requests.  parse.c:2824 leaves out "the
\* last request that might be small"; nothing adds it again.
RequestsOf(bytes, iosize) == bytes \div iosize

\* A queue deeper than the number of requests is cut to it.
Depth(n, d) == IF n > 0 /\ n < d THEN n ELSE d

Residual(n, d) == IF n > 0 /\ n < d THEN 0 ELSE n % d

\* Mutant of QueueRequests: the first thread takes no residual request.
QueueRequestsSkipFirst(n, d, q) ==
    (IF n > 0 /\ n < d THEN 1 ELSE n \div d)
        + (IF q > 0 /\ q < Residual(n, d) THEN 1 ELSE 0)

\* The requests of queue thread q: its share, and one of the residual ones.
QueueRequests(n, d, q) ==
    (IF n > 0 /\ n < d THEN 1 ELSE n \div d)
        + (IF q < Residual(n, d) THEN 1 ELSE 0)

\* The number of thread q of a target whose first number is first.  The loop
\* writes the number of the thread it has just made into the one before it,
\* after the new one was copied from the target's first.
mythreadnum(first, d, q) ==
    CASE q < d - 1 -> first + q + 1
      [] q = d - 1 /\ q < 2 -> first
      [] OTHER -> first + 1

-----------------------------------------------------------------------------
(* What a thread makes of its share *)

\* The number of requests comes before the amount asked for, which counts only
\* if it is less than one request.
bytestoxfer(numreqs, bytes, iosize) ==
    IF numreqs # 0 THEN numreqs * iosize ELSE bytes

total_ops(bytes, iosize) ==
    (bytes \div iosize) + (IF bytes % iosize # 0 THEN 1 ELSE 0)

\* The length of an operation when done bytes are transferred.
actual_iosize(bytes, done, iosize) == Smaller(iosize, bytes - done)

\* The bytes transferred by the first k operations of a pass.
Transferred(bytes, iosize, k) ==
    LET done[i \in 0..k] ==
            IF i = 0 THEN 0
            ELSE done[i - 1] + actual_iosize(bytes, done[i - 1], iosize)
    IN done[k]

-----------------------------------------------------------------------------
(* The seek list *)

\* C divides towards zero.
Truncated(a, b) == IF a >= 0 THEN a \div b ELSE -((-a) \div b)

\* The blocks between the requests of a staggered list; one request alone
\* divides by 0.
Gap(range, req, ops) == Truncated((range - req) - ops * req, ops - 1)

\* The first block of operation k of queue thread q.
Location(start, q, interleave, req, gap, k) ==
    start + (IF interleave > 1 THEN (q % interleave) * req ELSE 0)
          + k * ((req * interleave) + gap)

\* The share of reads is a number of tenths.
percent_op(ratio, k) == (ratio * k) \div 10

\* What operation k compares with: a list with more reads than writes starts
\* with a read.
previous_percent_op(ratio, k) ==
    IF k > 0 THEN percent_op(ratio, k - 1)
    ELSE IF ratio >= 5 THEN -1 ELSE 0

IsRead(ratio, k) == percent_op(ratio, k) > previous_percent_op(ratio, k)

-----------------------------------------------------------------------------
(* Properties *)

\* The blocks of all operations of the queue threads of a target.
BlocksOf(n, d, req, q) ==
    {Location(0, q, Depth(n, d), req, 0, k) + b :
        k \in 0..(QueueRequests(n, d, q) - 1), b \in 0..(req - 1)}

\* The queue threads of a target cover its first n requests, and no two of
\* them touch the same block (parse.c, "Some qthreads will have more requests
\* than others to account for the difference").
EachBlockOnce(n, d, req) ==
    LET threads == 0..(Depth(n, d) - 1)
    IN  /\ UNION {BlocksOf(n, d, req, q) : q \in threads} = 0..(n * req - 1)
        /\ \A q, r \in threads :
               q # r => BlocksOf(n, d, req, q) \cap BlocksOf(n, d, req, r) = {}

\* A thread that is given an amount of data transfers all of it, with no
\* operation beyond it and no empty one.
AllBytesMoved(bytes, iosize) ==
    /\ Transferred(bytes, iosize, total_ops(bytes, iosize)) = bytes
    /\ \A k \in 1..total_ops(bytes, iosize) :
           Transferred(bytes, iosize, k) > Transferred(bytes, iosize, k - 1)

\* The bytes of a target that queue thread q transfers when bytes of them are
\* asked for: its share of them, one operation after the other.
Share(bytes, iosize, d, q) ==
    bytestoxfer(QueueRequests(RequestsOf(bytes, iosize), d, q), bytes, iosize)

BytesOf(bytes, iosize, d, q) ==
    LET share == Share(bytes, iosize, d, q)
        At(k) == Location(0, q, Depth(RequestsOf(bytes, iosize), d), iosize, 0, k)
        Length(k) == actual_iosize(share, Transferred(share, iosize, k), iosize)
    IN  UNION {{At(k) + b : b \in 0..(Length(k) - 1)} : k \in 0..(total_ops(share, iosize) - 1)}

\* An amount of less than one request, where request q starts.
AmountAt(bytes, iosize, q) == {(q * iosize) + b : b \in 0..(bytes - 1)}

\* What becomes of an amount asked for (-mbytes, -kbytes).  Each thread moves
\* all of its share, and no two of them move the same byte.  Together they move
\* the whole requests of the amount, and not what is left of it after these,
\* although xdd.c:893-896 has a last short operation for that.  An amount of less
\* than one request is moved by every thread, each at a place of its own.
AmountMoved(bytes, iosize, d) ==
    LET threads == 0..(Depth(RequestsOf(bytes, iosize), d) - 1)
    IN  /\ \A q \in threads : AllBytesMoved(Share(bytes, iosize, d, q), iosize)
        /\ \A q, r \in threads :
               q # r => BytesOf(bytes, iosize, d, q) \cap BytesOf(bytes, iosize, d, r) = {}
        /\ UNION {BytesOf(bytes, iosize, d, q) : q \in threads} =
               IF bytes >= iosize THEN 0..(bytes - (bytes % iosize) - 1)
               ELSE UNION {AmountAt(bytes, iosize, q) : q \in threads}

\* The requests of a staggered list stay in the range and do not overlap, if
\* the range has room for one more than there are.
StaggerInRange(range, req, ops) ==
    (ops > 1 /\ (ops + 1) * req <= range) =>
        \A k \in 0..(ops - 1) :
            LET at == Location(0, 0, 1, req, Gap(range, req, ops), k)
            IN  /\ at >= k * req
                /\ at + req <= range - req

\* A list has the reads its ratio asks for, at most 0.5 more or 1.3 fewer, and
\* a list of reads or of writes alone has nothing else.
ReadShare(ratio, ops) ==
    LET reads == Cardinality({k \in 0..(ops - 1) : IsRead(ratio, k)})
    IN  /\ 10 * reads - ratio * ops \in -13..5
        /\ ratio = 10 => reads = ops
        /\ ratio = 0 => reads = 0

=============================================================================
