------------------------------- MODULE XddRaw -------------------------------
(***************************************************************************)
(* Read after write in xdd: the thread that writes a target sends a        *)
(* message for each write it has completed, and a reader elsewhere reads   *)
(* what it has been told of.  The reader blocks until a message comes, so  *)
(* what it does depends on the messages alone: it is a function of them.   *)
(*                                                                         *)
(* A message is [loc, len]: raw_msg.location and raw_msg.length.  The      *)
(* reader's own requests are all iosize long and follow each other.        *)
(***************************************************************************)
EXTENDS Integers, Sequences

Least(a, b) == IF a < b THEN a ELSE b

\* The reader before its first message: raw_msg_sequence, prev_loc, prev_len,
\* data_ready, and the requests it has read.
ReaderInit == [seq |-> 0, prev_loc |-> 0, prev_len |-> 0, data_ready |-> 0, ops |-> 0]

\* Mutant of Received: the length of the last message is forgotten.
ReceivedNoLength(r, m) ==
    IF r.seq > 0 /\ m.loc <= r.prev_loc THEN r
    ELSE LET from == IF r.seq = 0 THEN m.loc ELSE r.prev_loc
             data_length == (m.loc + m.len) - from
         IN [r EXCEPT !.seq = @ + 1, !.prev_loc = m.loc, !.prev_len = 0,
                      !.data_ready = @ + data_length]

\* What a message makes of the reader: an old one is discarded, another adds
\* the data between the end of the last one and its own end.
Received(r, m) ==
    IF r.seq > 0 /\ m.loc <= r.prev_loc THEN r
    ELSE LET from == IF r.seq = 0 THEN m.loc ELSE r.prev_loc + r.prev_len
             data_length == (m.loc + m.len) - from
         IN [r EXCEPT !.seq = @ + 1, !.prev_loc = m.loc, !.prev_len = data_length,
                      !.data_ready = @ + data_length]

\* The reader reads while a whole request is ready; what a short write is
\* taken back for by the next message can leave less than nothing.
ReadOn(r, iosize, total) ==
    LET ready == IF r.data_ready > 0 THEN r.data_ready \div iosize ELSE 0
        n == Least(ready, total - r.ops)
    IN [r EXCEPT !.ops = @ + n, !.data_ready = @ - n * iosize]

\* The reader after each of the messages ms; it is done with them when it has
\* read everything.
ReaderStates(ms, iosize, total) ==
    LET r[i \in 0..Len(ms)] ==
            IF i = 0 THEN ReaderInit
            ELSE IF r[i - 1].ops = total THEN r[i - 1]
            ELSE ReadOn(Received(r[i - 1], ms[i]), iosize, total)
    IN r
ReaderAfter(ms, iosize, total) == ReaderStates(ms, iosize, total)[Len(ms)]

\* The messages of a writer whose k-th write moves lens[k] bytes: a short
\* write does not move the next one.
WriterMessages(lens, iosize) ==
    [k \in 1..Len(lens) |-> [loc |-> (k - 1) * iosize, len |-> lens[k]]]

-----------------------------------------------------------------------------
(* Properties *)

\* The reader never reads past the end of the last write it was told of.
ReaderBehind(lens, iosize) ==
    \A n \in 1..Len(lens) :
        LET ms == SubSeq(WriterMessages(lens, iosize), 1, n)
        IN ReaderAfter(ms, iosize, Len(lens)).ops * iosize <= ms[n].loc + ms[n].len

\* The reader of a writer that makes no short write reads everything, each
\* request as soon as it is written.
ReaderKeepsUp(lens, iosize) ==
    (\A k \in 1..Len(lens) : lens[k] = iosize) =>
        \A n \in 1..Len(lens) :
            LET ms == SubSeq(WriterMessages(lens, iosize), 1, n)
            IN ReaderAfter(ms, iosize, Len(lens)).ops = n

=============================================================================
