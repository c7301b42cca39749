------------------------------ MODULE XddClock ------------------------------
(***************************************************************************)
(* The global clock of xdd (global_time.c): a client asks a time server    *)
(* for its clock a number of times and keeps the difference to its own     *)
(* clock, so that the targets of several machines start together.          *)
(*                                                                         *)
(* A bounce leaves at the local time sent, is answered after out units of  *)
(* time and is back after back more.  The server's clock is ahead of the   *)
(* local one by offset, which the client does not know.                    *)
(***************************************************************************)
EXTENDS Integers, Sequences

\* Later than any clock: PCLK_MAX.
Never == 1000000

\* The server's answer, and the local time when it arrives.
RemoteClock(b, offset) == b.sent + b.out + offset
Now(b) == b.sent + b.out + b.back

\* The difference that the quickest bounce gives.
Estimate(remote, now, roundtrip) == remote - (now + (roundtrip \div 2))

\* Mutant of Refine: the difference follows each answer, later ones too.
RefineAlways(delta, remote, now) == remote - now

\* An answer ahead of the clock set so far moves the difference up to it.
Refine(delta, remote, now) ==
    IF remote > now + delta THEN delta + (remote - (now + delta)) ELSE delta

\* The first loop of clk_delta: the estimate of the quickest bounce, as it
\* stands after each of them.
Estimates(bounces, offset) ==
    LET best[i \in 0..Len(bounces)] ==
            IF i = 0 THEN [min |-> Never, delta |-> 0]
            ELSE LET b == bounces[i]
                     roundtrip == Now(b) - b.sent
                 IN IF roundtrip < best[i - 1].min
                    THEN [min |-> roundtrip,
                          delta |-> Estimate(RemoteClock(b, offset), Now(b), roundtrip)]
                    ELSE best[i - 1]
    IN best
Quickest(bounces, offset) == Estimates(bounces, offset)[Len(bounces)].delta

\* The second loop: as many bounces again refine it.
Refinements(delta, bounces, offset) ==
    LET d[i \in 0..Len(bounces)] ==
            IF i = 0 THEN delta
            ELSE Refine(d[i - 1], RemoteClock(bounces[i], offset), Now(bounces[i]))
    IN d
Refined(delta, bounces, offset) == Refinements(delta, bounces, offset)[Len(bounces)]

clk_delta(first, second, offset) == Refined(Quickest(first, offset), second, offset)

\* When, by the local clock, a thread leaves its wait for the global time gts.
ActualLocalStartTime(gts, delta) == gts - delta

-----------------------------------------------------------------------------
(* Properties *)

\* No thread starts before the global time it was given, whatever the delays,
\* and it is late by no more than the quickest way back of the refinement.
StartsOnTime(first, second, offset, gts) ==
    LET late == ActualLocalStartTime(gts, clk_delta(first, second, offset))
                    - (gts - offset)
    IN  /\ late >= 0
        /\ \A i \in 1..Len(second) : late <= second[i].back

=============================================================================
