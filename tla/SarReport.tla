------------------------------ MODULE SarReport ------------------------------
(***************************************************************************)
(* How sar and sadf go through a daily data file.  A file is the sequence  *)
(* of its records; a comment is followed by its text.  sar reads a segment *)
(* between two restarts once for each activity, coming back to its start,  *)
(* and stops after the number of lines asked for.                          *)
(***************************************************************************)
EXTENDS Integers, SequencesExt

\* The items that sadc writes for records of these types.
Items(records) ==
    FlattenSeq([i \in DOMAIN records |->
        IF records[i] = "comment" THEN <<"comment", "text">> ELSE <<records[i]>>])

\* What ends a loop: the end of the file, a restart, the count of lines, or a
\* text where a record header should be.
Stop(at, cnt, why) == [at |-> at, cnt |-> cnt, why |-> why, shown |-> {}]
Show(p, rest) == [rest EXCEPT !.shown = @ \cup {p}]

\* The lines of one activity, from fpos; count is -1 for all of them.
handle_curr_act_stats(f, fpos, count) ==
    LET Loop[p \in 1..(Len(f) + 2), cnt \in -1..count] ==
          IF p > Len(f) THEN Stop(p, cnt, "eof")
          ELSE CASE f[p] = "restart" -> Stop(p + 1, cnt, "restart")
                 [] f[p] = "comment" -> Loop[p + 2, cnt]
                 [] f[p] = "text"    -> Stop(p, cnt, "lost")
                 [] f[p] = "stats"   ->
                      Show(p, IF cnt = 1 THEN Stop(p + 1, 0, "count")
                              ELSE Loop[p + 1, IF cnt > 0 THEN cnt - 1 ELSE cnt])
    IN  Loop[fpos, count]

\* sadf has the same loop.
read_curr_act_stats(f, fpos, count) == handle_curr_act_stats(f, fpos, count)

\* To the next restart, when the count is used up.  The text of a comment is
\* not read.
ToNextRestart(f, from) ==
    LET Loop[p \in 1..(Len(f) + 1)] ==
          IF p > Len(f) THEN Stop(p, 0, "eof")
          ELSE CASE f[p] = "restart" -> Stop(p + 1, 0, "restart")
                 [] f[p] = "text"    -> Stop(p, 0, "lost")
                 [] OTHER            -> Loop[p + 1]
    IN  Loop[from]

\* The first sample from p on, 0 if there is none.
FirstSample(f, from) ==
    LET Loop[p \in 1..(Len(f) + 2)] ==
          IF p > Len(f) THEN 0
          ELSE CASE f[p] = "restart" -> Loop[p + 1]
                 [] f[p] = "comment" -> Loop[p + 2]
                 [] f[p] = "stats"   -> p
    IN  Loop[from]

\* Mutant of handle_curr_act_stats: the second activity goes on where the first
\* one has stopped.
PassesGoOn(f, fpos, count, acts) ==
    LET Pass[a \in 1..acts] ==
          handle_curr_act_stats(f, IF a = 1 THEN fpos ELSE Pass[a - 1].at, count)
    IN  Pass

\* A segment, once for each activity.
Passes(f, fpos, count, acts) ==
    [a \in 1..acts |-> handle_curr_act_stats(f, fpos, count)]

\* The samples shown for each activity, and whether the reader has lost its way.
Report(f, count, acts) ==
    LET Nothing == [lines |-> [a \in 1..acts |-> {}], lost |-> FALSE]
        From[p \in 1..(Len(f) + 2)] ==
          LET first == FirstSample(f, p)
              pass  == Passes(f, first + 1, count, acts)
              last  == pass[acts]
              end   == IF last.cnt = 0 THEN ToNextRestart(f, last.at) ELSE last
              rest  == IF end.why = "restart" THEN From[end.at] ELSE Nothing
          IN  IF first = 0 THEN Nothing
              ELSE [lines |-> [a \in 1..acts |-> pass[a].shown \cup rest.lines[a]],
                    lost  |-> end.why = "lost" \/ rest.lost]
    IN  From[1]

read_stats_from_file(f, count) == Report(f, count, 2)
main_display_loop(f, count, horizontally) == Report(f, count, IF horizontally THEN 1 ELSE 2)

\* sadf -x goes through the file once, without a count, and reads every text.
xml_display_loop(f) ==
    LET Loop[p \in 1..(Len(f) + 2), inside \in BOOLEAN] ==
          IF p > Len(f) THEN {}
          ELSE CASE f[p] = "restart" -> Loop[p + 1, FALSE]
                 [] f[p] = "comment" -> Loop[p + 2, inside]
                 [] f[p] = "stats"   -> (IF inside THEN {p} ELSE {}) \cup Loop[p + 1, TRUE]
    IN  Loop[1, FALSE]

-----------------------------------------------------------------------------
(* What a report should hold *)

\* The samples before p since the last restart.
Before(f, p) ==
    {q \in 1..(p - 1) : f[q] = "stats" /\ \A r \in q..p : f[r] = "restart" => r = p}

\* All but the first sample of each segment, up to the count.
Wanted(f, count) ==
    {p \in DOMAIN f : /\ f[p] = "stats" /\ Before(f, p) # {}
                      /\ count # -1 => Cardinality(Before(f, p)) <= count}

\* The known fault: a comment behind the last line that is shown.
CommentBehind(f, count) ==
    \E p \in DOMAIN f : f[p] = "comment" /\ count # -1 /\ Cardinality(Before(f, p)) > count

\* The report of f is what was asked for, for every activity.
ReportRight(f, count) ==
    /\ \A report \in {read_stats_from_file(f, count),
                      main_display_loop(f, count, TRUE), main_display_loop(f, count, FALSE)} :
         /\ report.lost <=> CommentBehind(f, count)
         /\ ~report.lost => \A a \in DOMAIN report.lines : report.lines[a] = Wanted(f, count)
    /\ xml_display_loop(f) = Wanted(f, -1)

=============================================================================
