----------------------------- MODULE SadcFiles ------------------------------
(***************************************************************************)
(* The daily data files of sysstat and the sadc processes that write them. *)
(*                                                                         *)
(* cron starts a sadc for one sample, another one for some samples, the    *)
(* boot script one that notes the restart, an operator one that leaves a   *)
(* comment, and a user may run `sar -o', whose sadc writes to a file and   *)
(* to sar's pipe. They meet in the file of the day. A file is the sequence *)
(* of what the calls of write_all put there, in whole items; flock,        *)
(* O_APPEND and the position of a descriptor are the system's, as sadc     *)
(* uses them.                                                              *)
(***************************************************************************)
EXTENDS Integers, Sequences

CONSTANTS
    Writer,     \* the sadc processes
    Crews,      \* what the processes of an instance are
    MaxDay,     \* bound: the days of a behaviour
    Samples,    \* how many samples a process that stays takes
    Lines,      \* how many lines the user of sar asks for
    MaxDeaths   \* bound: how many processes are killed

Kind == {"cron", "boot", "hourly", "report", "note", "none"}

ASSUME SadcAssumption ==
    /\ Crews \subseteq [Writer -> Kind]
    /\ MaxDay \in Nat \ {0} /\ Samples \in Nat /\ Lines \in Nat /\ MaxDeaths \in Nat

Day == 1..MaxDay

VARIABLES
    day,        \* today
    made, file, \* which daily files exist, and what is in them
    lock,       \* the processes that hold the lock of a file: one, or none
    kind,       \* what each process was started for
    pc, ofile,  \* where a process is, and the file it has open
    append, at, \* O_APPEND, or else the position of the descriptor
    list,       \* id_seq and AO_COLLECTED: the activities it writes
    flagged,    \* S_F_FILE_LOCKED
    left,       \* samples still to be taken
    due, again, \* do_sa_rotat with new_ofile; the sample is being repeated
    pipe,       \* from the sadc of sar to sar
    want,       \* what sar reads next
    type,       \* the record type it has read
    sarlist, lines,
    deaths,
    accident    \* history: what has gone wrong with a file

files == <<made, file, lock, accident>>
sar   == <<want, type, sarlist, lines>>
vars  == <<day, files, kind, pc, ofile, append, at, list, flagged, left,
           due, again, pipe, sar, deaths>>

Magic     == [k |-> "magic"]
List(a)   == [k |-> "list", of |-> a]
Rec(t)    == [k |-> "rec", of |-> t]
Stats(a)  == [k |-> "stats", of |-> a]
Foreign   == [k |-> "foreign"]
Text      == [k |-> "text"]
Hole      == [k |-> "hole"]

\* Lists this sadc cannot append to: one with activities or sizes it does not
\* know, one that is empty.
Unfit == {"old", "none"}

\* sa1 gives -L and -F; sar gives neither.
Careful(w) == kind[w] # "report"
Special(w) == kind[w] \in {"boot", "note"}
Piped(w)   == kind[w] = "report"
Asked(k)   == CASE k = "boot" -> "default" [] k = "report" -> "all" [] OTHER -> "disk"
Count(k)   == CASE k = "hourly" -> Samples [] k = "report" -> Lines + 1 [] OTHER -> 1

\* A file may be there from before: touched by sa1, of an older sadc, of
\* another program, or of this sadc.
Before == {<<>>, <<Foreign>>, <<Magic, List("old"), Rec("restart")>>,
           <<Magic, List("default"), Rec("restart")>>}

Init ==
    /\ day = 1
    /\ \E content \in Before :
         /\ made \in {{}, {1}, {MaxDay}}
         /\ file = [d \in Day |-> IF d \in made THEN content ELSE <<>>]
         /\ made = {} => content = <<>>
    /\ lock = [d \in Day |-> {}]
    /\ kind \in Crews
    /\ pc = [w \in Writer |-> "off"]
    /\ ofile = [w \in Writer |-> 1]
    /\ append = [w \in Writer |-> FALSE] /\ at = [w \in Writer |-> 0]
    /\ list = [w \in Writer |-> Asked(kind[w])]
    /\ flagged = [w \in Writer |-> FALSE]
    /\ left = [w \in Writer |-> Count(kind[w])]
    /\ due = [w \in Writer |-> 0] /\ again = [w \in Writer |-> FALSE]
    /\ pipe = <<>>
    /\ want = "magic" /\ type = "stats" /\ sarlist = "none" /\ lines = -1
    /\ deaths = 0
    /\ accident = [d \in Day |-> {}]

-----------------------------------------------------------------------------
(* The steps of a process *)

GoTo(w, place) == pc' = [pc EXCEPT ![w] = place]

\* close, also by exit: the lock goes with the descriptor.
Unlock(w) == lock' = [d \in Day |-> lock[d] \ {w}]
Exit(w)   == GoTo(w, "exited") /\ Unlock(w)

Holds(w) == w \in lock[ofile[w]]
Free(w)  == lock[ofile[w]] = {}
TakeLock(w) ==
    /\ lock' = [lock EXCEPT ![ofile[w]] = {w}]
    /\ flagged' = [flagged EXCEPT ![w] = TRUE]

\* write_all: at the end of the file or at the position of the descriptor.
\* held says whether the process has the lock; one that never asks for it, or
\* goes by the flag of another file, makes this an accident.
Put(w, item, held) ==
    LET f    == ofile[w]
        size == Len(file[f])
        pos  == IF append[w] THEN size + 1 ELSE at[w] + 1
    IN  /\ file' = [file EXCEPT ![f] =
             [i \in 1..(IF pos > size THEN pos ELSE size) |->
                IF i = pos THEN item ELSE IF i <= size THEN file[f][i] ELSE Hole]]
        /\ at' = [at EXCEPT ![w] = pos]
        /\ accident' = [accident EXCEPT ![f] =
             IF ~held /\ (~Careful(w) \/ flagged[w]) THEN @ \cup {"unlocked"} ELSE @]
        /\ UNCHANGED made

\* What follows once open_ofile has returned.
Opened(w) == IF Piped(w) THEN "header"
             ELSE IF Special(w) \/ again[w] THEN "save" ELSE "take"

Start(w) ==
    /\ pc[w] = "off" /\ kind[w] # "none"
    /\ ofile' = [ofile EXCEPT ![w] = day]
    /\ GoTo(w, "open")
    /\ UNCHANGED <<day, files, kind, append, at, list, flagged, left, due, again, pipe, sar, deaths>>

Find(w) ==
    /\ pc[w] = "open"
    /\ GoTo(w, IF ofile[w] \in made THEN "magic" ELSE "create")
    /\ UNCHANGED <<day, files, kind, ofile, append, at, list, flagged, left, due, again, pipe, sar, deaths>>

\* An empty file is created again, a foreign one if -F allows it.
ReadMagic(w) ==
    LET content == file[ofile[w]] IN
    /\ pc[w] = "magic"
    /\ \/ content = <<>> /\ GoTo(w, "create") /\ UNCHANGED lock
       \/ content # <<>> /\ content[1] = Magic /\ GoTo(w, "list") /\ UNCHANGED lock
       \/ content # <<>> /\ content[1] # Magic /\ Careful(w) /\ GoTo(w, "create") /\ UNCHANGED lock
       \/ content # <<>> /\ content[1] # Magic /\ ~Careful(w) /\ Exit(w)
    /\ UNCHANGED <<day, made, file, accident, kind, ofile, append, at, list, flagged, left, due, again, pipe, sar, deaths>>

\* The list of the file prevails.  If it is unfit the process is left with no
\* activity at all, and if it may it creates the file again like that.
ReadList(w) ==
    LET content == file[ofile[w]]
        there   == Len(content) > 1 /\ content[2].k = "list"
        fits    == there /\ content[2].of \notin Unfit
    IN
    /\ pc[w] = "list"
    /\ \/ /\ fits
          /\ list' = [list EXCEPT ![w] = content[2].of]
          /\ append' = [append EXCEPT ![w] = TRUE]
          /\ GoTo(w, Opened(w)) /\ UNCHANGED lock
       \/ /\ there /\ ~fits /\ Careful(w)
          /\ list' = [list EXCEPT ![w] = "none"]
          /\ GoTo(w, "create") /\ UNCHANGED <<append, lock>>
       \/ /\ ~there \/ (~fits /\ ~Careful(w))
          /\ Exit(w) /\ UNCHANGED <<append, list>>
    /\ UNCHANGED <<day, made, file, accident, kind, ofile, at, flagged, left, due, again, pipe, sar, deaths>>

\* Mutant of create_sa_file: truncated before the lock is asked for.
OpenNewTruncates(w) ==
    /\ pc[w] = "create"
    /\ made' = made \cup {ofile[w]}
    /\ file' = [file EXCEPT ![ofile[w]] = <<>>]
    /\ append' = [append EXCEPT ![w] = FALSE] /\ at' = [at EXCEPT ![w] = 0]
    /\ GoTo(w, "lock")
    /\ UNCHANGED <<day, lock, accident, kind, ofile, list, flagged, left, due, again, pipe, sar, deaths>>

\* create_sa_file: open, lock, truncate, and then the headers.
OpenNew(w) ==
    /\ pc[w] = "create"
    /\ made' = made \cup {ofile[w]}
    /\ append' = [append EXCEPT ![w] = FALSE] /\ at' = [at EXCEPT ![w] = 0]
    /\ GoTo(w, "lock")
    /\ UNCHANGED <<day, file, lock, accident, kind, ofile, list, flagged, left, due, again, pipe, sar, deaths>>

LockNew(w) ==
    /\ pc[w] = "lock"
    /\ \/ Careful(w) /\ Free(w) /\ TakeLock(w) /\ GoTo(w, "truncate")
       \/ Careful(w) /\ ~Free(w) /\ Exit(w) /\ UNCHANGED flagged
       \/ ~Careful(w) /\ GoTo(w, "truncate") /\ UNCHANGED <<lock, flagged>>
    /\ UNCHANGED <<day, made, file, accident, kind, ofile, append, at, list, left, due, again, pipe, sar, deaths>>

\* A file that was empty or unfit when it was read may not be so any more.
Valuable(content) ==
    content # <<>> /\ content[1] = Magic /\ (Len(content) > 1 => content[2].of \notin Unfit)
Truncate(w) ==
    LET f == ofile[w] IN
    /\ pc[w] = "truncate"
    /\ file' = [file EXCEPT ![f] = <<>>]
    /\ accident' = [accident EXCEPT ![f] =
         IF ~Holds(w) /\ ~Careful(w) THEN @ \cup {"unlocked"}
         ELSE IF Valuable(file[f]) THEN @ \cup {"emptied"} ELSE @]
    /\ GoTo(w, "wmagic")
    /\ UNCHANGED <<day, made, lock, kind, ofile, append, at, list, flagged, left, due, again, pipe, sar, deaths>>

WriteMagic(w) ==
    /\ pc[w] = "wmagic"
    /\ Put(w, Magic, Holds(w)) /\ GoTo(w, "wlist")
    /\ UNCHANGED <<day, lock, kind, ofile, append, list, flagged, left, due, again, pipe, sar, deaths>>

WriteList(w) ==
    /\ pc[w] = "wlist"
    /\ Put(w, List(list[w]), Holds(w)) /\ GoTo(w, Opened(w))
    /\ UNCHANGED <<day, lock, kind, ofile, append, list, flagged, left, due, again, pipe, sar, deaths>>

\* The header on the pipe: at the start, and after each change of file.
PipeHeader(w) ==
    /\ pc[w] = "header"
    /\ pipe' = pipe \o <<Magic, List(list[w])>>
    /\ GoTo(w, IF again[w] THEN "save" ELSE "take")
    /\ UNCHANGED <<day, files, kind, ofile, append, at, list, flagged, left, due, again, sar, deaths>>

\* Mutant of rw_sa_stat_loop: the record before a change of file looks like any
\* other.
TakeSampleUntold(w) ==
    /\ pc[w] = "take"
    /\ pipe' = IF Piped(w) THEN pipe \o <<Rec("stats"), Stats(list[w])>> ELSE pipe
    /\ GoTo(w, "save")
    /\ UNCHANGED <<day, files, kind, ofile, append, at, list, flagged, left, due, again, sar, deaths>>

\* The sample is taken, and written to the pipe if there is one.
TakeSample(w) ==
    /\ pc[w] = "take"
    /\ pipe' = IF Piped(w)
               THEN pipe \o <<Rec(IF due[w] # 0 THEN "last" ELSE "stats"), Stats(list[w])>>
               ELSE pipe
    /\ GoTo(w, "save")
    /\ UNCHANGED <<day, files, kind, ofile, append, at, list, flagged, left, due, again, sar, deaths>>

\* The record a process writes, and what comes after its header.
RecordOf(w) == CASE kind[w] = "boot" -> Rec("restart") [] kind[w] = "note" -> Rec("comment")
                 [] OTHER -> Rec("stats")
BodyOf(w)   == IF kind[w] = "note" THEN Text ELSE Stats(list[w])

\* After a sample is written, or not because of the lock.
Saved(w) == IF due[w] # 0 THEN "rotate" ELSE "end"

\* The lock is asked for unless the flag is set; without it a sample is left
\* out, a special record ends the process.
WriteRecord(w) ==
    /\ pc[w] = "save"
    /\ \/ /\ flagged[w] \/ ~Careful(w)
          /\ Put(w, RecordOf(w), Holds(w))
          /\ GoTo(w, IF kind[w] = "boot" THEN "end" ELSE "body")
          /\ UNCHANGED <<lock, flagged>>
       \/ /\ ~flagged[w] /\ Careful(w) /\ Free(w)
          /\ TakeLock(w)
          /\ Put(w, RecordOf(w), TRUE)
          /\ GoTo(w, IF kind[w] = "boot" THEN "end" ELSE "body")
       \/ /\ ~flagged[w] /\ Careful(w) /\ ~Free(w)
          /\ IF Special(w) THEN Exit(w) ELSE GoTo(w, Saved(w)) /\ UNCHANGED lock
          /\ UNCHANGED <<made, file, at, accident, flagged>>
    /\ UNCHANGED <<day, kind, ofile, append, list, left, due, again, pipe, sar, deaths>>

WriteBody(w) ==
    /\ pc[w] = "body"
    /\ Put(w, BodyOf(w), Holds(w)) /\ GoTo(w, Saved(w))
    /\ UNCHANGED <<day, lock, kind, ofile, append, list, flagged, left, due, again, pipe, sar, deaths>>

\* The file of the day before is closed; S_F_FILE_LOCKED stays set.
Rotate(w) ==
    /\ pc[w] = "rotate"
    /\ Unlock(w)
    /\ ofile' = [ofile EXCEPT ![w] = due[w]]
    /\ due' = [due EXCEPT ![w] = 0] /\ again' = [again EXCEPT ![w] = TRUE]
    /\ GoTo(w, "open")
    /\ UNCHANGED <<day, made, file, accident, kind, append, at, list, flagged, left, pipe, sar, deaths>>

EndOfTurn(w) ==
    /\ pc[w] = "end"
    /\ left' = [left EXCEPT ![w] = @ - 1] /\ again' = [again EXCEPT ![w] = FALSE]
    /\ IF left[w] = 1 THEN GoTo(w, "done") /\ Unlock(w)
                      ELSE GoTo(w, "pause") /\ UNCHANGED lock
    /\ UNCHANGED <<day, made, file, accident, kind, ofile, append, at, list, flagged, due, pipe, sar, deaths>>

Wake(w) ==
    /\ pc[w] = "pause"
    /\ due' = [due EXCEPT ![w] = IF day # ofile[w] THEN day ELSE 0]
    /\ GoTo(w, "take")
    /\ UNCHANGED <<day, files, kind, ofile, append, at, list, flagged, left, again, pipe, sar, deaths>>

\* Killed, or out of disk: what was half written stays, and the lock is free.
\* One that has no lock could as well never go on.
Die(w) ==
    /\ deaths < MaxDeaths /\ Holds(w)
    /\ deaths' = deaths + 1
    /\ GoTo(w, "dead") /\ Unlock(w)
    /\ accident' = IF pc[w] \in {"wlist", "body"}
                   THEN [accident EXCEPT ![ofile[w]] = @ \cup {"torn"}] ELSE accident
    /\ UNCHANGED <<day, made, file, kind, ofile, append, at, list, flagged, left, due, again, pipe, sar>>

Sadc(w) ==
    \/ Start(w) \/ Find(w) \/ ReadMagic(w) \/ ReadList(w)
    \/ OpenNew(w) \/ LockNew(w) \/ Truncate(w) \/ WriteMagic(w) \/ WriteList(w)
    \/ PipeHeader(w) \/ TakeSample(w) \/ WriteRecord(w) \/ WriteBody(w)
    \/ Rotate(w) \/ EndOfTurn(w) \/ Wake(w)

NextDay ==
    /\ day < MaxDay
    /\ day' = day + 1
    /\ UNCHANGED <<files, kind, pc, ofile, append, at, list, flagged, left, due, again, pipe, sar, deaths>>

-----------------------------------------------------------------------------
(* sar *)

SarUnchanged ==
    UNCHANGED <<day, files, kind, pc, ofile, append, at, list, flagged, left, due, again, deaths>>

\* After a bunch or a header: another bunch, or the averages.
More(shown) == IF shown = Lines THEN "done" ELSE "rec"

ReadHeader ==
    /\ pipe # <<>> /\ want \in {"magic", "list"} /\ Head(pipe).k = want
    /\ pipe' = Tail(pipe)
    /\ \/ want = "magic" /\ want' = "list" /\ UNCHANGED sarlist
       \/ want = "list" /\ want' = More(lines) /\ sarlist' = Head(pipe).of
    /\ UNCHANGED <<type, lines>> /\ SarUnchanged

\* The first bunch is kept to compare with and shows no line.
ReadBunch ==
    /\ pipe # <<>> /\ want \in {"rec", "stats"} /\ Head(pipe).k = want
    /\ want = "stats" => Head(pipe).of = sarlist
    /\ pipe' = Tail(pipe)
    /\ \/ want = "rec" /\ want' = "stats" /\ type' = Head(pipe).of /\ UNCHANGED lines
       \/ /\ want = "stats" /\ lines' = lines + 1
          /\ want' = IF type = "last" THEN "magic" ELSE More(lines + 1)
          /\ UNCHANGED type
    /\ UNCHANGED sarlist /\ SarUnchanged

Sar == ReadHeader \/ ReadBunch

Next == NextDay \/ Sar \/ \E w \in Writer : Sadc(w) \/ Die(w)

Spec == Init /\ [][Next]_vars

\* sar runs, and the sadc it has started; alarms come.
FairSpec == Spec /\ WF_vars(Sar) /\ \A w \in Writer : WF_vars(Piped(w) /\ Sadc(w))

-----------------------------------------------------------------------------
(* What must hold *)

\* A file is headers and then records, each with what belongs to it; only the
\* last one may still be under way, in the hands of a process that lives.
Writing(f) == \E w \in Writer : ofile[w] = f /\ pc[w] \in {"wlist", "body"}
Whole(f) ==
    LET content == file[f] IN
    \/ content \in {<<>>, <<Foreign>>}
    \/ content = <<Magic>> /\ Writing(f)
    \/ /\ Len(content) > 1 /\ content[1] = Magic /\ content[2].k = "list"
       /\ \A i \in 3..Len(content) :
            CASE content[i - 1] = Rec("stats")   -> content[i] = Stats(content[2].of)
              [] content[i - 1] = Rec("comment") -> content[i] = Text
              [] OTHER                           -> content[i].k = "rec"
       /\ content[Len(content)] \in {Rec("stats"), Rec("comment")} => Writing(f)

\* The locking keeps the records of a file whole, with the activities its
\* header names, whoever creates, rotates and appends at the same time - but
\* for three accidents: a write without the lock, by a process that was not
\* told to lock or that has changed to an existing file (sadc.c:589, 435); a
\* process killed between two writes; a file emptied by one that had found it
\* empty or unfit before another filled it (sadc.c:556).
RecordsWhole == \A f \in Day : accident[f] = {} => Whole(f)

\* A user of `sar -o -' is shown all the lines asked for, also when the file
\* changes on the way and its list of activities with it, unless sadc fails.
SarServed ==
    (\E w \in Writer : Piped(w))
      => <>(want = "done" \/ \E w \in Writer : Piped(w) /\ pc[w] \in {"exited", "dead"})

=============================================================================
