----------------------------- MODULE XddOptions -----------------------------
(***************************************************************************)
(* The command line of xdd (parse.c).  Every option has a function of its  *)
(* own that sets members of one target, of all targets or of the whole     *)
(* run, and returns how many words it has used: 0 and -1 end the program.  *)
(* xdd_parse_args goes by what they return, with two counters that must    *)
(* say the same: the next word, and how many words are left.               *)
(*                                                                         *)
(* A word is a record: whether it starts with '-', what it says and what   *)
(* atoi makes of it.  Members are named as in the code and are absent      *)
(* until set; factors of units (TRILLION, 1024) are left out.  Files that  *)
(* are to be written can be opened, numbers of targets are in range where  *)
(* the code does not look.                                                 *)
(***************************************************************************)
EXTENDS Integers, Sequences, TLC, SequencesExt, FiniteSetsExt

CONSTANTS
    MaxTargets,     \* MAX_TARGETS
    Cpus            \* what xdd_linux_cpu_count finds

ASSUME OptionsAssumption ==
    /\ MaxTargets \in Nat \ {0}
    /\ Cpus \in Nat \ {0}

Targets == 0..(MaxTargets - 1)

Word(w) == [o |-> FALSE, w |-> w, n |-> 0]
Number(n) == [o |-> FALSE, w |-> "", n |-> n]
Option(w) == [o |-> TRUE, w |-> w, n |-> 0]

\* argv[argc], and what a pointer behind it may hold.
Null == Word("NULL")

\* The word k places behind the option; a handler sees the words of the line,
\* not the number of them.
Arg(a, k) == IF k \in DOMAIN a THEN a[k] ELSE Null
Says(a, k, w) == Arg(a, k) = Word(w)

\* The state: members of each target, of the run, and the parameter file.
Defaults(file) ==
    [t |-> [j \in Targets |-> << >>], g |-> << >>, targets |-> 0, file |-> file]

-----------------------------------------------------------------------------
(* What a handler returns *)

Reading == 3        \* there is more of the line
Finished == 1       \* the line is read to its end
Refused == 0        \* an error was reported: exit(0)
Leave == -1         \* help was asked for: exit(1)
Crash == -2         \* a null pointer, or a variable that was never set, is used

Result(x, status) == [x |-> x, status |-> status]

SetRun(x, members) == [x EXCEPT !.g = members @@ @]

\* Members of target t, or of every target if t is negative.
SetTarget(x, t, members) ==
    [x EXCEPT !.t = [j \in Targets |->
        IF t < 0 \/ j = t THEN members @@ x.t[j] ELSE x.t[j]]]

\* The words used before the option's own, and the target, or -1 for all.
\* Without a number behind "target" the caller's variable stays as it was.
\* "previous" is looked for in argv[0], the option itself, and never found.
xdd_parse_target_number(argc, a) ==
    IF argc <= 1 \/ ~Says(a, 1, "target") THEN [args |-> 0, t |-> -1]
    ELSE IF argc < 3 THEN [args |-> -1, t |-> -1]
    ELSE [args |-> 2, t |-> Arg(a, 2).n]

\* Where the option's own words start.
First(at) == IF at.t >= 0 THEN at.args + 1 ELSE 1

\* An option without a value.  It looks for the error of
\* xdd_parse_target_number.
FlagOption(argc, a, x, target, run) ==
    LET at == xdd_parse_target_number(argc, a)
    IN  IF at.args < 0 THEN Result(x, Refused)
        ELSE Result(SetTarget(SetRun(x, run), at.t, target), First(at))

\* An option with a number.  It does not.
NumberOption(argc, a, x, Valid(_), Members(_)) ==
    LET at == xdd_parse_target_number(argc, a)
        value == Arg(a, First(at))
    IN  CASE at.args < 0 \/ value = Null -> Result(x, Crash)
          [] ~Valid(value.n) -> Result(x, Refused)
          [] OTHER -> Result(SetTarget(x, at.t, Members(value.n)), First(at) + 1)

AnyNumber(n) == TRUE
Positive(n) == n > 0

\* Options of the run: with a flag, a number, a word.
RunFlag(x, flag) == Result(SetRun(x, flag :> TRUE), 1)

RunNumber(a, x, member, used) ==
    IF Arg(a, 1) = Null THEN Result(x, Crash)
    ELSE Result(SetRun(x, member :> Arg(a, 1).n), used)

RunFile(a, x, member) == Result(SetRun(x, member :> Arg(a, 1)), 2)

-----------------------------------------------------------------------------
(* One value or flag for one target or for all *)

xddfunc_align(argc, a, x) ==
    NumberOption(argc, a, x, AnyNumber, LAMBDA v : "align" :> v)
xddfunc_blocksize(argc, a, x) ==
    NumberOption(argc, a, x, Positive, LAMBDA v : "block_size" :> v)

\* Mutant of xddfunc_kbytes: an amount given in megabytes before stays.
KbytesKeepsMbytes(argc, a, x) ==
    NumberOption(argc, a, x, AnyNumber, LAMBDA v : "kbytes" :> v)

\* The amount is in kilobytes or in megabytes, whichever was said last.
xddfunc_kbytes(argc, a, x) ==
    NumberOption(argc, a, x, AnyNumber, LAMBDA v : ("kbytes" :> v) @@ ("mbytes" :> 0))
xddfunc_mbytes(argc, a, x) ==
    NumberOption(argc, a, x, AnyNumber, LAMBDA v : ("mbytes" :> v) @@ ("kbytes" :> 0))
xddfunc_numreqs(argc, a, x) ==
    NumberOption(argc, a, x, Positive, LAMBDA v : "numreqs" :> v)
xddfunc_passoffset(argc, a, x) ==
    NumberOption(argc, a, x, AnyNumber, LAMBDA v : "pass_offset" :> v)
xddfunc_preallocate(argc, a, x) ==
    NumberOption(argc, a, x, AnyNumber, LAMBDA v : "preallocate" :> v)
xddfunc_queuedepth(argc, a, x) ==
    NumberOption(argc, a, x, AnyNumber, LAMBDA v : "queue_depth" :> v)
xddfunc_report_threshold(argc, a, x) ==
    NumberOption(argc, a, x, LAMBDA v : v >= 0, LAMBDA v : "report_threshold" :> v)
xddfunc_reqsize(argc, a, x) ==
    NumberOption(argc, a, x, Positive, LAMBDA v : "reqsize" :> v)
xddfunc_rwratio(argc, a, x) ==
    NumberOption(argc, a, x, LAMBDA v : v \in 0..100, LAMBDA v : "rwratio" :> v)
xddfunc_startdelay(argc, a, x) ==
    NumberOption(argc, a, x, AnyNumber, LAMBDA v : "start_delay" :> v)
xddfunc_startoffset(argc, a, x) ==
    NumberOption(argc, a, x, AnyNumber, LAMBDA v : "start_offset" :> v)
xddfunc_timelimit(argc, a, x) ==
    NumberOption(argc, a, x, AnyNumber, LAMBDA v : "time_limit" :> v)

xddfunc_createnewfiles(argc, a, x) ==
    FlagOption(argc, a, x, "RX_CREATE_NEW_FILES" :> TRUE, "RX_CREATE_NEW_FILES" :> TRUE)
xddfunc_deletefile(argc, a, x) == FlagOption(argc, a, x, "RX_DELETEFILE" :> TRUE, << >>)
xddfunc_devicefile(argc, a, x) == FlagOption(argc, a, x, "RX_DEVICEFILE" :> TRUE, << >>)
xddfunc_dio(argc, a, x) == FlagOption(argc, a, x, "RX_DIO" :> TRUE, << >>)
xddfunc_randomize(argc, a, x) == FlagOption(argc, a, x, "RX_PASSRANDOMIZE" :> TRUE, << >>)
xddfunc_recreatefiles(argc, a, x) ==
    FlagOption(argc, a, x, "RX_RECREATE" :> TRUE, "RX_RECREATE" :> TRUE)
xddfunc_reopen(argc, a, x) == FlagOption(argc, a, x, "RX_REOPEN" :> TRUE, "RX_REOPEN" :> TRUE)
xddfunc_sgio(argc, a, x) == FlagOption(argc, a, x, "RX_SGIO" :> TRUE, << >>)
xddfunc_sharedmemory(argc, a, x) ==
    FlagOption(argc, a, x, "RX_SHARED_MEMORY" :> TRUE, << >>)

\* Like the others, but the error is not looked for.
xddfunc_syncwrite(argc, a, x) ==
    IF xdd_parse_target_number(argc, a).args < 0 THEN Result(x, Crash)
    ELSE FlagOption(argc, a, x, "RX_SYNCWRITE" :> TRUE, << >>)

\* Everything but "write" is a read.
xddfunc_operation(argc, a, x) ==
    LET at == xdd_parse_target_number(argc, a)
        i == First(at)
    IN  IF at.args < 0 \/ Arg(a, i) = Null THEN Result(x, Crash)
        ELSE Result(SetTarget(x, at.t, "rwratio" :> IF Says(a, i, "write") THEN 0 ELSE 100),
                    i + 1)

xddfunc_targetdir(argc, a, x) ==
    LET at == xdd_parse_target_number(argc, a)
    IN  IF at.args < 0 THEN Result(x, Crash)
        ELSE Result(SetTarget(x, at.t, "targetdir" :> Arg(a, First(at))), First(at) + 1)

-----------------------------------------------------------------------------
(* Options with options of their own *)

\* words says how many words each of them takes, read those whose value is
\* looked at here and not only kept.
SubOption(argc, a, x, words, read, Members(_, _, _)) ==
    LET at == xdd_parse_target_number(argc, a)
        i == First(at)
        what == Arg(a, i).w
    IN  CASE at.args < 0 \/ Arg(a, i) = Null -> Result(x, Crash)
          [] at.t >= MaxTargets -> Result(x, Refused)
          [] Arg(a, i).o \/ what \notin DOMAIN words -> Result(x, Refused)
          [] what \in read /\ Arg(a, i + 1) = Null -> Result(x, Crash)
          [] OTHER -> Result(SetTarget(x, at.t, Members(at.t, what, Arg(a, i + 1))),
                             i + words[what])

Words(one, two) == [w \in one \cup two |-> IF w \in one THEN 1 ELSE 2]

\* A pattern sets a flag or a name; none of them takes another one's down.
xddfunc_seek(argc, a, x) ==
    SubOption(argc, a, x,
        Words({"sequential", "random", "stagger", "none"},
              {"save", "load", "disthist", "seekhist", "interleave", "range", "seed"}),
        {"disthist", "seekhist", "interleave", "range", "seed"},
        LAMBDA t, what, value :
            CASE what = "save" -> ("RX_SEEK_SAVE" :> TRUE) @@ ("seek_savefile" :> value)
              [] what = "load" -> ("RX_SEEK_LOAD" :> TRUE) @@ ("seek_loadfile" :> value)
              [] what = "disthist" ->
                    ("RX_SEEK_DISTHIST" :> TRUE) @@ ("seek_NumDistHistBuckets" :> value.n)
              [] what = "seekhist" ->
                    ("RX_SEEK_SEEKHIST" :> TRUE) @@ ("seek_NumSeekHistBuckets" :> value.n)
              [] what = "sequential" ->
                    ("RX_SEEK_RANDOM" :> FALSE) @@ ("seek_pattern" :> what)
              [] what = "random" -> ("RX_SEEK_RANDOM" :> TRUE) @@ ("seek_pattern" :> what)
              [] what = "stagger" -> ("RX_SEEK_STAGGER" :> TRUE) @@ ("seek_pattern" :> what)
              [] what = "none" -> ("RX_SEEK_NONE" :> TRUE) @@ ("seek_pattern" :> what)
              [] what = "interleave" ->
                    ("seek_interleave" :> value.n) @@ ("seek_pattern" :> what)
              [] what = "range" -> "seek_range" :> value.n
              [] what = "seed" -> "seek_seed" :> value.n)

\* A trigger other than stat and mp is refused.
xddfunc_readafterwrite(argc, a, x) ==
    LET at == xdd_parse_target_number(argc, a)
        trigger == Arg(a, First(at) + 1)
    IN  IF /\ at.args >= 0 /\ Says(a, First(at), "trigger") /\ trigger # Null
           /\ trigger \notin {Word("stat"), Word("mp")}
        THEN Result(x, Refused)
        ELSE SubOption(argc, a, x, Words({}, {"trigger", "lag", "reader", "port"}),
                {"trigger", "lag", "port"},
                LAMBDA t, what, value :
                    ("RX_READAFTERWRITE" :> TRUE) @@
                    CASE what = "trigger" ->
                            (IF value.w = "stat" THEN "RX_RAW_STAT" ELSE "RX_RAW_MP") :> TRUE
                      [] what = "lag" -> "raw_lag" :> value.n
                      [] what = "reader" -> "raw_hostname" :> value
                      [] what = "port" -> "raw_port" :> value.n)

\* Of all targets only the location is asked for, of one also the pattern
\* that has locations in it.
xddfunc_verify(argc, a, x) ==
    SubOption(argc, a, x, Words({"contents", "location"}, {}), {},
        LAMBDA t, what, value :
            CASE what = "contents" -> "RX_VERIFY_CONTENTS" :> TRUE
              [] what = "location" ->
                    ("RX_VERIFY_LOCATION" :> TRUE) @@
                    (IF t < 0 THEN << >> ELSE "RX_SEQUENCED_PATTERN" :> TRUE))

\* What -ts says with each of its words; most switch time stamps on.
StampMembers(what, value) ==
    LET on == ("TS_ON" :> TRUE) @@ ("TS_ALL" :> TRUE)
    IN  CASE what \in {"on", "output"} -> on
          [] what = "off" -> "TS_ON" :> FALSE
          [] what = "wrap" -> "TS_WRAP" :> TRUE
          [] what = "oneshot" -> "TS_ONESHOT" :> TRUE
          [] what = "size" -> "ts_size" :> value.n
          [] what \in {"triggertime", "tt"} ->
                ("TS_ON" :> TRUE) @@ ("TS_TRIGTIME" :> TRUE) @@ ("ts_trigtime" :> value.n)
          [] what \in {"triggerop", "to"} ->
                ("TS_ON" :> TRUE) @@ ("TS_TRIGOP" :> TRUE) @@ ("ts_trigop" :> value.n)
          [] what = "normalize" -> on @@ ("TS_NORMALIZE" :> TRUE)
          [] what = "append" -> on @@ ("TS_APPEND" :> TRUE)
          [] what = "dump" -> on @@ ("TS_DUMP" :> TRUE)
          [] what = "summary" -> on @@ ("TS_SUMMARY" :> TRUE)
          [] what = "detailed" -> on @@ ("TS_DETAILED" :> TRUE) @@ ("TS_SUMMARY" :> TRUE)

\* The file is the run's even if the option is one target's; a word that is
\* not known is passed over.
xddfunc_timestamp(argc, a, x) ==
    LET at == xdd_parse_target_number(argc, a)
        i == First(at)
        words == Words({"on", "off", "wrap", "oneshot", "normalize", "append",
                        "summary", "detailed"},
                       {"size", "triggertime", "tt", "triggerop", "to", "output", "dump"})
        named == CASE Says(a, i, "output") ->
                        SetRun(x, "tsoutput_filename" :> Arg(a, i + 1))
                   [] Says(a, i, "dump") ->
                        SetRun(x, "tsbinary_filename" :> Arg(a, i + 1))
                   [] OTHER -> x
    IN  IF /\ at.args >= 0 /\ at.t < MaxTargets /\ Arg(a, i) # Null
           /\ Arg(a, i).o \/ Arg(a, i).w \notin DOMAIN words
        THEN Result(x, i + 1)
        ELSE SubOption(argc, a, named, words,
                {"size", "triggertime", "tt", "triggerop", "to"},
                LAMBDA t, what, value : StampMembers(what, value))

\* The pattern is one of six kinds, or a character.
xddfunc_datapattern(argc, a, x) ==
    LET at == xdd_parse_target_number(argc, a)
        i == First(at)
        kind == Arg(a, i)
        Set(members, used) == Result(SetTarget(x, at.t, members), i + used)
    IN  CASE at.args < 0 \/ kind = Null -> Result(x, Crash)
          [] kind = Word("random") -> Set("RX_RANDOM_PATTERN" :> TRUE, 1)
          [] kind = Word("sequenced") -> Set("RX_SEQUENCED_PATTERN" :> TRUE, 1)
          [] kind = Word("replicate") -> Set("RX_REPLICATE_PATTERN" :> TRUE, 1)
          [] kind \in {Word("ascii"), Word("hex")} /\ Arg(a, i + 1) = Null -> Result(x, Crash)
          [] kind = Word("ascii") ->
                Set(("RX_ASCII_PATTERN" :> TRUE) @@ ("data_pattern" :> Arg(a, i + 1)), 2)
          [] kind = Word("hex") ->
                Set(("RX_HEX_PATTERN" :> TRUE) @@ ("data_pattern" :> Arg(a, i + 1)), 2)
          [] kind = Word("file") ->
                Set(("RX_FILE_PATTERN" :> TRUE) @@ ("data_pattern_filename" :> Arg(a, i + 1)), 2)
          [] OTHER -> Set(("RX_SINGLECHAR_PATTERN" :> TRUE) @@ ("data_pattern" :> kind), 1)

\* The message about a bad variance looks at the target, which there is none
\* of if the option is for all.
xddfunc_throttle(argc, a, x) ==
    LET at == xdd_parse_target_number(argc, a)
        i == First(at)
        what == Arg(a, i)
        value == Arg(a, i + 1)
    IN  CASE at.args < 0 \/ value = Null -> Result(x, Crash)
          [] what = Word("var") /\ value.n <= 0 ->
                Result(x, IF at.t >= 0 THEN Refused ELSE Crash)
          [] what \notin {Word("ops"), Word("bw"), Word("var")} \/ value.n <= 0 ->
                Result(x, Refused)
          [] OTHER ->
                Result(SetTarget(x, at.t,
                        IF what = Word("var") THEN "throttle_variance" :> value.n
                        ELSE ("throttle_type" :> what.w) @@ ("throttle" :> value.n)), i + 2)

-----------------------------------------------------------------------------
(* Options of the run *)

xddfunc_combinedout(argc, a, x) ==
    RunFile(a, SetRun(x, "RX_COMBINED" :> TRUE), "combined_output_filename")
xddfunc_csvout(argc, a, x) == RunFile(a, SetRun(x, "RX_CSV" :> TRUE), "csvoutput_filename")
xddfunc_errout(argc, a, x) == RunFile(a, x, "errout_filename")
xddfunc_output(argc, a, x) == RunFile(a, x, "output_filename")

\* Two options that take a number and say they do not.
xddfunc_delay(argc, a, x) == RunNumber(a, x, "passdelay", 1)
xddfunc_maxerrors(argc, a, x) == RunNumber(a, x, "max_errors", 1)

xddfunc_heartbeat(argc, a, x) == RunNumber(a, x, "heartbeat", 2)
xddfunc_passes(argc, a, x) == RunNumber(a, x, "passes", 2)
xddfunc_starttime(argc, a, x) == RunNumber(a, x, "gts_time", 2)
xddfunc_syncio(argc, a, x) == RunNumber(a, SetRun(x, "RX_SYNCIO" :> TRUE), "syncio", 2)
xddfunc_targetoffset(argc, a, x) == RunNumber(a, x, "target_offset", 2)
xddfunc_runtime(argc, a, x) ==
    RunNumber(a, SetTarget(x, -1, "TS_WRAP" :> TRUE), "runtime", 2)

xddfunc_deskew(x) == RunFlag(x, "RX_DESKEW")
xddfunc_maxpri(x) == RunFlag(x, "RX_MAXPRI")
xddfunc_plock(x) == RunFlag(x, "RX_PLOCK")
xddfunc_nomemlock(x) == RunFlag(x, "RX_NOMEMLOCK")
xddfunc_noproclock(x) == RunFlag(x, "RX_NOPROCLOCK")
xddfunc_nobarrier(x) == RunFlag(x, "RX_NOBARRIER")
xddfunc_qthreadinfo(x) == RunFlag(x, "RX_QTHREAD_INFO")
xddfunc_reallyverbose(x) == RunFlag(x, "RX_REALLYVERBOSE")
xddfunc_timerinfo(x) == RunFlag(x, "RX_TIMER_INFO")
xddfunc_verbose(x) == RunFlag(x, "RX_VERBOSE")

\* Two options in one; one word is used.
xddfunc_maxall(x) == xddfunc_plock(xddfunc_maxpri(x).x)
xddfunc_minall(x) == xddfunc_noproclock(xddfunc_nomemlock(x).x)

xddfunc_fullhelp(x) == Result(x, Leave)
xddfunc_version(x) == Result(x, Leave)

\* The first one replaces the default, the others are added.
xddfunc_id(argc, a, x) ==
    IF Arg(a, 1) = Null THEN Result(x, Crash)
    ELSE Result(SetRun(x, "id" :>
                    Append(IF "id" \in DOMAIN x.g THEN x.g["id"] ELSE << >>, Arg(a, 1))), 2)

xddfunc_timeserver(argc, a, x) ==
    CASE Arg(a, 1) = Null -> Result(x, Crash)
      [] Says(a, 1, "host") -> Result(SetRun(x, "gts_hostname" :> Arg(a, 2)), 3)
      [] Arg(a, 1) \in {Word("port"), Word("bounce")} ->
            IF Arg(a, 2) = Null THEN Result(x, Crash)
            ELSE Result(SetRun(x, (IF Says(a, 1, "port") THEN "gts_port" ELSE "gts_bounce")
                                    :> Arg(a, 2).n), 3)
      [] OTHER -> Result(x, Refused)

-----------------------------------------------------------------------------
(* Targets, processors, triggers *)

xddfunc_target(argc, a, x) ==
    Result([SetTarget(x, x.targets, "target" :> Arg(a, 1)) EXCEPT !.targets = @ + 1], 2)

\* n names, or -n and one name for n targets; added to those there are.
xddfunc_targets(argc, a, x) ==
    LET n == Arg(a, 1).n
        count == IF n < 0 THEN -n ELSE n
        Name(j) == Arg(a, IF n < 0 THEN 2 ELSE 2 + j - x.targets)
    IN  IF Arg(a, 1) = Null THEN Result(x, Crash)
        ELSE Result([x EXCEPT
                        !.t = [j \in Targets |->
                                IF j \in x.targets..(x.targets + count - 1)
                                THEN ("target" :> Name(j)) @@ @[j] ELSE @[j]],
                        !.targets = @ + count],
                    IF n < 0 THEN 3 ELSE 2 + n)

\* Target j starts j times later.
xddfunc_targetstartdelay(argc, a, x) ==
    IF Arg(a, 1) = Null THEN Result(x, Crash)
    ELSE Result([x EXCEPT !.t = [j \in Targets |->
                    ("start_delay" :> j * Arg(a, 1).n) @@ @[j]]], 2)

\* The processor comes before the target, whatever the help says.
xddfunc_processor(argc, a, x) ==
    CASE Arg(a, 1) = Null -> Result(x, Crash)
      [] Arg(a, 1).n \notin 0..(Cpus - 1) -> Result(x, Refused)
      [] Arg(a, 2) = Null -> Result(x, Crash)
      [] Arg(a, 2).n >= MaxTargets -> Result(x, Refused)
      [] OTHER -> Result(SetTarget(x, Arg(a, 2).n, "processor" :> Arg(a, 1).n), 3)

\* These two say that they have used the whole line.
xddfunc_roundrobin(argc, a, x) ==
    CASE Arg(a, 1) = Null -> Result(x, Crash)
      [] Arg(a, 1).n \notin 1..Cpus -> Result(x, Refused)
      [] OTHER -> Result([x EXCEPT !.t = [j \in Targets |->
                            ("processor" :> j % Arg(a, 1).n) @@ @[j]]], argc)
xddfunc_singleproc(argc, a, x) ==
    CASE Arg(a, 1) = Null -> Result(x, Crash)
      [] Arg(a, 1).n \notin 0..(Cpus - 1) -> Result(x, Refused)
      [] OTHER -> Result(SetTarget(x, -1, "processor" :> Arg(a, 1).n), argc)

\* One target starts another when it has come as far as the words say.
xddfunc_starttrigger(argc, a, x) ==
    LET when == Arg(a, 3)
        n == Arg(a, 4).n
        Set(flag, member) ==
            Result(SetTarget(SetTarget(x, Arg(a, 2).n, "RX_WAITFORSTART" :> TRUE), Arg(a, 1).n,
                        ("start_trigger_target" :> Arg(a, 2).n) @@ (flag :> TRUE)
                            @@ (member :> n)), 5)
    IN  CASE Null \in {Arg(a, k) : k \in 1..3} -> Result(x, Crash)
          [] when \notin {Word(w) : w \in {"time", "op", "percent", "mbytes", "kbytes"}} ->
                Result(x, Refused)
          [] Arg(a, 4) = Null -> Result(x, Crash)
          [] IF when = Word("percent") THEN n \notin 0..100 ELSE n <= 0 -> Result(x, Refused)
          [] when = Word("time") -> Set("TRIGGER_STARTTIME", "start_trigger_time")
          [] when = Word("op") -> Set("TRIGGER_STARTOP", "start_trigger_op")
          [] when = Word("percent") -> Set("TRIGGER_STARTPERCENT", "start_trigger_percent")
          [] OTHER -> Set("TRIGGER_STARTBYTES", "start_trigger_bytes")

\* One target stops another; here no value is refused.
xddfunc_stoptrigger(argc, a, x) ==
    LET when == Arg(a, 3)
        Set(member) ==
            Result(SetTarget(x, Arg(a, 1).n, ("stop_trigger_target" :> Arg(a, 2).n)
                        @@ (member :> Arg(a, 4).n)), 5)
    IN  CASE Null \in {Arg(a, k) : k \in 1..3} -> Result(x, Crash)
          [] when \notin {Word(w) : w \in {"time", "op", "percent", "mbytes", "kbytes"}} ->
                Result(x, Refused)
          [] Arg(a, 4) = Null -> Result(x, Crash)
          [] when = Word("time") -> Set("stop_trigger_time")
          [] when = Word("op") -> Set("stop_trigger_op")
          [] when = Word("percent") -> Set("stop_trigger_percent")
          [] OTHER -> Set("stop_trigger_bytes")

\* The interval of the master and the task of the slave; a percentage is cut
\* to a whole number, 0 but for 100 and more.
LockstepInterval(when, n) ==
    ("ls_interval_type" :> IF when \in {"mbytes", "kbytes"} THEN "bytes" ELSE when) @@
    ("ls_interval_value" :> IF when = "percent" THEN n \div 100 ELSE n)
LockstepTask(what, n) ==
    ("ls_task_type" :> IF what \in {"mbytes", "kbytes"} THEN "bytes" ELSE what) @@
    ("ls_task_value" :> n)

\* Anything but "run" is "wait"; of "complete" and "stop" none takes the other
\* one's flag down.
LockstepState(startup, completion) ==
    ("LS_SLAVE_RUN_IMMEDIATELY" :> (startup = Word("run"))) @@
    ("LS_SLAVE_WAITING" :> (startup # Word("run"))) @@
    ("ls_task_counter" :> IF startup = Word("run") THEN 1 ELSE 0) @@
    (IF completion = Word("stop") THEN "LS_SLAVE_STOP" ELSE "LS_SLAVE_COMPLETE") :> TRUE

\* master, slave, when, how long, what, how much, startup, completion
xddfunc_lockstep(mode, a, x) ==
    LET when == Arg(a, 3).w
        what == Arg(a, 5).w
        master == SetTarget(x, Arg(a, 1).n,
                    (mode :> TRUE) @@ ("ls_slave" :> Arg(a, 2).n)
                        @@ LockstepInterval(when, Arg(a, 4).n))
        both == SetTarget(master, Arg(a, 2).n,
                    (mode :> TRUE) @@ ("ls_master" :> Arg(a, 1).n)
                        @@ LockstepTask(what, Arg(a, 6).n)
                        @@ LockstepState(Arg(a, 7), Arg(a, 8)))
        Given(k, words) == Arg(a, k) \in {Word(w) : w \in words}
    IN  CASE Null \in {Arg(a, k) : k \in 1..3} -> Result(x, Crash)
          [] ~Given(3, {"time", "op", "percent", "mbytes", "kbytes"}) -> Result(x, Refused)
          [] Arg(a, 4) = Null -> Result(x, Crash)
          [] IF when = "percent" THEN Arg(a, 4).n \div 100 \notin 0..1 ELSE Arg(a, 4).n <= 0 ->
                Result(x, Refused)
          [] Arg(a, 5) = Null -> Result(x, Crash)
          [] ~Given(5, {"time", "op", "mbytes", "kbytes"}) -> Result(x, Refused)
          [] Arg(a, 6) = Null -> Result(x, Crash)
          [] Arg(a, 6).n <= 0 -> Result(x, Refused)
          [] Arg(a, 7) = Null \/ Arg(a, 8) = Null -> Result(x, Crash)
          [] ~Given(8, {"complete", "stop"}) -> Result(x, Refused)
          [] OTHER -> Result(both, 9)

-----------------------------------------------------------------------------
(* The line *)

\* The table xdd_func: which function an option has.
Handled(name, argc, a, x) ==
    CASE name = "align" -> xddfunc_align(argc, a, x)
      [] name = "blocksize" -> xddfunc_blocksize(argc, a, x)
      [] name = "combinedout" -> xddfunc_combinedout(argc, a, x)
      [] name = "createnewfiles" -> xddfunc_createnewfiles(argc, a, x)
      [] name = "csvout" -> xddfunc_csvout(argc, a, x)
      [] name = "datapattern" -> xddfunc_datapattern(argc, a, x)
      [] name = "delay" -> xddfunc_delay(argc, a, x)
      [] name = "deletefile" -> xddfunc_deletefile(argc, a, x)
      [] name = "deskew" -> xddfunc_deskew(x)
      [] name = "devicefile" -> xddfunc_devicefile(argc, a, x)
      [] name = "directio" -> xddfunc_dio(argc, a, x)
      [] name = "errout" -> xddfunc_errout(argc, a, x)
      [] name = "fullhelp" -> xddfunc_fullhelp(x)
      [] name = "heartbeat" -> xddfunc_heartbeat(argc, a, x)
      [] name = "identifier" -> xddfunc_id(argc, a, x)
      [] name = "kbytes" -> xddfunc_kbytes(argc, a, x)
      [] name = "lockstep" -> xddfunc_lockstep("RX_LOCKSTEP", a, x)
      [] name = "lockstepoverlapped" -> xddfunc_lockstep("RX_LOCKSTEPOVERLAPPED", a, x)
      [] name = "maxall" -> xddfunc_maxall(x)
      [] name = "maxerrors" -> xddfunc_maxerrors(argc, a, x)
      [] name = "maximumpriority" -> xddfunc_maxpri(x)
      [] name = "mbytes" -> xddfunc_mbytes(argc, a, x)
      [] name = "minall" -> xddfunc_minall(x)
      [] name = "nobarrier" -> xddfunc_nobarrier(x)
      [] name = "nomemlock" -> xddfunc_nomemlock(x)
      [] name = "noproclock" -> xddfunc_noproclock(x)
      [] name = "numreqs" -> xddfunc_numreqs(argc, a, x)
      [] name = "operation" -> xddfunc_operation(argc, a, x)
      [] name = "output" -> xddfunc_output(argc, a, x)
      [] name = "passes" -> xddfunc_passes(argc, a, x)
      [] name = "passoffset" -> xddfunc_passoffset(argc, a, x)
      [] name = "preallocate" -> xddfunc_preallocate(argc, a, x)
      [] name = "processlock" -> xddfunc_plock(x)
      [] name = "processor" -> xddfunc_processor(argc, a, x)
      [] name = "queuedepth" -> xddfunc_queuedepth(argc, a, x)
      [] name = "qthreadinfo" -> xddfunc_qthreadinfo(x)
      [] name = "randomize" -> xddfunc_randomize(argc, a, x)
      [] name = "readafterwrite" -> xddfunc_readafterwrite(argc, a, x)
      [] name = "reallyverbose" -> xddfunc_reallyverbose(x)
      [] name = "recreatefiles" -> xddfunc_recreatefiles(argc, a, x)
      [] name = "reopen" -> xddfunc_reopen(argc, a, x)
      [] name = "reportthreshold" -> xddfunc_report_threshold(argc, a, x)
      [] name = "reqsize" -> xddfunc_reqsize(argc, a, x)
      [] name = "roundrobin" -> xddfunc_roundrobin(argc, a, x)
      [] name = "runtime" -> xddfunc_runtime(argc, a, x)
      [] name = "rwratio" -> xddfunc_rwratio(argc, a, x)
      [] name = "seek" -> xddfunc_seek(argc, a, x)
      [] name = "scsigeneric" -> xddfunc_sgio(argc, a, x)
      [] name = "sharedmemory" -> xddfunc_sharedmemory(argc, a, x)
      [] name = "singleproc" -> xddfunc_singleproc(argc, a, x)
      [] name = "startdelay" -> xddfunc_startdelay(argc, a, x)
      [] name = "startoffset" -> xddfunc_startoffset(argc, a, x)
      [] name = "starttime" -> xddfunc_starttime(argc, a, x)
      [] name = "starttrigger" -> xddfunc_starttrigger(argc, a, x)
      [] name = "stoptrigger" -> xddfunc_stoptrigger(argc, a, x)
      [] name = "syncio" -> xddfunc_syncio(argc, a, x)
      [] name = "syncwrite" -> xddfunc_syncwrite(argc, a, x)
      [] name = "target" -> xddfunc_target(argc, a, x)
      [] name = "targetdir" -> xddfunc_targetdir(argc, a, x)
      [] name = "targetoffset" -> xddfunc_targetoffset(argc, a, x)
      [] name = "targets" -> xddfunc_targets(argc, a, x)
      [] name = "targetstartdelay" -> xddfunc_targetstartdelay(argc, a, x)
      [] name = "throttle" -> xddfunc_throttle(argc, a, x)
      [] name = "timelimit" -> xddfunc_timelimit(argc, a, x)
      [] name = "timerinfo" -> xddfunc_timerinfo(x)
      [] name = "timeserver" -> xddfunc_timeserver(argc, a, x)
      [] name = "timestamps" -> xddfunc_timestamp(argc, a, x)
      [] name = "verbose" -> xddfunc_verbose(x)
      [] name = "verify" -> xddfunc_verify(argc, a, x)
      [] name = "version" -> xddfunc_version(x)
      [] OTHER -> Result(x, Refused)

\* The words of a parameter file, in which Blank and NewLine are letters of
\* their own.  A file that starts with either loses the rest of its first
\* line, and the line's end then counts as an empty word.
Blank == Word(" ")
NewLine == Word("\n")

FileWords(file) ==
    LET start == IF file # << >> /\ file[1] \in {Blank, NewLine}
                 THEN SelectInSeq(file, LAMBDA w : w = NewLine) ELSE 1
        rest == IF start = 0 THEN << >> ELSE SubSeq(file, start, Len(file))
        words == SelectSeq(rest, LAMBDA w : w \notin {Blank, NewLine})
    IN  IF rest # << >> /\ rest[1] = NewLine THEN <<Word("")>> \o words ELSE words

\* Where the reader is: the next word of the line argv, the number of words left,
\* what is set so far, and, in a parameter file, where it was when it came to it.
LineStart(argv, x, caller) ==
    [argv |-> argv, argi |-> 1, left |-> Len(argv), x |-> x, end |-> Reading, caller |-> caller]

\* The words before the option are skipped with argi alone.
OptionAfter(run) ==
    SelectInSubSeq(run.argv, run.argi, Len(run.argv), LAMBDA w : w.o)

\* How it stands with the line before a turn.  Behind the null pointer at the end
\* of the line lies the environment, none of which starts with '-'.
Standing(run) ==
    CASE run.end # Reading -> run.end
      [] run.end = Reading /\ run.left = 0 -> Finished
      [] run.end = Reading /\ run.left # 0 /\ run.argi = Len(run.argv) + 1 -> Crash
      [] OTHER -> IF OptionAfter(run) = 0 THEN Finished ELSE Reading

\* Both counters go on by what the function of the option has returned.
GoOn(run, outcome) ==
    IF outcome.status \in {Refused, Leave, Crash}
    THEN [run EXCEPT !.x = outcome.x, !.end = outcome.status]
    ELSE [run EXCEPT !.x = outcome.x, !.argi = OptionAfter(run) + outcome.status,
                     !.left = @ - outcome.status]

\* The words of the file are a line of their own.  A file that cannot be opened
\* is as good as an empty one: -1 is not 0.  A file that names itself is opened
\* until the stack is used up.
xddfunc_setup(run) ==
    IF run.caller = << >> THEN LineStart(FileWords(run.x.file), run.x, <<run>>)
    ELSE [run EXCEPT !.end = Crash]

\* A turn of the loop: an option, or the return from a parameter file.
Turn(run) ==
    LET option == OptionAfter(run)
    IN  CASE Standing(run) = Reading /\ run.argv[option].w = "setup" -> xddfunc_setup(run)
          [] Standing(run) = Reading /\ run.argv[option].w # "setup" ->
                GoOn(run, Handled(run.argv[option].w, run.left,
                                  SubSeq(run.argv, option + 1, Len(run.argv)), run.x))
          [] Standing(run) = Finished /\ run.caller # << >> ->
                GoOn(run.caller[1], Result(run.x, 2))
          [] OTHER -> [run EXCEPT !.end = Standing(run)]

\* The states of the reader after so many turns: always one.  A turn reads an
\* option that none before it has read, or opens the file or returns from it.
Parsed(argv, x) ==
    LET setups == {i \in DOMAIN argv : argv[i] = Option("setup")}
        turns == Len(argv) + 1 + Cardinality(setups) * (Len(x.file) + 3)
        After[turn \in 0..turns] ==
            IF turn = 0 THEN {LineStart(argv, x, << >>)} ELSE {Turn(run) : run \in After[turn - 1]}
    IN  CHOOSE r \in {[x |-> run.x, end |-> run.end] : run \in After[turns]} : TRUE

-----------------------------------------------------------------------------
(* Properties *)

\* One use of an option: its name, the target it is for (-1 for all) and its
\* own words.
Line(use) ==
    <<Option(use.name)>>
      \o (IF use.t < 0 THEN << >> ELSE <<Word("target"), Number(use.t)>>)
      \o use.words

\* Two readings come to the same: what was set matters only if xdd goes on.
Same(p, q) == p.end = q.end /\ (p.end = Finished => p.x = q.x)

\* delay and maxerrors return one word too few, the others the whole line:
\* nothing that follows them is read as it should be.
MustComeLast == {"delay", "maxerrors", "roundrobin", "singleproc"}

\* A line means its options one after the other: no handler uses a word too
\* many or too few, and nothing behind an error is looked at.
InTurn(first, second, x) ==
    first.name \notin MustComeLast =>
        LET before == Parsed(Line(first), x)
        IN  Same(Parsed(Line(first) \o Line(second), x),
                 IF before.end = Finished THEN Parsed(Line(second), before.x) ELSE before)

\* An option for one target leaves the others as they were, and an option for
\* all is the same as one for each of them in turn.
EachTarget(use, x) ==
    LET For(t, y) == Parsed(Line([use EXCEPT !.t = t]), y)
        each[t \in Targets] == For(t, IF t = 0 THEN x ELSE each[t - 1].x)
    IN  /\ use.t >= 0 => \A j \in Targets \ {use.t} : For(use.t, x).x.t[j] = x.t[j]
        /\ (use.t >= 0 /\ For(-1, x).end = Finished) => Same(For(-1, x), each[MaxTargets - 1])

\* Different options that say the same thing.
Families == {{"kbytes", "mbytes"}, {"operation", "rwratio"},
             {"startdelay", "targetstartdelay"}, {"roundrobin", "singleproc"}}

\* Options that add to what was there before.
Additive(use) ==
    \/ use.name \in {"identifier", "target", "targets", "datapattern", "lockstep",
                     "lockstepoverlapped", "starttrigger", "stoptrigger", "timestamps",
                     "verify"}
    \/ use.name = "readafterwrite" /\ use.words[1] = Word("trigger")

SameSubject(first, second) ==
    \/ \E f \in Families : first.name \in f /\ second.name \in f
    \/ /\ first.name = second.name
       /\ first.name \in {"seek", "readafterwrite", "throttle", "timeserver"} =>
            first.words[1] = second.words[1]

\* Of two options about the same thing the second one counts, if it is about
\* as many targets.
LastCounts(first, second, x) ==
    LET before == Parsed(Line(first), x)
    IN  /\ SameSubject(first, second) /\ ~Additive(first)
        /\ second.t \in {-1, first.t} /\ before.end = Finished
        => Same(Parsed(Line(second), before.x), Parsed(Line(second), x))

\* A parameter file stands for its words, if it starts with one.
FileInPlace(file, words, next) ==
    Same(Parsed(<<Option("setup"), Word("file")>> \o Line(next), Defaults(file)),
         Parsed(words \o Line(next), Defaults(file)))

=============================================================================
