----------------------------- MODULE MCFunctions -----------------------------
(***************************************************************************)
(* The pure algorithms over bounded inputs: each input is a state, or what *)
(* is computed of it the next one, and the invariants compare what the     *)
(* code computes with what it should.                                      *)
(***************************************************************************)
EXTENDS XddPlan, XddClock, XddRaw, RingSize, SarReport, XddOptions

VARIABLE input

Columns == INSTANCE SarColumns
Proc == INSTANCE ProcReaders
Io == INSTANCE Iostat

Bounces == [sent : {7}, out : 0..2, back : 0..2]

-----------------------------------------------------------------------------
(* The options of xdd *)

Uses(names, words) == [name : names, t : {-1, 1}, words : words]
RunUses(names, words) == [name : names, t : {-1}, words : words]

Numbers == {<<Number(v)>> : v \in 0..2}
Named(words) == {<<Word(w)>> : w \in words}
NamedNumber(words) == {<<Word(w), Number(v)>> : w \in words, v \in 0..2}
NamedWord(words) == {<<Word(w), Word("name")>> : w \in words}
Whens == {"time", "op", "percent", "mbytes", "kbytes"}

TargetUses ==
    Uses({"align", "blocksize", "kbytes", "mbytes", "numreqs", "passoffset",
          "preallocate", "queuedepth", "reportthreshold", "reqsize", "rwratio",
          "startdelay", "startoffset", "timelimit"}, Numbers)
  \cup Uses({"createnewfiles", "deletefile", "devicefile", "directio", "randomize",
             "recreatefiles", "reopen", "scsigeneric", "sharedmemory", "syncwrite"}, {<< >>})
  \cup Uses({"operation"}, Named({"read", "write"}))
  \cup Uses({"targetdir"}, Named({"name"}))
  \cup Uses({"seek"}, Named({"sequential", "random", "stagger", "none", "wrong"})
         \cup NamedWord({"save", "load"})
         \cup NamedNumber({"disthist", "seekhist", "interleave", "range", "seed"}))
  \cup Uses({"readafterwrite"}, NamedNumber({"lag", "port"}) \cup NamedWord({"reader", "trigger"})
         \cup {<<Word("trigger"), Word("stat")>>, <<Word("trigger"), Word("mp")>>})
  \cup Uses({"verify"}, Named({"contents", "location", "wrong"}))
  \cup Uses({"timestamps"}, Named({"on", "off", "wrap", "oneshot", "normalize", "append",
                                   "summary", "detailed", "wrong"})
         \cup NamedNumber({"size", "tt", "to"}) \cup NamedWord({"output", "dump"}))
  \cup Uses({"datapattern"}, Named({"random", "sequenced", "replicate", "c"})
         \cup NamedWord({"ascii", "hex", "file"}))
  \cup Uses({"throttle"}, NamedNumber({"ops", "bw", "var", "wrong"}))

OtherUses ==
    RunUses({"combinedout", "csvout", "errout", "output", "identifier", "target"},
            Named({"name"}))
  \cup RunUses({"delay", "maxerrors", "heartbeat", "passes", "starttime", "syncio",
                "targetoffset", "runtime", "targetstartdelay", "roundrobin",
                "singleproc"}, Numbers)
  \cup RunUses({"deskew", "maximumpriority", "processlock", "nomemlock", "noproclock",
                "nobarrier", "qthreadinfo", "reallyverbose", "timerinfo", "verbose",
                "maxall", "minall", "fullhelp", "version", "wrong"}, {<< >>})
  \cup RunUses({"timeserver"}, NamedNumber({"port", "bounce"}) \cup NamedWord({"host", "wrong"}))
  \cup RunUses({"targets"}, {<<Number(2), Word("a"), Word("b")>>,
                             <<[o |-> TRUE, w |-> "2", n |-> -2], Word("a")>>})
  \cup RunUses({"processor"}, {<<Number(p), Number(t)>> : p \in 0..2, t \in {0, 3}})
  \cup RunUses({"starttrigger", "stoptrigger"},
        {<<Number(1), Number(2), Word(w), Number(v)>> : w \in Whens \cup {"wrong"}, v \in 0..1})
  \cup RunUses({"lockstep", "lockstepoverlapped"},
        {<<Number(0), Number(2), Word(w), Number(1), Word(t), Number(v), Word("run"), Word(c)>> :
            w \in Whens, t \in Whens, v \in 0..1, c \in {"complete", "stop", "wrong"}})

\* What follows in a line: of each form of option one, and one with an error.
Followers ==
    {[name |-> "reqsize", t |-> -1, words |-> <<Number(2)>>],
     [name |-> "directio", t |-> 1, words |-> << >>],
     [name |-> "seek", t |-> 1, words |-> <<Word("range"), Number(2)>>],
     [name |-> "passes", t |-> -1, words |-> <<Number(2)>>],
     [name |-> "blocksize", t |-> 1, words |-> <<Number(0)>>]}

\* Any option before one of those, any two about the same, and a line in a file.
OptionPairs ==
    {[kind |-> "options", first |-> u, second |-> v] :
        u \in TargetUses \cup OtherUses, v \in Followers}
SamePairs(u) ==
    {[kind |-> "options", first |-> u, second |-> v] :
        v \in {w \in TargetUses \cup OtherUses : SameSubject(u, w)}}
OptionFiles ==
    [kind : {"file"}, first : Followers, second : Followers, next : Followers,
     gap : {<<Blank>>, <<NewLine>>, <<Blank, NewLine, Blank>>},
     trail : {<< >>, <<NewLine>>, <<Blank, NewLine>>}]

OptionInputs ==
    OptionPairs \cup OptionFiles
      \cup UNION {SamePairs(u) : u \in TargetUses \cup {w \in OtherUses : ~Additive(w)}}

\* The words of a line with gaps between them.
Spaced(words, gap) ==
    FoldLeft(LAMBDA file, w : (IF file = << >> THEN file ELSE file \o gap) \o <<w>>,
             << >>, words)

-----------------------------------------------------------------------------
(* What sar and sadf show *)

\* An activity of act[] as it is when it has been selected.
Used(a, more) == more @@ [a EXCEPT !.options = @ \cup {"SELECTED"}]
Unused(a) == [nr |-> 1] @@ a

Names == UNION {[1..n -> 0..2] : n \in 0..2}
NamedItems(names) == {[nr |-> Len(c), curr |-> c] : c \in names}

ActivityUses ==
    {Used(Columns!cpu_act, x) : x \in
        [nr : 1..4, bitmap : SUBSET (1..4), opt_flags : {{1}, {2}}, offline : SUBSET {2, 3}]}
  \cup {Used(Columns!irq_act, x) : x \in [nr : 0..4, bitmap : SUBSET (1..4)]}
  \cup {Used(Columns!memory_act, x) : x \in
        [nr : {1}, opt_flags : (SUBSET {1, 2, 4}) \ {{}}]}
  \cup {Used(Columns!serial_act, x @@ [prev |-> p, since_boot |-> b]) :
        x \in NamedItems(Names), p \in [1..2 -> 0..2], b \in BOOLEAN}
  \cup {Used(a, x) : a \in {Columns!disk_act, Columns!net_dev_act, Columns!net_edev_act},
                    x \in NamedItems(Names)}
  \cup {Used(a, [nr |-> 1]) : a \in
        {Columns!pcsw_act, Columns!swap_act, Columns!paging_act, Columns!io_act,
         Columns!ktables_act, Columns!queue_act, Columns!net_nfs_act, Columns!net_nfsd_act,
         Columns!net_sock_act}}

\* Any selection of what is in the network element, among others.
Interfaces(a) == {Unused(a)} \cup {Used(a, [nr |-> Len(c), curr |-> c]) : c \in {<< >>, <<1>>}}
NetworkUses ==
    {<<Used(Columns!io_act, [nr |-> 1]), dev, edev, nfs, nfsd, sock>> :
        dev \in Interfaces(Columns!net_dev_act), edev \in Interfaces(Columns!net_edev_act),
        nfs \in {Unused(Columns!net_nfs_act), Used(Columns!net_nfs_act, [nr |-> 1])},
        nfsd \in {Unused(Columns!net_nfsd_act), Used(Columns!net_nfsd_act, [nr |-> 1])},
        sock \in {Unused(Columns!net_sock_act), Used(Columns!net_sock_act, [nr |-> 1])}}

-----------------------------------------------------------------------------
(* What the kernels write under /proc: the numbers of a line tell where    *)
(* and when it was written.                                                *)

\* n numbers of an item at a time.
From(time, item, n) == [i \in 1..n |-> time * 1000 + item * 50 + i]
Keys(time, keys) ==
    [k \in DOMAIN keys |-> [key |-> keys[k], numbers |-> From(time, 20 + k, 2)]]

\* A machine m: its kernel, its CPUs (0 if the kernel is made for one) and those
\* online, its disks, interfaces and serial lines.
CpuLines(m) ==
    LET width == IF m.kernel = "2.6" THEN 9 ELSE 4
        online == SelectSeq([i \in 1..m.cpus |-> i - 1], LAMBDA i : i \in m.online)
    IN  <<[key |-> "cpu ", numbers |-> From(m.time, 0, width)]>>
        \o [k \in DOMAIN online |->
              [key |-> "cpu", nb |-> online[k], numbers |-> From(m.time, online[k] + 1, width)]]
DiskNumbers(m, i) ==
    IF m.disks[i] = "used" THEN [From(m.time, i, 11) EXCEPT ![3] = @ + 30000]
    ELSE [k \in 1..11 |-> 0]
DiskLines(m, n) ==
    FlattenSeq([i \in DOMAIN m.disks |->
        <<[major |-> 8, minor |-> 16 * i, whole |-> TRUE,
           numbers |-> IF n = 0 THEN << >> ELSE DiskNumbers(m, i)],
          [major |-> 8, minor |-> 16 * i + 1, whole |-> FALSE,
           numbers |-> SubSeq(DiskNumbers(m, i), 1, n)]>>])
Headed(lines) == <<[major |-> 0, minor |-> 0, whole |-> FALSE, numbers |-> << >>]>> \o lines
DiskEntries(m) ==
    LET used == SelectSeq([i \in DOMAIN m.disks |-> i], LAMBDA i : m.disks[i] = "used")
    IN  [k \in DOMAIN used |->
            LET n == From(m.time, used[k], 4)
            IN  [major |-> 8, minor |-> 16 * used[k],
                 numbers |-> <<n[1] + n[3], n[1], n[2], n[3], n[4]>>]]
StatLines(m) ==
    CpuLines(m)
    \o <<[key |-> "intr", numbers |-> From(m.time, 10, 4)]>>
    \o Keys(m.time, <<"ctxt", "processes">>)
    \o (IF m.kernel = "2.6" THEN << >> ELSE Keys(m.time, <<"page", "swap">>))
    \o (IF m.kernel # "2.2" THEN << >>
        ELSE [k \in 1..5 |->
                [key |-> <<"disk", "disk_rio", "disk_wio", "disk_rblk", "disk_wblk">>[k],
                 numbers |-> From(m.time, 10 + k, 4)]])
    \o (IF m.kernel # "2.4" THEN << >> ELSE <<[key |-> "disk_io", entries |-> DiskEntries(m)]>>)

Files(m) ==
    LET t == m.time
        OneLine(item, n) == <<[key |-> "line", numbers |-> From(t, item, n)]>>
    IN  [stat |-> StatLines(m),
         sys_cpu |-> IF m.sys THEN 0..(m.cpus - 1) ELSE {},
         uptime |-> IF m.sys THEN OneLine(30, 2) ELSE << >>,
         vmstat |-> IF m.kernel = "2.6"
                    THEN Keys(t, <<"pgpgin", "pgpgout", "pswpin", "pswpout", "pgfault",
                                   "pgmajfault", "pgfree", "pgsteal_", "pgsteal_",
                                   "pgscan_kswapd_", "pgscan_direct_">>)
                    ELSE << >>,
         diskstats |-> IF m.kernel = "2.6" THEN DiskLines(m, m.partition) ELSE << >>,
         partitions |-> Headed(DiskLines(m, IF m.kernel = "2.4" /\ m.sys THEN m.partition ELSE 0)),
         loadavg |-> OneLine(31, 8), meminfo |-> Keys(t, <<"MemTotal", "MemFree", "Other", "Cached">>),
         serial |-> [i \in DOMAIN m.serial |-> [line |-> i - 1, counts |-> m.serial[i]]],
         dentry_state |-> OneLine(32, 2), file_nr |-> << >>, inode_state |-> OneLine(33, 2),
         pty_nr |-> OneLine(34, 1),
         net_dev |-> <<[key |-> "heading"]>>
                     \o [i \in 1..m.ifaces |->
                            [key |-> "interface", name |-> i, numbers |-> From(t, i, 16)]],
         nfs |-> <<[key |-> "rpc", numbers |-> From(t, 35, 2)],
                   [key |-> "proc3", numbers |-> From(t, 36, 23)],
                   [key |-> "proc4", numbers |-> From(t, 37, 35)]>>,
         nfsd |-> <<[key |-> "proc3", numbers |-> From(t, 38, 23)],
                    [key |-> "proc4ops", numbers |-> From(t, 39, 41)]>>,
         sockstat |-> Keys(t, <<"sockets", "TCP", "UDP", "RAW", "FRAG">>)]

Machine == [kernel |-> "2.6", sys |-> TRUE, cpus |-> 2, online |-> {0, 1}, partition |-> 11,
            disks |-> <<"used">>, ifaces |-> 1, serial |-> << >>]
Disks == UNION {[1..n -> {"unused", "used"}] : n \in 0..2}
SerialLine == {[o |-> 0], [tx |-> 1, rx |-> 2], [tx |-> 3, rx |-> 4, fe |-> 5, oe |-> 6]}

\* Pairs of a machine at the start and later: CPUs go and come, disks, interfaces
\* and lines as well, more of them than there are structures.
MachineInputs ==
    {[kind |-> "proc", first |-> [time |-> 1] @@ x.first @@ Machine,
      second |-> [time |-> 2] @@ x.second @@ Machine] :
        x \in {[first |-> [sys |-> s, cpus |-> n, online |-> {0} \cup a],
                second |-> [sys |-> s, cpus |-> n, online |-> {0} \cup b]] :
                    s \in BOOLEAN, n \in 0..3, a \in SUBSET {1, 2}, b \in SUBSET {1, 2}}
          \cup {[first |-> [kernel |-> k, sys |-> s, partition |-> p, disks |-> a],
                 second |-> [kernel |-> k, sys |-> s, partition |-> p, disks |-> b]] :
                    s \in BOOLEAN, k \in {"2.2", "2.4", "2.6"}, p \in {4, 11}, a \in Disks,
                    b \in Disks \cup {[i \in 1..n |-> "used"] : n \in 3..6}}
          \cup {[first |-> [ifaces |-> i, serial |-> a], second |-> [ifaces |-> j, serial |-> b]] :
                    i \in 0..1, j \in 0..4, a \in UNION {[1..n -> SerialLine] : n \in 0..1},
                    b \in UNION {[1..n -> SerialLine] : n \in 0..2}}}

-----------------------------------------------------------------------------
(* The same kernels as iostat sees them: some devices, of which the third  *)
(* is always there and idle, the first two have partitions, one has a name *)
(* from sysstat.ioconf and one from the device mapper.                     *)

DeviceNames == <<"d1", "d2", "ram", "dm", "emc", "d6", "d7", "d8", "d9">>
HardDisks == <<"hdisk0", "hdisk1", "hdisk2", "hdisk3">>
PartitionsOf == <<<<"d1p1", "d1p2">>, <<"d2p1">>>>

Counters(m, item, wraps) ==
    IF item = 3 THEN [i \in 1..11 |-> 0]
    ELSE [i \in 1..11 |-> m.time * (1000 + 20 * item + i)
                          + (IF wraps /\ i \in {3, 7} THEN 30000 * m.time ELSE 0)]
Present(m) ==
    IF m.kernel = "2.2" THEN <<1, 2, 3, 4>>
    ELSE SelectSeq([i \in 1..9 |-> i], LAMBDA i : i \in m.here \cup {3})
Alias(m, i) ==
    CASE m.kernel = "2.2" -> HardDisks[i]
      [] i = 4 /\ m.devmap /\ m.kernel # "2.2" -> "lv"
      [] i = 5 -> "power"
      [] OTHER -> DeviceNames[i]
PartNames(m, i) ==
    IF i > 2 \/ m.kernel \in {"2.2", "plain 2.4"} THEN << >> ELSE PartitionsOf[i]
Devices(m) ==
    [k \in DOMAIN Present(m) |->
        LET i == Present(m)[k]
        IN  [name |-> Alias(m, i), numbers |-> Counters(m, i, m.wraps),
             parts |-> [j \in DOMAIN PartNames(m, i) |->
                           [name |-> PartNames(m, i)[j],
                            numbers |-> Counters(m, 10 * i + j, m.wraps)]]]]

Protocols == <<"udp", "tcp", "rdma", "tcp", "udp">>
DirNames == <<"n1", "n2", "n3", "n4", "n5">>
Directories(m) ==
    LET dirs == SelectSeq([i \in 1..5 |-> i], LAMBDA i : i \in m.dirs)
    IN  [k \in DOMAIN dirs |->
            [name |-> DirNames[dirs[k]], protocol |-> Protocols[dirs[k]],
             numbers |-> [i \in 1..9 |-> m.time * (500 + 10 * dirs[k] + i)]]]

\* What iostat is to show of a machine.
Truth(m) ==
    [kernel |-> m.kernel, sysfs |-> m.sys, width |-> m.width, devs |-> Devices(m),
     mounts |-> Directories(m)]

\* The numbers of 32 bits that are in the files.
In32(numbers) == [i \in DOMAIN numbers |-> numbers[i] % 2^16]
Short(numbers) == <<numbers[1], numbers[3], numbers[5], numbers[7]>>
Full(m, numbers) == IF m.width = 11 THEN In32(numbers) ELSE Short(In32(numbers))
IoLines(m) ==
    FlattenSeq([k \in DOMAIN Present(m) |->
        LET i == Present(m)[k]
            d == Devices(m)[k]
        IN  <<[name |-> DeviceNames[i], ioc |-> IF i = 5 THEN "power" ELSE "",
               dm |-> IF i = 4 THEN "lv" ELSE "", numbers |-> In32(d.numbers)]>>
            \o [j \in DOMAIN d.parts |->
                  [name |-> d.parts[j].name, ioc |-> "nodev", dm |-> "",
                   numbers |-> Full(m, d.parts[j].numbers)]]])
SysBlock(m) ==
    [k \in DOMAIN Present(m) |->
        LET d == Devices(m)[k]
        IN  [name |-> d.name, stat |-> In32(d.numbers),
             parts |-> [j \in DOMAIN d.parts |->
                           [name |-> d.parts[j].name, stat |-> Full(m, d.parts[j].numbers)]]]]
DriveLines(m) ==
    LET d == Devices(m)
        Column(i) == In32([k \in 1..4 |-> d[k].numbers[i]])
    IN  CASE m.kernel = "2.2" ->
               <<[key |-> "disk", numbers |-> [k \in 1..4 |-> Column(1)[k] + Column(5)[k]]],
                 [key |-> "disk_rblk", numbers |-> Column(3)],
                 [key |-> "disk_wblk", numbers |-> Column(7)]>>
          [] m.kernel = "plain 2.4" ->
               <<[key |-> "disk_io",
                  entries |-> [k \in DOMAIN d |->
                    LET n == d[k].numbers
                    IN  [name |-> d[k].name, 
                        numbers |-> In32(<<n[1] + n[5], n[1], n[3], n[5], n[7]>>)]]]>>
          [] OTHER -> << >>
MountLines(d) ==
    <<[key |-> "device", name |-> d.name, mounted |-> TRUE, fstype |-> "nfs"],
      [key |-> "age"],
      [key |-> "bytes:", numbers |-> SubSeq(d.numbers, 1, 6) \o <<1, 2>>],
      [key |-> "xprt:", protocol |-> d.protocol,
       numbers |-> IF d.protocol = "udp" THEN <<7, 1, d.numbers[7], 4>>
                   ELSE <<7, 1, 1, 0, 3, d.numbers[7], 4>>],
      [key |-> "per-op"], [key |-> "NULL:", numbers |-> <<5>>],
      [key |-> "READ:", numbers |-> <<d.numbers[8]>>],
      [key |-> "WRITE:", numbers |-> <<d.numbers[9]>>],
      [key |-> "COMMIT:", numbers |-> <<6>>]>>
MountStats(m) ==
    <<[key |-> "device", name |-> "root", mounted |-> TRUE, fstype |-> "ext3"]>>
    \o FlattenSeq([k \in DOMAIN Directories(m) |-> MountLines(Directories(m)[k])])
    \o <<[key |-> "device", name |-> "sunrpc", mounted |-> FALSE, fstype |-> "none"]>>

IoFiles(m) ==
    LET old == m.kernel \in {"2.2", "plain 2.4"}
        base == [kernel |-> IF old THEN "2.4" ELSE "2.6", time |-> m.time] @@ Machine
    IN  [stat |-> CpuLines(base) \o DriveLines(m),
         sys_cpu |-> {0, 1}, uptime |-> <<[key |-> "line", numbers |-> <<m.time * 50, 3>>]>>,
         diskstats |-> IF m.kernel = "2.6" THEN IoLines(m) ELSE << >>,
         partitions |-> IF m.kernel = "2.4" THEN <<[numbers |-> << >>]>> \o IoLines(m) ELSE << >>,
         sysfs |-> IF m.sys THEN SysBlock(m) ELSE << >>,
         mountstats |-> MountStats(m)]

Minus(letters) == [kind |-> "letters", letters |-> letters]
P == [kind |-> "p"]
All == [kind |-> "ALL"]
Device(name) == [kind |-> "device", name |-> name]
Every == [kind |-> "number", n |-> 1]
Times(n) == [kind |-> "number", n |-> n]

Kernels ==
    {[kernel |-> "2.6", sys |-> TRUE, width |-> 4], [kernel |-> "2.6", sys |-> TRUE, width |-> 11],
     [kernel |-> "2.6", sys |-> FALSE, width |-> 4], [kernel |-> "sysfs", sys |-> TRUE, width |-> 4],
     [kernel |-> "2.4", sys |-> FALSE, width |-> 11],
     [kernel |-> "plain 2.4", sys |-> FALSE, width |-> 11],
     [kernel |-> "2.2", sys |-> FALSE, width |-> 11]}
Asked ==
    {<< >>, <<Minus(<<"x">>)>>, <<P>>, <<P, All>>, <<Device("d1")>>, <<P, Device("d1")>>,
     <<P, Device("d1"), Device("d2")>>, <<Minus(<<"x">>), Device("d2"), Device("d1p1")>>}

\* Four samples: what is there, and what is mounted.
IoInput(kernel, args, here, dirs, devmap, wraps) ==
    [kind |-> "iostat", kernel |-> kernel, args |-> args, here |-> here, dirs |-> dirs,
     devmap |-> devmap, wraps |-> wraps]
Still(set) == [k \in 1..4 |-> set]
Coming == {h \in [1..4 -> SUBSET {1, 2}] : 1 \in h[1]}
Mounting ==
    {e \in [1..4 -> SUBSET {1, 2, 3}] : e[1] # {}
        /\ \A j \in 1..3 : Cardinality((e[j] \ e[j + 1]) \cup (e[j + 1] \ e[j])) = 1}
ArgumentWords ==
    {P, All, Device("d1"), Device("d2p1"), Every, Times(0), Times(2), Minus(<<"d">>),
     Minus(<<"c", "n">>), Minus(<<"x", "k">>), Minus(<<"m", "t">>), Minus(<<"V">>)}

\* What is asked for while devices come and go, more devices than there are
\* structures, names from the files, directories that come and go, and any arguments.
AskedInputs ==
    {IoInput(k, a \o <<Every>>, h, Still({}), FALSE, FALSE) :
        k \in Kernels, a \in Asked, h \in Coming}
GrowingInputs ==
    {IoInput(k, <<Every>>, <<{1}, {1} \cup 4..n, 1..n, {2} \cup 5..n>>, Still({}), FALSE, w) :
        k \in Kernels, n \in 5..9, w \in BOOLEAN}
NamingInputs ==
    {IoInput(k, <<Minus(<<"N", "d">>), All, Every>>, Still({1, 4}), Still({}), TRUE, TRUE) :
        k \in Kernels \ {[kernel |-> "sysfs", sys |-> TRUE, width |-> 4]}}
MountInputs ==
    {IoInput(k, <<Minus(x)>> \o <<Every, Times(3)>>, Still({1}), d, FALSE, FALSE) :
        k \in Kernels, x \in {<<"n">>, <<"n", "x">>},
        d \in Mounting}
ArgumentInputs ==
    {IoInput(k, a, Still({1, 2}), Still({1}), FALSE, FALSE) :
        k \in {[kernel |-> "2.6", sys |-> TRUE, width |-> 4]},
        a \in UNION {[1..n -> ArgumentWords] : n \in 0..3}}

IostatInputs == AskedInputs \cup GrowingInputs \cup NamingInputs \cup MountInputs \cup ArgumentInputs

IoMachine(x, k) == [time |-> k, here |-> x.here[k], dirs |-> x.dirs[k], devmap |-> x.devmap,
                    wraps |-> x.wraps] @@ x.kernel

-----------------------------------------------------------------------------
Inputs ==
    [kind : {"plan"}, n : 1..13, d : 1..6, req : 1..3]
  \cup [kind : {"bytes"}, bytes : 1..20, iosize : 1..6, d : 1..4]
  \cup [kind : {"stagger"}, range : {0, 7, 16, 40, 61}, req : 1..4, ops : 1..7]
  \cup [kind : {"mix"}, ratio : 0..10, ops : 1..23]
  \cup [kind : {"ring"},
        entries : (1..300) \cup {33 * k : k \in 1..40}
                  \cup {4095, 4096, 65535, 65536, 70000, 1073741824, 2147483647}]
  \cup [kind : {"clock"}, first : [1..2 -> Bounces], second : [1..2 -> Bounces],
        offset : {-3, 5}]
  \cup [kind : {"raw"}, lens : UNION {[1..k -> 1..3] : k \in 1..5}]
  \cup [kind : {"sar"}, count : {-1, 1, 2},
        records : UNION {[1..k -> {"stats", "restart", "comment"}] : k \in 0..6}]

ReportInputs ==
    [kind : {"columns"}, a : ActivityUses, horizontally : BOOLEAN]
  \cup [kind : {"markup"}, acts : NetworkUses]

Init == input \in Inputs \cup OptionInputs \cup ReportInputs \cup MachineInputs \cup IostatInputs

Is(kind) == input.kind = kind

\* sadc starts, and takes two samples of the machine.
TakeSamples ==
    /\ Is("proc")
    /\ LET first == Files(input.first)
           second == Files(input.second)
           s0 == Proc!sa_sys_init(first)
           s1 == Proc!Sample(first, s0)
       IN  input' = [kind |-> "samples", first |-> first, second |-> second, s0 |-> s0,
                     s1 |-> s1, s2 |-> Proc!Sample(second, s1)]

\* iostat reads its command line, and reports if there is nothing wrong with it.
RunIostat ==
    /\ Is("iostat")
    /\ LET o == Io!main(input.args)
           ms == [k \in 1..4 |-> IoMachine(input, k)]
       IN  /\ o.end = "none"
           /\ input' = [kind |-> "reports", o |-> o, ms |-> [k \in 1..4 |-> Truth(ms[k])],
                        reports |-> Io!rw_io_stat_loop([k \in 1..4 |-> IoFiles(ms[k])], o)]

Next == TakeSamples \/ RunIostat \/ UNCHANGED input
Spec == Init /\ [][Next]_input

\* A number of requests is dealt out to the threads of a target without overlap
\* or omission.  Of an amount of data the whole requests are, and what is left of
\* it is lost (parse.c:2824 against xdd.c:893); an amount of less than one request
\* is moved by every thread.
WholeTargetMoved ==
    /\ Is("plan") => EachBlockOnce(input.n, input.d, input.req)
    /\ Is("bytes") => AmountMoved(input.bytes, input.iosize, input.d)

\* A staggered list stays in its range, and reads and writes are mixed in the
\* ratio asked for.
SeekListAsAsked ==
    /\ Is("stagger") => StaggerInRange(input.range, input.req, input.ops)
    /\ Is("mix") => ReadShare(input.ratio, input.ops)

\* The plan of xdd against what its options ask for: what is moved, with the two
\* exceptions of WholeTargetMoved, and the list of seeks (parse.c:2821-2872,
\* xdd.c:887-897, access_pattern.c:127).
PlanAsAsked == WholeTargetMoved /\ SeekListAsAsked

\* ring.h rounds down to the power of two at or below (ring.h:17).
RingRoundsDown ==
    Is("ring") => \E k \in 0..30 : /\ RD32(input.entries) = 2^k
                                   /\ 2^k <= input.entries
                                   /\ k < 30 => input.entries < 2^(k + 1)

\* The global start is met from above.
ClockNotEarly == Is("clock") => StartsOnTime(input.first, input.second, input.offset, 100)

\* The reader of a read-after-write follows the writer: never ahead of it, and
\* not behind if all writes are whole.
RawFollows ==
    Is("raw") => ReaderBehind(input.lens, 3) /\ ReaderKeepsUp(input.lens, 3)

\* Every sample between two restarts is shown for every activity, and none
\* twice, however records, restarts and comments follow each other - unless a
\* comment comes after the last line asked for, whose text is then taken for
\* records (sar.c:849, sadf.c:915).
ReportComplete == Is("sar") => ReportRight(Items(input.records), input.count)

\* Whatever is selected, the tables and averages of sar and the three formats of
\* sadf give the same values under the same labels, each line fits the list of
\* fields before it and the XML is nested - serial lines apart (prf_stats.c:810).
FormatsInStep ==
    /\ Is("columns") => Columns!FormatsAgree(input.a, input.horizontally)
    /\ Is("markup") => Columns!MarkupNested(input.acts)

\* Samples taken one after the other from whatever kernel, with CPUs, disks and
\* interfaces that come and go: nothing is lost at first, nothing is stale later,
\* what two readers say of the same lines fits together.
SamplesFaithful ==
    Is("samples") =>
        Proc!SampleFaithful(input.first, input.second, input.s0, input.s1, input.s2)

\* iostat shows what is asked for, of all devices and NFS directories that there are,
\* with what has happened since the last sample, while they come and go and entries
\* are used again - but for a device that comes back under the name it had
\* (iostat.c:389) and partitions read in /sys of later kernels (iostat.c:571).
DevicesFollowed ==
    Is("reports") => Io!IostatFollows(input.o, input.ms, input.reports)

\* The command line of xdd means its options one after the other, each for the
\* target or the targets it names - with four options that must come last
\* (parse.c:813, 1221, 1790, 2079) and one that leaves out something when it is
\* for all targets (parse.c:2684); a parameter file stands for its words.
OptionsAsAsked ==
    /\ Is("options") =>
        LET none == Defaults(<< >>)
            some == Parsed(Line([name |-> "reqsize", t |-> 1, words |-> <<Number(1)>>]), none).x
        IN  /\ InTurn(input.first, input.second, none)
            /\ LastCounts(input.first, input.second, some)
            /\ input.first.words # <<Word("location")>> => EachTarget(input.first, some)
    /\ Is("file") =>
        LET words == Line(input.first) \o Line(input.second)
        IN  FileInPlace(Spaced(words, input.gap) \o input.trail, words, input.next)

=============================================================================
