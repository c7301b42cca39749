-------------------------------- MODULE Iostat --------------------------------
(***************************************************************************)
(* iostat: its command line, the table of devices and that of NFS          *)
(* directories with the counters of this sample and of the last, the       *)
(* readers that keep them, and what is shown of them (iostat.c).           *)
(*                                                                         *)
(* The files of the kernel are those of ProcReaders, with the names of the *)
(* devices, and two more: sysfs is the content of /sys/block (empty if     *)
(* /sys is not mounted), mountstats are the lines of /proc/self/mountstats.*)
(***************************************************************************)
EXTENDS ProcReaders

LOCAL Sum(s) == FoldSeq(+, 0, s)

-----------------------------------------------------------------------------
(* The command line.  A word is "-p", the letters of other options, the    *)
(* name of a device, ALL or a number.  "-p" looks at the word after it;    *)
(* until it is there, p is TRUE.                                           *)

NoOptions == [flags |-> {}, dlist |-> << >>, p |-> FALSE, it |-> 0, interval |-> 0,
              count |-> 1, end |-> "none"]

Flag == [c |-> "CPU", d |-> "DISK", h |-> "HUMAN_READ", k |-> "KILOBYTES", m |-> "MEGABYTES",
         N |-> "DEVMAP_NAME", n |-> "NFS", t |-> "TIMESTAMP", x |-> "EXTENDED"]
Letter(o, c) ==
    CASE o.end # "none" -> o
      [] c = "V" -> [o EXCEPT !.end = "version"]
      [] \/ c \notin DOMAIN Flag
         \/ c = "k" /\ "MEGABYTES" \in o.flags
         \/ c = "m" /\ "KILOBYTES" \in o.flags -> [o EXCEPT !.end = "usage"]
      [] OTHER -> [o EXCEPT !.flags = @ \cup {Flag[c]}]

\* The device is added to the list if it is not in it.
update_dev_list(dlist, name, part) ==
    IF \E i \in DOMAIN dlist : dlist[i].name = name
    THEN [i \in DOMAIN dlist |->
            IF dlist[i].name = name THEN [dlist[i] EXCEPT !.part = @ \/ part] ELSE dlist[i]]
    ELSE Append(dlist, [name |-> name, part |-> part])

Interval(o, n) ==
    CASE o.it = 0 -> IF n < 0 THEN [o EXCEPT !.end = "usage"]
                     ELSE [o EXCEPT !.interval = n, !.count = -1, !.it = 1]
      [] o.it = 1 -> IF n < 1 \/ o.interval = 0 THEN [o EXCEPT !.end = "usage"]
                     ELSE [o EXCEPT !.count = n, !.it = -1]
      [] OTHER -> [o EXCEPT !.end = "usage"]

\* A "-p" without a device stands for all of them.
WithoutDevice(o) == IF o.p THEN [o EXCEPT !.flags = @ \cup {"PART_ALL"}, !.p = FALSE] ELSE o
Argument(o, a) ==
    LET b == WithoutDevice(o)
    IN  CASE o.end # "none" -> o
          [] a.kind = "p" -> [b EXCEPT !.flags = @ \cup {"PARTITIONS"}, !.p = TRUE]
          [] a.kind = "letters" -> FoldLeft(Letter, b, a.letters)
          [] a.kind = "number" -> Interval(b, a.n)
          [] a.kind = "ALL" ->
               [o EXCEPT !.flags = @ \cup {"UNFILTERED"} \cup (IF o.p THEN {"PART_ALL"} ELSE {}),
                         !.p = FALSE]
          [] a.kind = "device" ->
               [o EXCEPT !.flags = @ \cup {"UNFILTERED"}, !.p = FALSE,
                         !.dlist = update_dev_list(@, a.name, o.p)]

main(args) ==
    LET o == WithoutDevice(FoldLeft(Argument, NoOptions, args))
        reports == IF o.flags \cap {"CPU", "DISK", "NFS"} = {} THEN {"CPU", "DISK"}
                   ELSE IF o.flags \cap {"PARTITIONS", "EXTENDED", "UNFILTERED"} # {} THEN {"DISK"}
                   ELSE {}
    IN  IF o.end # "none" THEN o
        ELSE IF {"PARTITIONS", "EXTENDED"} \subseteq o.flags THEN [o EXCEPT !.end = "exclusive"]
        ELSE [o EXCEPT !.count = IF o.interval = 0 THEN 1 ELSE @,
                       !.flags = @ \cup reports,
                       !.dlist = IF "PART_ALL" \in o.flags THEN << >> ELSE @]

-----------------------------------------------------------------------------
(* A table: the names of its entries, and the counters of each in two      *)
(* buffers.                                                                *)

NoIo == Zeroed({"rd_ios", "rd_merges", "rd_sectors", "rd_ticks", "wr_ios", "wr_merges",
                "wr_sectors", "wr_ticks", "ios_pgr", "tot_ticks", "rq_ticks",
                "dk_drive", "dk_drive_rblk", "dk_drive_wblk"})
NoNfs == Zeroed({"rd_normal_bytes", "wr_normal_bytes", "rd_direct_bytes", "wr_direct_bytes",
                 "rd_server_bytes", "wr_server_bytes", "rpc_sends", "nfs_rops", "nfs_wops"})

salloc(nr, zero) ==
    [hdr |-> [i \in 1..nr |-> [name |-> "", used |-> FALSE, active |-> FALSE]],
     buf |-> [c \in 0..1 |-> [i \in 1..nr |-> zero]], zero |-> zero]

set_entries_inactive(t) == [t EXCEPT !.hdr = [i \in DOMAIN @ |-> [@[i] EXCEPT !.active = FALSE]]]
free_inactive_entries(t) ==
    [t EXCEPT !.hdr = [i \in DOMAIN @ |-> [@[i] EXCEPT !.used = @ /\ t.hdr[i].active]]]

\* Mutant of save_stats: what the device before had in the other buffer stays.
SaveStatsKept(t, curr, name, st) ==
    LET known == {i \in DOMAIN t.hdr : t.hdr[i].name = name}
        free == {i \in DOMAIN t.hdr : ~t.hdr[i].used}
        at == CHOOSE i \in known : \A j \in known : i <= j
        new == CHOOSE i \in free : \A j \in free : i <= j
    IN  CASE known # {} -> [t EXCEPT !.hdr[at].active = TRUE, !.buf[curr][at] = st]
          [] known = {} /\ free # {} ->
               [t EXCEPT !.hdr[new] = [name |-> name, used |-> TRUE, active |-> TRUE],
                         !.buf[curr][new] = st]
          [] OTHER -> t

\* A name that is in the table, even of an entry that is not used, is found there.
\* Without an entry that is not used, a new one is dropped.
save_stats(t, curr, name, st) ==
    LET known == {i \in DOMAIN t.hdr : t.hdr[i].name = name}
        free == {i \in DOMAIN t.hdr : ~t.hdr[i].used}
        at == CHOOSE i \in known : \A j \in known : i <= j
        new == CHOOSE i \in free : \A j \in free : i <= j
    IN  CASE known # {} -> [t EXCEPT !.hdr[at].active = TRUE, !.buf[curr][at] = st]
          [] known = {} /\ free # {} ->
               [t EXCEPT !.hdr[new] = [name |-> name, used |-> TRUE, active |-> TRUE],
                         !.buf[curr][new] = st, !.buf[1 - curr][new] = t.zero]
          [] OTHER -> t

-----------------------------------------------------------------------------
(* The readers *)

FullFormat == <<"rd_ios", "rd_merges", "rd_sectors", "rd_ticks", "wr_ios", "wr_merges",
                "wr_sectors", "wr_ticks", "ios_pgr", "tot_ticks", "rq_ticks">>
PartFormat == <<"rd_ios", "rd_sectors", "wr_ios", "wr_sectors">>
Io(format, numbers) == Scan(format, numbers) @@ NoIo

\* The name from sysstat.ioconf, if it has one, goes before that of the line, and
\* that of the device mapper, if asked for, before both.
NameOf(flags, l) ==
    CASE "DEVMAP_NAME" \in flags /\ l.dm # "" -> l.dm
      [] l.ioc \notin {"", "nodev"} -> l.ioc
      [] OTHER -> l.name

DriveKeys == [disk_rblk |-> "dk_drive_rblk", disk_wblk |-> "dk_drive_wblk", disk |-> "dk_drive"]
DriveEntry == <<"dk_drive", Skip, "dk_drive_rblk", Skip, "dk_drive_wblk">>
DiskAt == <<"hdisk0", "hdisk1", "hdisk2", "hdisk3">>

\* The lines of four disks go to the first entries, whatever their names.
read_proc_stat(proc, curr, t) ==
    LET Entry(s, e) == save_stats(s, curr, e.name, Io(DriveEntry, e.numbers))
        Read(s, l) ==
            CASE l.key \in DOMAIN DriveKeys ->
                   [s EXCEPT !.buf[curr] = [i \in DOMAIN @ |->
                        IF i <= 4 THEN [@[i] EXCEPT ![DriveKeys[l.key]] = l.numbers[i]] ELSE @[i]]]
              [] l.key = "disk_io" ->
                   free_inactive_entries(FoldLeft(Entry, set_entries_inactive(s), l.entries))
              [] OTHER -> s
    IN  FoldLeft(Read, t, proc.stat)

\* A stat file that is too short is left out.
read_sysfs_file_stat(curr, t, file, format) ==
    IF Matches(format, file.stat) THEN save_stats(t, curr, file.name, Io(format, file.stat)) ELSE t
read_sysfs_dlist_part_stat(curr, t, dev) ==
    FoldLeft(LAMBDA s, part : read_sysfs_file_stat(curr, s, part, PartFormat), t, dev.parts)
SysfsDevice(curr, t, dev, parts) ==
    LET s == read_sysfs_file_stat(curr, t, dev, FullFormat)
    IN  IF parts THEN read_sysfs_dlist_part_stat(curr, s, dev) ELSE s

\* In the order of the list, not of the directory.
read_sysfs_dlist_stat(proc, curr, t, dlist) ==
    LET Devices(name) == SelectSeq(proc.sysfs, LAMBDA dev : dev.name = name)
        Read(s, d) == FoldLeft(LAMBDA x, dev : SysfsDevice(curr, x, dev, d.part),
                               s, Devices(d.name))
    IN  free_inactive_entries(FoldLeft(Read, set_entries_inactive(t), dlist))
read_sysfs_stat(proc, curr, t, flags) ==
    free_inactive_entries(
        FoldLeft(LAMBDA s, dev : SysfsDevice(curr, s, dev, "PART_ALL" \in flags),
                 set_entries_inactive(t), proc.sysfs))

\* A line of 7 words is that of a partition, with the numbers of PartFormat, and is
\* left out unless devices or partitions are asked for.  If the file is not there,
\* nothing is freed.
read_diskstats_stat(proc, curr, t, flags, dlist) ==
    LET Read(s, l) ==
            CASE Len(l.numbers) = 11 -> save_stats(s, curr, NameOf(flags, l), Io(FullFormat, l.numbers))
              [] /\ Len(l.numbers) = 4
                 /\ "EXTENDED" \notin flags
                 /\ dlist # << >> \/ "PARTITIONS" \in flags ->
                   save_stats(s, curr, NameOf(flags, l), Io(PartFormat, l.numbers))
              [] OTHER -> s
        clear == set_entries_inactive(t)
    IN  IF proc.diskstats = << >> THEN clear
        ELSE free_inactive_entries(FoldLeft(Read, clear, proc.diskstats))
read_ppartitions_stat(proc, curr, t, flags) ==
    LET Read(s, l) ==
            IF Len(l.numbers) # 11 THEN s
            ELSE save_stats(s, curr, NameOf(flags, l), Io(FullFormat, l.numbers))
        clear == set_entries_inactive(t)
    IN  IF proc.partitions = << >> THEN clear
        ELSE free_inactive_entries(FoldLeft(Read, clear, proc.partitions))

BytesFormat == <<"rd_normal_bytes", "wr_normal_bytes", "rd_direct_bytes", "wr_direct_bytes",
                 "rd_server_bytes", "wr_server_bytes">>
SendsFormat == [udp |-> Past(2) \o <<"rpc_sends">>, tcp |-> Past(5) \o <<"rpc_sends">>,
                rdma |-> Past(5) \o <<"rpc_sends">>]

\* The lines of a directory come in the order device, bytes, xprt, per-op, READ and
\* WRITE; sw is how far they have come.
read_nfs_stat(proc, curr, t) ==
    LET Read(s, l) ==
            CASE s.sw = 4 /\ l.key = "READ:" -> [s EXCEPT !.snfs.nfs_rops = l.numbers[1]]
              [] s.sw = 4 /\ l.key = "WRITE:" ->
                   LET snfs == [s.snfs EXCEPT !.nfs_wops = l.numbers[1]]
                   IN  [s EXCEPT !.sw = 0, !.snfs = snfs, !.t = save_stats(@, curr, s.name, snfs)]
              [] s.sw # 4 /\ l.key = "device" ->
                   [s EXCEPT !.sw = IF l.mounted THEN 1 ELSE 0, !.name = l.name]
              [] s.sw \in 1..3 /\ l.key = "bytes:" ->
                   [s EXCEPT !.sw = 2, !.snfs = Store(@, l, BytesFormat)]
              [] s.sw = 2 /\ l.key = "xprt:" ->
                   [s EXCEPT !.sw = 3, !.snfs = Store(@, l, SendsFormat[l.protocol])]
              [] s.sw = 3 /\ l.key = "per-op" -> [s EXCEPT !.sw = 4]
              [] OTHER -> s
        start == [sw |-> 0, name |-> "", snfs |-> NoNfs, t |-> set_entries_inactive(t)]
    IN  IF proc.mountstats = << >> THEN start.t
        ELSE free_inactive_entries(FoldLeft(Read, start, proc.mountstats).t)

-----------------------------------------------------------------------------
(* What there is when iostat starts *)

NR_DEV_PREALLOC == 4
NR_NFS_PREALLOC == 2

get_dev_part_nr(dev) == Len(dev.parts)
get_sysfs_dev_nr(proc, display_partitions) ==
    Sum([i \in DOMAIN proc.sysfs |->
            1 + (IF display_partitions THEN get_dev_part_nr(proc.sysfs[i]) ELSE 0)])
get_nfs_mount_nr(proc) ==
    Count(proc.mountstats, LAMBDA l : l.key = "device" /\ l.mounted /\ l.fstype = "nfs")

\* /sys is looked for as well if it takes it to find the partitions of a device: the
\* size of the table is then what was found there.
io_sys_init(proc, o) ==
    LET disk == get_diskstats_dev_nr(proc, TRUE, FALSE)
        sys == get_sysfs_dev_nr(proc, "PARTITIONS" \in o.flags)
        part == get_ppartitions_dev_nr(proc, TRUE)
        entries == get_disk_io_nr(proc)
        also == disk = 0 \/ ("PARTITIONS" \in o.flags /\ "PART_ALL" \notin o.flags)
        first == IF disk > 0 THEN {"HAS_DISKSTATS"} ELSE {}
        found == CASE ~also -> [f |-> first, nr |-> disk + NR_DEV_PREALLOC]
                   [] also /\ sys > 0 ->
                        [f |-> first \cup {"HAS_SYSFS"}, nr |-> sys + NR_DEV_PREALLOC]
                   [] also /\ sys = 0 /\ part > 0 ->
                        [f |-> first \cup {"HAS_PPARTITIONS"}, nr |-> part + NR_DEV_PREALLOC]
                   [] also /\ sys = 0 /\ part = 0 /\ entries > 0 ->
                        [f |-> first \cup {"PLAIN_KERNEL24"}, nr |-> entries + NR_DISK_PREALLOC]
                   [] OTHER -> [f |-> first \cup {"OLD_KERNEL"}, nr |-> 4]
        nfs == IF "NFS" \in o.flags THEN get_nfs_mount_nr(proc) ELSE 0
        t == salloc(found.nr, NoIo)
    IN  [flags |-> o.flags \cup found.f \cup (IF nfs > 0 THEN {"HAS_NFS"} ELSE {}),
         dlist |-> o.dlist, cpu_nr |-> get_cpu_nr(proc),
         iodev |-> IF "OLD_KERNEL" \in found.f
                   THEN [t EXCEPT !.hdr = [i \in 1..4 |->
                            [name |-> DiskAt[i], used |-> TRUE, active |-> FALSE]]]
                   ELSE t,
         ionfs |-> salloc(Spare(nfs, NR_NFS_PREALLOC), NoNfs),
         cpu |-> [c \in 0..1 |-> NoCpu], uptime |-> [c \in 0..1 |-> 0],
         uptime0 |-> [c \in 0..1 |-> 0], curr |-> 1]

-----------------------------------------------------------------------------
(* What is shown.  The figures of a line are differences of counters: they *)
(* are divided by the interval, and by the factor for the unit asked for.  *)

get_interval(prev, curr) ==
    LET itv == IF prev = 0 THEN curr ELSE Unsigned(curr - prev)
    IN  IF itv = 0 THEN 1 ELSE itv

\* A counter that has gone back was one of 32 bits.
Moved(prev, curr) == IF curr < prev /\ prev <= UINT_MAX THEN Unsigned(curr - prev) ELSE curr - prev
OrZero(n, d) == IF d = 0 THEN <<0, 1>> ELSE <<n, d>>

write_cpu_stat(prev, curr) ==
    LET D(m) == Moved(prev[m], curr[m])
        System(sc) == sc.cpu_sys + sc.cpu_softirq + sc.cpu_hardirq
    IN  [user |-> D("cpu_user"), nice |-> D("cpu_nice"),
         system |-> Moved(System(prev), System(curr)), iowait |-> D("cpu_iowait"),
         steal |-> D("cpu_steal"),
         idle |-> IF curr.cpu_idle < prev.cpu_idle THEN 0 ELSE D("cpu_idle")]

write_disk_stat_header(flags) ==
    CASE "MEGABYTES" \in flags -> 2048 [] "KILOBYTES" \in flags -> 2 [] OTHER -> 1
write_nfs_stat_header(flags) ==
    CASE "KILOBYTES" \in flags -> 1024 [] "MEGABYTES" \in flags -> 1024 * 1024 [] OTHER -> 512

write_ext_stat(name, prev, curr) ==
    LET D(m) == curr[m] - prev[m]
        ios == D("rd_ios") + D("wr_ios")
    IN  [name |-> name, rrqm |-> D("rd_merges"), wrqm |-> D("wr_merges"), r |-> D("rd_ios"),
         w |-> D("wr_ios"), rsec |-> Moved(prev.rd_sectors, curr.rd_sectors),
         wsec |-> Moved(prev.wr_sectors, curr.wr_sectors),
         arqsz |-> OrZero(D("rd_sectors") + D("wr_sectors"), ios),
         avgqu |-> D("rq_ticks"), await |-> OrZero(D("rd_ticks") + D("wr_ticks"), ios),
         svctm |-> OrZero(D("tot_ticks"), ios), util |-> D("tot_ticks")]
write_basic_stat(name, prev, curr, proc_stat) ==
    IF proc_stat
    THEN [name |-> name, tps |-> curr.dk_drive - prev.dk_drive,
          read |-> Unsigned(curr.dk_drive_rblk - prev.dk_drive_rblk),
          wrtn |-> Unsigned(curr.dk_drive_wblk - prev.dk_drive_wblk)]
    ELSE [name |-> name, tps |-> (curr.rd_ios + curr.wr_ios) - (prev.rd_ios + prev.wr_ios),
          read |-> Moved(prev.rd_sectors, curr.rd_sectors),
          wrtn |-> Moved(prev.wr_sectors, curr.wr_sectors)]
write_nfs_stat(name, prev, curr) ==
    [name |-> name, figures |-> [m \in DOMAIN curr |-> curr[m] - prev[m]]]

\* The lines of a table: Line of the entries Used of which Wanted is true.
Lines(t, curr, Wanted(_, _), Line(_, _, _)) ==
    LET shown == SelectSeq([i \in DOMAIN t.hdr |-> i],
                   LAMBDA i : t.hdr[i].used /\ Wanted(t.hdr[i].name, t.buf[curr][i]))
    IN  [k \in DOMAIN shown |->
            Line(t.hdr[shown[k]].name, t.buf[1 - curr][shown[k]], t.buf[curr][shown[k]])]

\* With extended statistics an old kernel ends the report, NFS directories included.
write_stats(s) ==
    LET f == s.flags
        curr == s.curr
        old == f \cap {"OLD_KERNEL", "PLAIN_KERNEL24"} # {}
        itv == get_interval(s.uptime[1 - curr], s.uptime[curr])
        Wanted(name, st) ==
            /\ \/ s.dlist = << >>
               \/ "HAS_SYSFS" \in f
               \/ \E d \in Range(s.dlist) : d.name = name
            /\ \/ "UNFILTERED" \in f
               \/ old /\ st.dk_drive # 0
               \/ ~old /\ (st.rd_ios # 0 \/ st.wr_ios # 0)
        Line(name, prev, now) ==
            IF "EXTENDED" \in f THEN write_ext_stat(name, prev, now)
            ELSE write_basic_stat(name, prev, now,
                                  f \cap {"HAS_SYSFS", "HAS_DISKSTATS", "HAS_PPARTITIONS"} = {})
        ends == "DISK" \in f /\ "EXTENDED" \in f /\ old
    IN  [itv |-> itv,
         itv0 |-> IF s.cpu_nr > 1 THEN get_interval(s.uptime0[1 - curr], s.uptime0[curr]) ELSE itv,
         cpu |-> IF "CPU" \in f THEN <<write_cpu_stat(s.cpu[1 - curr], s.cpu[curr])>> ELSE << >>,
         disk |-> IF "DISK" \notin f \/ ends THEN << >> ELSE Lines(s.iodev, curr, Wanted, Line),
         fctr |-> write_disk_stat_header(f),
         nfs |-> IF "NFS" \notin f \/ ends \/ "HAS_NFS" \notin f THEN << >>
                 ELSE Lines(s.ionfs, curr, LAMBDA name, st : TRUE, write_nfs_stat),
         nfs_fctr |-> write_nfs_stat_header(f)]

\* Where the counters of the devices are read.
ReadDevices(proc, s, t) ==
    LET Has(f) == f \in s.flags
        stat == IF s.flags \cap {"EXTENDED", "HAS_DISKSTATS", "HAS_PPARTITIONS", "HAS_SYSFS"} = {}
                THEN read_proc_stat(proc, s.curr, t) ELSE t
        listed == s.dlist # << >>
        others == ~listed \/ ~Has("PARTITIONS")
    IN  CASE Has("HAS_DISKSTATS") /\ others ->
               read_diskstats_stat(proc, s.curr, stat, s.flags, s.dlist)
          [] Has("HAS_SYSFS") /\ listed /\ ~(Has("HAS_DISKSTATS") /\ others) ->
               read_sysfs_dlist_stat(proc, s.curr, stat, s.dlist)
          [] Has("HAS_SYSFS") /\ ~listed /\ ~Has("HAS_DISKSTATS") ->
               read_sysfs_stat(proc, s.curr, stat, s.flags)
          [] /\ Has("HAS_PPARTITIONS") /\ others
             /\ s.flags \cap {"HAS_DISKSTATS", "HAS_SYSFS"} = {} ->
               read_ppartitions_stat(proc, s.curr, stat, s.flags)
          [] OTHER -> stat

\* One sample is read into the current buffers.  Time spent in interrupts is added to
\* that of the system.
TakeSample(proc, s) ==
    LET c == s.curr
        r == read_stat_cpu(proc, [cpu |-> <<s.cpu[c], NoCpu>>, uptime |-> s.uptime[c],
                                  uptime0 |-> IF s.cpu_nr > 1 THEN read_uptime(proc, 0)
                                              ELSE s.uptime0[c]])
        sc == r.cpu[1]
    IN  [s EXCEPT !.cpu[c] = [sc EXCEPT !.cpu_sys = @ + sc.cpu_hardirq + sc.cpu_softirq],
                  !.uptime[c] = r.uptime, !.uptime0[c] = r.uptime0,
                  !.iodev = ReadDevices(proc, s, @),
                  !.ionfs = IF "HAS_NFS" \in s.flags THEN read_nfs_stat(proc, c, @) ELSE @]

\* The reports, one for each sample.
rw_io_stat_loop(procs, o) ==
    LET Report(x, proc) ==
            LET s == TakeSample(proc, x.s)
            IN  [s |-> [s EXCEPT !.curr = 1 - @], reports |-> Append(x.reports, write_stats(s))]
        n == IF o.count > 0 /\ o.count < Len(procs) THEN o.count ELSE Len(procs)
    IN  FoldLeft(Report, [s |-> io_sys_init(procs[1], o), reports |-> << >>],
                 SubSeq(procs, 1, n)).reports

-----------------------------------------------------------------------------
(* What the reports must say.  ms are the machines as they are when the    *)
(* samples are taken: the devices with their partitions, each with the     *)
(* eleven counters of a disk, and the NFS directories.                     *)

Named(d) == [n \in {d[i].name : i \in DOMAIN d} |->
                d[CHOOSE i \in DOMAIN d : d[i].name = n].numbers]
Parts(m) == FlattenSeq([i \in DOMAIN m.devs |-> m.devs[i].parts])
OldKernel(m) == m.kernel \in {"2.2", "plain 2.4"}
OnePartitioned(o) == "PARTITIONS" \in o.flags /\ "PART_ALL" \notin o.flags
FromSys(o, m) == ~OldKernel(m) /\ (m.kernel = "sysfs" \/ OnePartitioned(o))

\* Of which devices and partitions there are counters: those of a file under /proc
\* that has partitions like devices (iostat.c:745), or with less numbers, which are
\* left out unless something in particular is asked for (iostat.c:762); those asked
\* for if they are read in /sys, which must be mounted (iostat.c:309).
Counted(o, m) ==
    LET Asked(i) == o.dlist = << >> \/ \E d \in Range(o.dlist) : d.name = m.devs[i].name
        WithParts(i) == \/ "PART_ALL" \in o.flags
                        \/ \E d \in Range(o.dlist) : d.name = m.devs[i].name /\ d.part
        file == \/ m.width = 11
                \/ "EXTENDED" \notin o.flags /\ (o.dlist # << >> \/ "PARTITIONS" \in o.flags)
        sys == FlattenSeq([i \in DOMAIN m.devs |->
                 IF ~Asked(i) THEN << >>
                 ELSE <<m.devs[i]>> \o (IF WithParts(i) THEN m.devs[i].parts ELSE << >>)])
    IN  CASE OldKernel(m) -> IF "EXTENDED" \in o.flags THEN Named(<< >>) ELSE Named(m.devs)
          [] FromSys(o, m) -> IF m.sysfs THEN Named(sys) ELSE Named(<< >>)
          [] OTHER -> Named(m.devs \o (IF file THEN Parts(m) ELSE << >>))

\* Those of them that are asked for and have done something since boot, or are
\* shown whatever they have done because some are asked for by name or ALL.
Wanted(o, m) ==
    {n \in DOMAIN Counted(o, m) :
        /\ FromSys(o, m) \/ o.dlist = << >> \/ \E d \in Range(o.dlist) : d.name = n
        /\ LET c == Counted(o, m)[n] IN "UNFILTERED" \in o.flags \/ c[1] + c[5] # 0}

\* A device that has been there, gone, and come back is found by its name in an
\* entry no longer used, which is not used again (iostat.c:389): nothing is said
\* of it, whether it is shown or not.
Returned(seen, n, k) ==
    \E i, j \in 1..k : i < j /\ j < k /\ n \in DOMAIN seen[i] /\ n \notin DOMAIN seen[j]
                       /\ \E l \in j..k : n \in DOMAIN seen[l]

\* There is an entry for each, those that have just gone included, up to here.
Roomy(seen, spare, k) ==
    \A j \in 2..k : Cardinality(DOMAIN seen[j - 1] \cup DOMAIN seen[j])
                       <= Cardinality(DOMAIN seen[1]) + spare

\* Each report shows what is wanted, once, with the difference to the last sample,
\* or to nothing for what was not there then.
Follows(shown, seen, wanted, spare, zero, Figures(_, _, _)) ==
    \A k \in DOMAIN shown : Roomy(seen, spare, k) =>
        LET old == {n \in UNION {DOMAIN seen[j] : j \in 1..k} : Returned(seen, n, k)}
            Before(n) == IF k > 1 /\ n \in DOMAIN seen[k - 1] THEN seen[k - 1][n] ELSE zero
        IN  /\ {l.name : l \in Range(shown[k])} \ old = wanted[k] \ old
            /\ \A i, j \in DOMAIN shown[k] : i # j => shown[k][i].name # shown[k][j].name
            /\ \A l \in Range(shown[k]) : l.name \notin old =>
                  Figures(l, Before(l.name), seen[k][l.name])

\* A stat file of a partition in /sys that has as many numbers as that of a device is
\* not read as such (iostat.c:571): nothing is said of its figures.
DiskFigures(o, m, l, before, now) ==
    LET D(i) == now[i] - before[i]
        misread == FromSys(o, m) /\ m.width = 11 /\ l.name \in DOMAIN Named(Parts(m))
    IN  misread \/
        IF "EXTENDED" \in o.flags
        THEN l = [name |-> l.name, r |-> D(1), rrqm |-> D(2), rsec |-> D(3), w |-> D(5),
                  wrqm |-> D(6), wsec |-> D(7), util |-> D(10), avgqu |-> D(11),
                  arqsz |-> OrZero(D(3) + D(7), D(1) + D(5)),
                  await |-> OrZero(D(4) + D(8), D(1) + D(5)),
                  svctm |-> OrZero(D(10), D(1) + D(5))]
        ELSE l = [name |-> l.name, tps |-> D(1) + D(5), read |-> Unsigned(D(3)),
                  wrtn |-> Unsigned(D(7))]

NfsFigures(l, before, now) ==
    LET columns == BytesFormat \o <<"rpc_sends", "nfs_rops", "nfs_wops">>
    IN  \A i \in 1..9 : l.figures[columns[i]] = now[i] - before[i]

\* The shares of the CPU add up to the interval, if no time went to interrupts:
\* that is added twice (iostat.c:997, 1408).
SharesAddUp(r) ==
    \A c \in Range(r.cpu) : c.user + c.nice + c.system + c.iowait + c.steal + c.idle = r.itv

\* o are the options, ms the machines that the reports are of.
IostatFollows(o, ms, reports) ==
    LET Of(F(_)) == [k \in DOMAIN reports |-> F(k)]
        ends == "EXTENDED" \in o.flags /\ OldKernel(ms[1])
    IN  /\ Len(reports) = (IF o.count > 0 /\ o.count < Len(ms) THEN o.count ELSE Len(ms))
        /\ "DISK" \in o.flags =>
             Follows(Of(LAMBDA i : reports[i].disk), Of(LAMBDA i : Counted(o, ms[i])),
                     Of(LAMBDA i : Wanted(o, ms[i])), 3, [i \in 1..11 |-> 0],
                     LAMBDA l, before, now : DiskFigures(o, ms[1], l, before, now))
        /\ "NFS" \in o.flags /\ ~ends /\ ms[1].mounts # << >> =>
             Follows(Of(LAMBDA i : reports[i].nfs), Of(LAMBDA i : Named(ms[i].mounts)),
                     Of(LAMBDA i : DOMAIN Named(ms[i].mounts)), 2, [i \in 1..9 |-> 0],
                     LAMBDA l, before, now : NfsFigures(l, before, now))
        /\ OldKernel(ms[1]) => \A k \in DOMAIN reports : SharesAddUp(reports[k])
=============================================================================
