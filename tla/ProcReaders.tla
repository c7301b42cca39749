----------------------------- MODULE ProcReaders -----------------------------
(***************************************************************************)
(* How sadc takes a sample: the readers of the files under /proc           *)
(* (rd_stats.c), the choice between the files of different kernels         *)
(* (sa_stub.c), the number of items of an activity, counted once when sadc *)
(* starts, and what is wiped before each sample (sadc.c).                  *)
(*                                                                         *)
(* A file is the sequence of its lines, and one that is not there reads    *)
(* like an empty one; only without /proc/stat does sadc end.  A line has a *)
(* key, if it is recognised by one, and its numbers in their order.  A     *)
(* structure is a function on the names of its members.                    *)
(***************************************************************************)
EXTENDS Integers, Sequences, FiniteSets, SequencesExt, TLC

LOCAL Sum(s) == FoldSeq(+, 0, s)
Zeroed(members) == [m \in members |-> 0]

-----------------------------------------------------------------------------
(* sscanf: a format names the member each number goes to, or skips it.  It *)
(* stops where the line ends; its result is the number of members stored.  *)

Skip == "%*u"

Found(format, numbers) ==
    {i \in DOMAIN format : format[i] # Skip /\ i <= Len(numbers)}
Scan(format, numbers) ==
    [m \in {format[i] : i \in Found(format, numbers)} |->
        numbers[CHOOSE i \in DOMAIN format : format[i] = m]]
Matches(format, numbers) == \A i \in DOMAIN format : format[i] # Skip => i <= Len(numbers)
Store(st, line, format) == Scan(format, line.numbers) @@ st

\* The loop over a file whose lines are told apart by their keys.
Keyed(file, st, formats) ==
    FoldLeft(LAMBDA s, l : IF l.key \in DOMAIN formats THEN Store(s, l, formats[l.key]) ELSE s,
             st, file)

\* The sum of the first numbers of the lines with a key.
Total(file, key) ==
    FoldLeft(LAMBDA n, l : IF l.key = key THEN n + l.numbers[1] ELSE n, 0, file)

\* The items of a file, each in a structure of its own as far as there are any.
Placed(items, table, Filled(_, _)) ==
    [i \in DOMAIN table |-> IF i <= Len(items) THEN Filled(table[i], items[i]) ELSE table[i]]

-----------------------------------------------------------------------------
(* CPUs and uptime *)

CpuMembers == <<"cpu_user", "cpu_nice", "cpu_sys", "cpu_idle", "cpu_iowait", "cpu_hardirq",
                "cpu_softirq", "cpu_steal", "cpu_guest">>
NoCpu == Zeroed(Range(CpuMembers))

\* cpu_user includes cpu_guest.
Jiffies(sc) == Sum([i \in 1..8 |-> sc[CpuMembers[i]]])

\* st: the structures cpu (1 is CPU "all"), uptime and uptime0.
read_stat_cpu(proc, st) ==
    LET nr == Len(st.cpu)
        Read(s, l) ==
            LET sc == Store(NoCpu, l, CpuMembers)
            IN  CASE l.key = "cpu " -> [s EXCEPT !.cpu[1] = sc, !.uptime = Jiffies(sc)]
                  [] l.key = "cpu" /\ nr > 1 ->
                     [s EXCEPT !.cpu = IF l.nb < nr - 1 THEN [@ EXCEPT ![l.nb + 2] = sc] ELSE @,
                               !.uptime0 = IF l.nb = 0 /\ @ = 0 THEN Jiffies(sc) ELSE @]
                  [] OTHER -> s
    IN  FoldLeft(Read, st, proc.stat)

HZ == 100
read_uptime(proc, uptime) ==
    IF proc.uptime = << >> THEN uptime
    ELSE LET n == proc.uptime[1].numbers IN n[1] * HZ + (n[2] * HZ) \div 100

-----------------------------------------------------------------------------
(* Tasks, interrupts, load, memory, swapping, paging *)

read_stat_pcsw(proc, st) ==
    Keyed(proc.stat, st, [ctxt |-> <<"context_switch">>, processes |-> <<"processes">>])

\* The sum first, then as many interrupts as there are structures.
read_stat_irq(proc, table) ==
    FoldLeft(LAMBDA t, l : IF l.key = "intr"
                           THEN Placed(l.numbers, t, LAMBDA st, n : [irq_nr |-> n])
                           ELSE t,
             table, proc.stat)

\* sar itself is not counted among the running tasks.
read_loadavg(proc, st) ==
    IF proc.loadavg = << >> THEN st
    ELSE LET n == proc.loadavg[1].numbers
         IN  [load_avg_1 |-> n[2] + n[1] * 100, load_avg_5 |-> n[4] + n[3] * 100,
              load_avg_15 |-> n[6] + n[5] * 100,
              nr_running |-> IF n[7] # 0 THEN n[7] - 1 ELSE 0, nr_threads |-> n[8]]

read_meminfo(proc, st) ==
    Keyed(proc.meminfo, st,
          [MemTotal |-> <<"tlmkb">>, MemFree |-> <<"frmkb">>, Buffers |-> <<"bufkb">>,
           Cached |-> <<"camkb">>, SwapCached |-> <<"caskb">>, SwapTotal |-> <<"tlskb">>,
           SwapFree |-> <<"frskb">>, Committed_AS |-> <<"comkb">>])

HasLine(file, key) == \E i \in DOMAIN file : file[i].key = key

read_vmstat_swap(proc, st) ==
    [ok |-> HasLine(proc.vmstat, "pswpin"),
     st |-> Keyed(proc.vmstat, st, [pswpin |-> <<"pswpin">>, pswpout |-> <<"pswpout">>])]
read_stat_swap(proc, st) == Keyed(proc.stat, st, [swap |-> <<"pswpin", "pswpout">>])

\* Some members are sums over the zones of the memory.
read_vmstat_paging(proc, st) ==
    [ok |-> HasLine(proc.vmstat, "pgpgin"),
     st |-> [pgsteal |-> Total(proc.vmstat, "pgsteal_"),
             pgscan_kswapd |-> Total(proc.vmstat, "pgscan_kswapd_"),
             pgscan_direct |-> Total(proc.vmstat, "pgscan_direct_")]
            @@ Keyed(proc.vmstat, st,
                     [pgpgin |-> <<"pgpgin">>, pgpgout |-> <<"pgpgout">>,
                      pgfault |-> <<"pgfault">>, pgmajfault |-> <<"pgmajfault">>,
                      pgfree |-> <<"pgfree">>])]
read_stat_paging(proc, st) == Keyed(proc.stat, st, [page |-> <<"pgpgin", "pgpgout">>])

wrap_read_swap(proc, st) ==
    LET r == read_vmstat_swap(proc, st) IN IF r.ok THEN r.st ELSE read_stat_swap(proc, r.st)
wrap_read_paging(proc, st) ==
    LET r == read_vmstat_paging(proc, st) IN IF r.ok THEN r.st ELSE read_stat_paging(proc, r.st)

-----------------------------------------------------------------------------
(* Disks.  A line of /proc/diskstats or /proc/partitions is known to be a  *)
(* whole device from its major and minor numbers (ioc_iswhole).            *)

IoFormat == <<"rd_ios", Skip, "rd_sec", Skip, "wr_ios", Skip, "wr_sec">>
DiskFormat == <<"rd_ios", Skip, "rd_sec", "rd_ticks", "wr_ios", Skip, "wr_sec", "wr_ticks", Skip,
                "tot_ticks", "rq_ticks">>
UINT_MAX == 2^16 - 1          \* of 32 bits, cut short for the numbers of the checks
Unsigned(n) == n % (UINT_MAX + 1)

\* Devices are added to what is there.
AddDevice(st, l) ==
    IF ~Matches(IoFormat, l.numbers) \/ ~l.whole THEN st
    ELSE LET x == Scan(IoFormat, l.numbers)
         IN  [dk_drive |-> Unsigned(st.dk_drive + x.rd_ios + x.wr_ios),
              dk_drive_rio |-> Unsigned(st.dk_drive_rio + x.rd_ios),
              dk_drive_rblk |-> Unsigned(st.dk_drive_rblk + Unsigned(x.rd_sec)),
              dk_drive_wio |-> Unsigned(st.dk_drive_wio + x.wr_ios),
              dk_drive_wblk |-> Unsigned(st.dk_drive_wblk + Unsigned(x.wr_sec))]
read_diskstats_io(proc, st) == FoldLeft(AddDevice, st, proc.diskstats)
read_ppartitions_io(proc, st) == FoldLeft(AddDevice, st, proc.partitions)

\* One line for each member with the first four disks, or one line with an entry
\* for each disk, which is added.
IoKeys == [disk |-> "dk_drive", disk_rio |-> "dk_drive_rio", disk_wio |-> "dk_drive_wio",
           disk_rblk |-> "dk_drive_rblk", disk_wblk |-> "dk_drive_wblk"]
IoEntry == <<"dk_drive", "dk_drive_rio", "dk_drive_rblk", "dk_drive_wio", "dk_drive_wblk">>
read_stat_io(proc, st) ==
    LET Entry(s, e) == [m \in DOMAIN s |-> Unsigned(s[m] + Scan(IoEntry, e.numbers)[m])]
        Read(s, l) ==
            CASE l.key \in DOMAIN IoKeys ->
                   [s EXCEPT ![IoKeys[l.key]] = Unsigned(Sum(SubSeq(l.numbers, 1, 4)))]
              [] l.key = "disk_io" -> FoldLeft(Entry, s, l.entries)
              [] OTHER -> s
    IN  FoldLeft(Read, st, proc.stat)

DiskMembers == {"major", "minor", "nr_ios", "rd_sect", "wr_sect", "rd_ticks", "wr_ticks",
                "tot_ticks", "rq_ticks"}

\* Whole devices that have been used.
Listed(l) ==
    /\ Matches(DiskFormat, l.numbers)
    /\ LET x == Scan(DiskFormat, l.numbers) IN x.rd_ios # 0 \/ x.wr_ios # 0
    /\ l.whole
DiskOf(st, l) ==
    LET x == Scan(DiskFormat, l.numbers)
    IN  [major |-> l.major, minor |-> l.minor, nr_ios |-> x.rd_ios + x.wr_ios,
         rd_sect |-> x.rd_sec, wr_sect |-> x.wr_sec, rd_ticks |-> x.rd_ticks,
         wr_ticks |-> x.wr_ticks, tot_ticks |-> x.tot_ticks, rq_ticks |-> x.rq_ticks]
read_diskstats_disk(proc, table) == Placed(SelectSeq(proc.diskstats, Listed), table, DiskOf)
read_partitions_disk(proc, table) == Placed(SelectSeq(proc.partitions, Listed), table, DiskOf)

Entries(proc) ==
    FlattenSeq([i \in DOMAIN proc.stat |->
        IF proc.stat[i].key = "disk_io" THEN proc.stat[i].entries ELSE << >>])
read_stat_disk(proc, table) ==
    Placed(Entries(proc), table,
           LAMBDA st, e : [major |-> e.major, minor |-> e.minor, nr_ios |-> e.numbers[1],
                           rd_sect |-> e.numbers[3], wr_sect |-> e.numbers[5]] @@ st)

wrap_read_io(proc, source, st) ==
    CASE source = "diskstats" -> read_diskstats_io(proc, st)
      [] source = "partitions" -> read_ppartitions_io(proc, st)
      [] OTHER -> read_stat_io(proc, st)
wrap_read_disk(proc, source, table) ==
    CASE source = "diskstats" -> read_diskstats_disk(proc, table)
      [] source = "partitions" -> read_partitions_disk(proc, table)
      [] OTHER -> read_stat_disk(proc, table)

-----------------------------------------------------------------------------
(* Serial lines and kernel tables *)

SerialMembers == {"line", "tx", "rx", "frame", "parity", "brk", "overrun"}

\* A line that the kernel does not know has no numbers; of the others only those
\* that are not 0 are written after tx and rx.  Lines count from 1.
KnownLine(l) == "tx" \in DOMAIN l.counts
read_tty_driver_serial(proc, table) ==
    Placed(SelectSeq(proc.serial, KnownLine), table,
           LAMBDA st, l :
              LET Counted(name, old) == IF name \in DOMAIN l.counts THEN l.counts[name] ELSE old
              IN  [line |-> l.line + 1, tx |-> l.counts["tx"], rx |-> Counted("rx", st.rx),
                   frame |-> Counted("fe", st.frame), parity |-> Counted("pe", st.parity),
                   brk |-> Counted("brk", st.brk), overrun |-> Counted("oe", st.overrun)])

\* In use are those allocated less those free.
read_kernel_tables(proc, st) ==
    LET First(file, format, s) == IF file = << >> THEN s ELSE Store(s, file[1], format)
        InUse(file, member, s) ==
            IF file = << >> THEN s
            ELSE [s EXCEPT ![member] = file[1].numbers[1] - file[1].numbers[2]]
    IN  First(proc.pty_nr, <<"pty_nr">>,
          InUse(proc.inode_state, "inode_used",
            InUse(proc.file_nr, "file_used",
              First(proc.dentry_state, <<Skip, "dentry_stat">>, st))))

-----------------------------------------------------------------------------
(* Network *)

NetDevFormat ==
    <<"rx_bytes", "rx_packets", Skip, Skip, Skip, Skip, "rx_compressed", "multicast",
      "tx_bytes", "tx_packets", Skip, Skip, Skip, Skip, Skip, "tx_compressed">>
NetEdevFormat ==
    <<Skip, Skip, "rx_errors", "rx_dropped", "rx_fifo_errors", "rx_frame_errors", Skip, Skip,
      Skip, Skip, "tx_errors", "tx_dropped", "tx_fifo_errors", "collisions",
      "tx_carrier_errors">>

Interface(l) == l.key = "interface"
read_net_dev(proc, table) ==
    Placed(SelectSeq(proc.net_dev, Interface), table,
           LAMBDA st, l : [interface |-> l.name] @@ Store(st, l, NetDevFormat))
read_net_edev(proc, table) ==
    Placed(SelectSeq(proc.net_dev, Interface), table,
           LAMBDA st, l : [interface |-> l.name] @@ Store(st, l, NetEdevFormat))

\* n numbers skipped.
Past(n) == [i \in 1..n |-> Skip]

\* The calls of both versions of the protocol are added.  The counts are kept from
\* line to line: what a line is too short for is what the line before said.
CallMembers == {"getattcnt", "accesscnt", "readcnt", "writecnt"}
Version3 == <<Skip, Skip, "getattcnt", Skip, Skip, "accesscnt", Skip, "readcnt", "writecnt">>
AddCalls(file, formats) ==
    LET Read(s, l) ==
            IF l.key \notin DOMAIN formats THEN s
            ELSE LET cnt == Store(s.cnt, l, formats[l.key])
                 IN  [cnt |-> cnt, sum |-> [m \in CallMembers |-> s.sum[m] + cnt[m]]]
    IN  FoldLeft(Read, [cnt |-> Zeroed(CallMembers), sum |-> Zeroed(CallMembers)], file).sum

read_net_nfs(proc, st) ==
    IF proc.nfs = << >> THEN st
    ELSE AddCalls(proc.nfs,
                  [proc3 |-> Version3,
                   proc4 |-> <<Skip, Skip, "readcnt", "writecnt">> \o Past(14)
                             \o <<"accesscnt", "getattcnt">>])
         @@ Keyed(proc.nfs, Zeroed(DOMAIN st), [rpc |-> <<"rpccnt", "rpcretrans">>])

read_net_nfsd(proc, st) ==
    IF proc.nfsd = << >> THEN st
    ELSE AddCalls(proc.nfsd,
                  [proc3 |-> Version3,
                   proc4ops |-> Past(4) \o <<"accesscnt">> \o Past(5) \o <<"getattcnt">>
                                \o Past(15) \o <<"readcnt">> \o Past(12) \o <<"writecnt">>])
         @@ Keyed(proc.nfsd, Zeroed(DOMAIN st),
                  [rc |-> <<"rchits", "rcmisses">>, net |-> <<"netcnt", "netudpcnt", "nettcpcnt">>,
                   rpc |-> <<"rpccnt", "rpcbad">>])

read_net_sock(proc, st) ==
    Keyed(proc.sockstat, st,
          [sockets |-> <<"sock_inuse">>, TCP |-> <<"tcp_inuse", "tcp_tw">>,
           UDP |-> <<"udp_inuse">>, RAW |-> <<"raw_inuse">>, FRAG |-> <<"frag_inuse">>])

-----------------------------------------------------------------------------
(* The number of items, counted when sadc starts, with some to spare for   *)
(* what is added later.                                                    *)

NR_SERIAL_PREALLOC == 2
NR_IFACE_PREALLOC == 2
NR_DISK_PREALLOC == 3
NR_IRQS == 256

Spare(n, prealloc) == IF n > 0 THEN n + prealloc ELSE 0
Count(file, Is(_)) == Len(SelectSeq(file, Is))
LOCAL Least(a, b) == IF a < b THEN a ELSE b

get_irq_nr(proc) ==
    Sum([i \in DOMAIN proc.stat |->
            IF proc.stat[i].key = "intr" THEN Len(proc.stat[i].numbers) ELSE 0])
wrap_get_irq_nr(proc) == Least(get_irq_nr(proc), NR_IRQS + 1)
get_serial_nr(proc) == Count(proc.serial, KnownLine)
wrap_get_serial_nr(proc) == Spare(get_serial_nr(proc), NR_SERIAL_PREALLOC)
get_iface_nr(proc) == Count(proc.net_dev, Interface)
wrap_get_iface_nr(proc) == Spare(get_iface_nr(proc), NR_IFACE_PREALLOC)

\* A partition has less numbers than a device, in the kernels that make a difference.
CountFormat == <<"rd_ios", Skip, Skip, Skip, "wr_ios">>
get_diskstats_dev_nr(proc, count_part, only_used_dev) ==
    Count(proc.diskstats, LAMBDA l :
        \/ count_part
        \/ /\ Matches(CountFormat, l.numbers)
           /\ only_used_dev =>
                LET x == Scan(CountFormat, l.numbers) IN x.rd_ios # 0 \/ x.wr_ios # 0)
get_ppartitions_dev_nr(proc, count_part) ==
    Count(proc.partitions, LAMBDA l : Len(l.numbers) > 0 /\ (count_part \/ l.whole))
get_disk_io_nr(proc) == Len(Entries(proc))

\* The first file with any devices is the one that is read ever after.
get_disk_nr(proc) ==
    LET d == get_diskstats_dev_nr(proc, FALSE, TRUE)
        p == get_ppartitions_dev_nr(proc, FALSE)
    IN  IF d > 0 THEN [nr |-> d, f |-> "diskstats"]
        ELSE IF p > 0 THEN [nr |-> p, f |-> "partitions"]
        ELSE [nr |-> get_disk_io_nr(proc), f |-> "stat"]
wrap_get_disk_nr(proc) ==
    LET n == get_disk_nr(proc) IN [n EXCEPT !.nr = Spare(n.nr, NR_DISK_PREALLOC)]

\* From /sys if there is one, otherwise one more than the last CPU of /proc/stat;
\* none means that the kernel is not made for several.
get_sys_cpu_nr(proc) == Cardinality(proc.sys_cpu)
get_proc_cpu_nr(proc) ==
    1 + FoldLeft(LAMBDA n, l : IF l.key = "cpu" /\ l.nb > n THEN l.nb ELSE n, -1, proc.stat)
get_cpu_nr(proc) ==
    IF get_sys_cpu_nr(proc) = 0 THEN get_proc_cpu_nr(proc) ELSE get_sys_cpu_nr(proc)
wrap_get_cpu_nr(proc) == get_cpu_nr(proc) + 1

-----------------------------------------------------------------------------
(* Samples *)

Table(nr, members) == [i \in 1..nr |-> Zeroed(members)]
Unnamed(nr, format) == Table(nr, {"interface"} \cup (Range(format) \ {Skip}))

\* What is in memory: a table for each activity with counted items and a
\* structure for each of the others.
Fresh(proc) ==
    [cpu |-> [i \in 1..wrap_get_cpu_nr(proc) |-> NoCpu],
     pcsw |-> Zeroed({"context_switch", "processes"}),
     irq |-> Table(wrap_get_irq_nr(proc), {"irq_nr"}),
     swap |-> Zeroed({"pswpin", "pswpout"}),
     paging |-> Zeroed({"pgpgin", "pgpgout", "pgfault", "pgmajfault", "pgfree", "pgsteal",
                        "pgscan_kswapd", "pgscan_direct"}),
     io |-> Zeroed(Range(IoEntry)),
     memory |-> Zeroed({"tlmkb", "frmkb", "bufkb", "camkb", "caskb", "tlskb", "frskb", "comkb"}),
     ktables |-> Zeroed({"dentry_stat", "file_used", "inode_used", "pty_nr"}),
     queue |-> Zeroed({"load_avg_1", "load_avg_5", "load_avg_15", "nr_running", "nr_threads"}),
     serial |-> Table(wrap_get_serial_nr(proc), SerialMembers),
     disk |-> Table(wrap_get_disk_nr(proc).nr, DiskMembers),
     net_dev |-> Unnamed(wrap_get_iface_nr(proc), NetDevFormat),
     net_edev |-> Unnamed(wrap_get_iface_nr(proc), NetEdevFormat),
     net_nfs |-> Zeroed(CallMembers \cup {"rpccnt", "rpcretrans"}),
     net_nfsd |-> Zeroed(CallMembers \cup {"rchits", "rcmisses", "netcnt", "netudpcnt",
                                           "nettcpcnt", "rpccnt", "rpcbad"}),
     net_sock |-> Zeroed({"sock_inuse", "tcp_inuse", "tcp_tw", "udp_inuse", "raw_inuse",
                          "frag_inuse"})]

sa_sys_init(proc) ==
    [buf |-> Fresh(proc), wiped |-> Fresh(proc), source |-> wrap_get_disk_nr(proc).f,
     uptime |-> 0, uptime0 |-> 0]

\* Mutant of reset_stats: nothing is wiped.
ResetNothing(s) == s

\* All but what is kept of CPUs that are offline (AO_REMANENT).
reset_stats(s) == [s EXCEPT !.buf = [s.wiped EXCEPT !.cpu = s.buf.cpu]]

\* The uptime of one CPU is from /proc/uptime if there are several, from CPU 0 if
\* there is one or /proc/uptime is not there, and the same as the sum if the kernel
\* knows of one only.  uptime0 is 0 before.
read_stats(proc, s) ==
    LET nr == Len(s.buf.cpu)
        b == s.buf
        cpu == read_stat_cpu(proc,
                 [cpu |-> b.cpu, uptime |-> s.uptime,
                  uptime0 |-> IF nr > 2 THEN read_uptime(proc, 0) ELSE 0])
    IN  [s EXCEPT
           !.uptime = cpu.uptime,
           !.uptime0 = IF nr = 1 THEN cpu.uptime ELSE cpu.uptime0,
           !.buf = [cpu |-> cpu.cpu, pcsw |-> read_stat_pcsw(proc, b.pcsw),
                    irq |-> read_stat_irq(proc, b.irq), swap |-> wrap_read_swap(proc, b.swap),
                    paging |-> wrap_read_paging(proc, b.paging),
                    io |-> wrap_read_io(proc, s.source, b.io),
                    memory |-> read_meminfo(proc, b.memory),
                    ktables |-> read_kernel_tables(proc, b.ktables),
                    queue |-> read_loadavg(proc, b.queue),
                    serial |-> read_tty_driver_serial(proc, b.serial),
                    disk |-> wrap_read_disk(proc, s.source, b.disk),
                    net_dev |-> read_net_dev(proc, b.net_dev),
                    net_edev |-> read_net_edev(proc, b.net_edev),
                    net_nfs |-> read_net_nfs(proc, b.net_nfs),
                    net_nfsd |-> read_net_nfsd(proc, b.net_nfsd),
                    net_sock |-> read_net_sock(proc, b.net_sock)]]

Sample(proc, s) == read_stats(proc, reset_stats(s))

-----------------------------------------------------------------------------
(* What a sample must say.  first are the files when sadc starts and takes *)
(* its first sample, second those of the next one.                         *)

Used(proc) ==
    LET Names(file) == {<<l.major, l.minor>> : l \in Range(SelectSeq(file, Listed))}
    IN  Names(proc.diskstats) \cup Names(proc.partitions)
        \cup {<<e.major, e.minor>> : e \in Range(Entries(proc))}
Shown(table) == {<<st.major, st.minor>> : st \in {x \in Range(table) : x.nr_ios # 0}}

\* The structures counted at the start hold every device in use and every CPU of
\* the first sample: the counters look at the lines in another way than the readers.
NothingLost(first, s1) ==
    /\ Shown(s1.buf.disk) = Used(first)
    /\ \A l \in Range(first.stat) : l.key = "cpu" /\ Len(s1.buf.cpu) > 1 =>
          s1.buf.cpu[l.nb + 2] = Store(NoCpu, l, CpuMembers)

\* The second sample is the one a sadc would take that had seen nothing before, but
\* that a CPU that has gone keeps its last counters.
NothingStale(second, s0, s1, s2) ==
    LET anew == Sample(second, s0)
        Gone(i) == i > 1 /\ \A l \in Range(second.stat) : ~(l.key = "cpu" /\ l.nb = i - 2)
    IN  /\ [s2.buf EXCEPT !.cpu = << >>] = [anew.buf EXCEPT !.cpu = << >>]
        /\ \A i \in DOMAIN s2.buf.cpu :
              s2.buf.cpu[i] = IF Gone(i) THEN s1.buf.cpu[i] ELSE anew.buf.cpu[i]

\* Two readers of the same lines, with formats of their own, add up: the transfers
\* of all disks are the sum of those of each, if there is a structure for each.  (A
\* sadc that finds no device in use when it starts reads /proc/stat ever after,
\* where the kernels that have /proc/diskstats say nothing: there are none then.)
DisksAddUp(s) ==
    LET All(Of(_)) == Unsigned(Sum([i \in DOMAIN s.buf.disk |-> Of(s.buf.disk[i])]))
    IN  /\ All(LAMBDA st : st.nr_ios) = s.buf.io.dk_drive
        /\ All(LAMBDA st : st.rd_sect) = s.buf.io.dk_drive_rblk
        /\ All(LAMBDA st : st.wr_sect) = s.buf.io.dk_drive_wblk
        /\ Unsigned(s.buf.io.dk_drive_rio + s.buf.io.dk_drive_wio) = s.buf.io.dk_drive

\* Two readers of the same line leave nothing of it out: together they have every
\* number under the heading that /proc/net/dev gives it.
NetDevHeadings ==
    <<"rx_bytes", "rx_packets", "rx_errors", "rx_dropped", "rx_fifo_errors", "rx_frame_errors",
      "rx_compressed", "multicast", "tx_bytes", "tx_packets", "tx_errors", "tx_dropped",
      "tx_fifo_errors", "collisions", "tx_carrier_errors", "tx_compressed">>
InterfacesWhole(proc, s) ==
    LET lines == SelectSeq(proc.net_dev, Interface)
    IN  \A i \in DOMAIN lines : i <= Len(s.buf.net_dev) =>
            s.buf.net_dev[i] @@ s.buf.net_edev[i]
              = [interface |-> lines[i].name] @@ Scan(NetDevHeadings, lines[i].numbers)

\* The calls by the numbers the protocols give them; a line starts with the number
\* of calls there are.
CallsByNumber(file, numbers) ==
    [m \in CallMembers |->
        FoldLeft(LAMBDA n, l : IF l.key \in DOMAIN numbers
                               THEN n + l.numbers[numbers[l.key][m] + 2] ELSE n, 0, file)]
CallsCounted(proc, s) ==
    LET v3 == [getattcnt |-> 1, accesscnt |-> 4, readcnt |-> 6, writecnt |-> 7]
        Calls(st) == [m \in CallMembers |-> st[m]]
    IN  /\ Calls(s.buf.net_nfs) =
             CallsByNumber(proc.nfs,
               [proc3 |-> v3,
                proc4 |-> [readcnt |-> 1, writecnt |-> 2, accesscnt |-> 17, getattcnt |-> 18]])
        /\ Calls(s.buf.net_nfsd) =
             CallsByNumber(proc.nfsd,
               [proc3 |-> v3,
                proc4ops |-> [accesscnt |-> 3, getattcnt |-> 9, readcnt |-> 25, writecnt |-> 38]])

\* The uptime that intervals are taken from is always filled, as sadc.c says.
UptimeKnown(s) == s.uptime # 0 /\ s.uptime0 # 0

\* s0 is the sadc that has just started, s1 and s2 the same with its first two samples.
SampleFaithful(first, second, s0, s1, s2) ==
    /\ NothingLost(first, s1)
    /\ NothingStale(second, s0, s1, s2)
    /\ s1.buf.disk # << >> => DisksAddUp(s1)
    /\ s2.buf.disk # << >> /\ Cardinality(Used(second)) <= Len(s2.buf.disk) => DisksAddUp(s2)
    /\ InterfacesWhole(second, s2)
    /\ CallsCounted(second, s2)
    /\ UptimeKnown(s1) /\ UptimeKnown(s2)
=============================================================================
