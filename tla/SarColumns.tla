----------------------------- MODULE SarColumns -----------------------------
(***************************************************************************)
(* What a sample says in each of the formats of sysstat: the tables of     *)
(* sar and their averages (pr_stats.c), and the lines for programs, the    *)
(* lines for databases with their list of fields, and the XML of sadf      *)
(* (prf_stats.c).  Every activity is written down five times in the code,  *)
(* with its columns in their order: here it is the same five definitions.  *)
(*                                                                         *)
(* A value is not a number but the formula that is shown, with the rows of *)
(* the current sample and of the one before it that it is taken from.  A   *)
(* label is written without its unit, except where it would be lost        *)
(* against another one of its table (memused and %memused).                *)
(***************************************************************************)
EXTENDS Integers, Sequences, FiniteSets, SequencesExt

-----------------------------------------------------------------------------
(* Formulas *)

Rate(m) == <<"S_VALUE", m>>          \* per second, from two unsigned long
Rate64(m) == <<"ll_s_value", m>>     \* per second, from 64-bit counters
PageRate(m) == <<"in pages", m>>     \* S_VALUE of KB_TO_PG
Gain(ms) == <<"gain", ms>>           \* the difference of a sum of members
Now(m) == <<"now", m>>               \* the member of the current sample
Mean(m) == <<"mean", m>>             \* its sum in asum by the number of lines
Zero == <<"zero">>
Unknown == <<"N/A">>
Over(f, n) == <<"over", f, n>>
Less(f, g) == <<"less", f, g>>
And(f, g) == <<"and", f, g>>

\* SP_VALUE(from, to, whole), and 0 if whole is 0.
Share(from, to, whole) == <<"share", from, to, whole>>

\* ll_sp_value of the sum of some members less another; of none if the counter
\* went back.
Percent(plus, minus, itv) == <<"ll_sp_value", plus, minus, itv>>
PercentOrZero(m, itv) == <<"or zero", m, itv>>

\* The extended statistics of a disk (compute_ext_disk_stats).
Extended(m) == <<"xds", m>>

-----------------------------------------------------------------------------
(* Rows and columns.  An activity a in use is its entry of act[] with the  *)
(* number nr of its items, its opt_flags, and the bitmap of the items to   *)
(* show.  For activities with named items curr and prev are the names, 0   *)
(* for an item that is not in use.  A row stands for row i of the current  *)
(* sample against row j of the one before it.                              *)

None == -2
All == -1                  \* CPU "all", interrupt "sum"

Row(key, i, j) == [key |-> key, i |-> i, j |-> j]
One == <<Row(None, 1, 1)>>
Value(f, r) == [f |-> f, i |-> r.i, j |-> r.j]

\* Items of the bitmap: the number of a CPU or interrupt is one below its index,
\* and index 0 is all of them.
BitmapRows(a) ==
    LET shown == SelectSeq([i \in 1..a.nr |-> i],
                           LAMBDA i : i <= a.bitmap_size + 1 /\ i \in a.bitmap)
    IN  [k \in DOMAIN shown |-> Row(shown[k] - 2, shown[k], shown[k])]

\* Named items in use, each against the row that check_net_dev_reg,
\* check_net_edev_reg or check_disk_reg finds for it.
Registered == 0
NamedRows(a) ==
    LET used == SelectSeq([i \in 1..a.nr |-> i], LAMBDA i : a.curr[i] # 0)
    IN  [k \in DOMAIN used |-> Row(a.curr[used[k]], used[k], Registered)]

\* Serial lines in use, against the same row.
LineRows(a) ==
    LET used == SelectSeq([i \in 1..a.nr |-> i], LAMBDA i : a.curr[i] # 0)
    IN  [k \in DOMAIN used |-> Row(a.curr[used[k]] - 1, used[k], used[k])]
SameLine(a, r) == a.curr[r.i] = a.prev[r.j]

\* A table of sar: its header and its lines; sums are the members added up for
\* the averages on the way.
Table(head, lines) == [head |-> head, lines |-> lines, sums |-> {}]
Summed(head, lines, sums) == [head |-> head, lines |-> lines, sums |-> sums]
Lines(rows, Formulas(_)) ==
    [k \in DOMAIN rows |->
        [key |-> rows[k].key,
         values |-> LET fs == Formulas(rows[k])
                    IN  [c \in DOMAIN fs |-> Value(fs[c], rows[k])]]]
Plain(fs) == Lines(One, LAMBDA r : fs)

\* One call of render(): the key is in the text for programs, and in the one for
\* databases only if dbkey is set; the last call of a row ends the line.
Call(r, dbkey, column, last) ==
    [key |-> r.key, dbkey |-> dbkey, label |-> column[1], value |-> Value(column[2], r),
     newline |-> last]

\* The calls of a row whose key is given to databases with the first column...
RowCalls(r, columns) ==
    [c \in DOMAIN columns |->
        Call(r, c = 1 /\ r.key # None, columns[c], c = Len(columns))]
\* ... or with every column.
KeyedCalls(r, columns) ==
    [c \in DOMAIN columns |-> Call(r, TRUE, columns[c], c = Len(columns))]
Calls(rows, Columns(_)) ==
    FlattenSeq([k \in DOMAIN rows |-> RowCalls(rows[k], Columns(rows[k]))])

\* XML: an element that contains others, or one with a key and columns.
Open(name) == [tag |-> "open", name |-> name]
Close(name) == [tag |-> "close", name |-> name]
Leaf(r, name, columns) ==
    [tag |-> "leaf", name |-> name, key |-> r.key,
     columns |-> [c \in DOMAIN columns |-> <<columns[c][1], Value(columns[c][2], r)>>]]
Leaves(rows, name, Columns(_)) ==
    [k \in DOMAIN rows |-> Leaf(rows[k], name, Columns(rows[k]))]
Element(name, inside) == <<Open(name)>> \o inside \o <<Close(name)>>

-----------------------------------------------------------------------------
(* CPUs: the interval of CPU "all" is that of the sample; that of another  *)
(* is its own, and 0 if it is offline.                                     *)

CPU_DEF == 1
CPU_ALL == 2
Offline(a, r) == r.i # 1 /\ r.i \in a.offline
Interval(r) == IF r.i = 1 THEN "g_itv" ELSE "own"

cpu_act == [id |-> "cpu", options |-> {"REMANENT", "GLOBAL_ITV", "MULTIPLE_OUTPUTS"},
    bitmap_size |-> 2,
    hdr_line |-> <<<<"CPU", "user", "nice", "system", "iowait", "steal", "idle">>,
                   <<"CPU", "usr", "nice", "sys", "iowait", "steal", "irq", "soft", "guest",
                     "idle">>>>]

print_cpu_stats(a) ==
    LET Formulas(r) ==
            LET P(plus, minus) == Percent(plus, minus, Interval(r))
            IN  IF CPU_DEF \in a.opt_flags
                THEN IF Offline(a, r) THEN [c \in 1..6 |-> Zero]
                     ELSE <<P({"cpu_user"}, {}), P({"cpu_nice"}, {}),
                            P({"cpu_sys", "cpu_hardirq", "cpu_softirq"}, {}),
                            P({"cpu_iowait"}, {}), P({"cpu_steal"}, {}),
                            PercentOrZero("cpu_idle", Interval(r))>>
                ELSE IF Offline(a, r) THEN [c \in 1..9 |-> Zero]
                     ELSE <<P({"cpu_user"}, {"cpu_guest"}), P({"cpu_nice"}, {}),
                            P({"cpu_sys"}, {}), P({"cpu_iowait"}, {}), P({"cpu_steal"}, {}),
                            P({"cpu_hardirq"}, {}), P({"cpu_softirq"}, {}),
                            P({"cpu_guest"}, {}), PercentOrZero("cpu_idle", Interval(r))>>
    IN  <<Table(IF CPU_DEF \in a.opt_flags
                THEN <<"CPU", "user", "nice", "system", "iowait", "steal", "idle">>
                ELSE <<"CPU", "usr", "nice", "sys", "iowait", "steal", "irq", "soft", "guest",
                       "idle">>,
                Lines(BitmapRows(a), Formulas))>>

render_cpu_stats(a) ==
    LET def == CPU_DEF \in a.opt_flags
        Columns(r) ==
            LET P(plus, minus) ==
                    IF Offline(a, r) THEN Zero ELSE Percent(plus, minus, Interval(r))
                idle == IF Offline(a, r) THEN Zero ELSE PercentOrZero("cpu_idle", Interval(r))
            IN  (IF def THEN << <<"user", P({"cpu_user"}, {})>> >>
                 ELSE << <<"usr", P({"cpu_user"}, {"cpu_guest"})>> >>)
                \o << <<"nice", P({"cpu_nice"}, {})>> >>
                \o (IF def
                    THEN << <<"system", P({"cpu_sys", "cpu_hardirq", "cpu_softirq"}, {})>> >>
                    ELSE << <<"sys", P({"cpu_sys"}, {})>> >>)
                \o << <<"iowait", P({"cpu_iowait"}, {})>>, <<"steal", P({"cpu_steal"}, {})>> >>
                \o (IF def THEN << >>
                    ELSE << <<"irq", P({"cpu_hardirq"}, {})>>, <<"soft", P({"cpu_softirq"}, {})>>,
                            <<"guest", P({"cpu_guest"}, {})>> >>)
                \o << <<"idle", idle>> >>
    IN  Calls(BitmapRows(a), Columns)

xml_print_cpu_stats(a) ==
    LET P(plus, minus, r) == Percent(plus, minus, Interval(r))
        Load(r) ==
            IF Offline(a, r)
            THEN << <<"user", Zero>>, <<"nice", Zero>>, <<"system", Zero>>, <<"iowait", Zero>>,
                    <<"steal", Zero>>, <<"idle", Zero>> >>
            ELSE << <<"user", P({"cpu_user"}, {}, r)>>, <<"nice", P({"cpu_nice"}, {}, r)>>,
                    <<"system", P({"cpu_sys", "cpu_hardirq", "cpu_softirq"}, {}, r)>>,
                    <<"iowait", P({"cpu_iowait"}, {}, r)>>,
                    <<"steal", P({"cpu_steal"}, {}, r)>>,
                    <<"idle", PercentOrZero("cpu_idle", Interval(r))>> >>
        LoadAll(r) ==
            IF Offline(a, r)
            THEN << <<"usr", Zero>>, <<"nice", Zero>>, <<"sys", Zero>>, <<"iowait", Zero>>,
                    <<"steal", Zero>>, <<"irq", Zero>>, <<"soft", Zero>>, <<"guest", Zero>>,
                    <<"idle", Zero>> >>
            ELSE << <<"usr", P({"cpu_user"}, {"cpu_guest"}, r)>>,
                    <<"nice", P({"cpu_nice"}, {}, r)>>, <<"sys", P({"cpu_sys"}, {}, r)>>,
                    <<"iowait", P({"cpu_iowait"}, {}, r)>>,
                    <<"steal", P({"cpu_steal"}, {}, r)>>,
                    <<"irq", P({"cpu_hardirq"}, {}, r)>>,
                    <<"soft", P({"cpu_softirq"}, {}, r)>>,
                    <<"guest", P({"cpu_guest"}, {}, r)>>,
                    <<"idle", PercentOrZero("cpu_idle", Interval(r))>> >>
    IN  IF CPU_DEF \in a.opt_flags
        THEN Element("cpu-load", Leaves(BitmapRows(a), "cpu", Load))
        ELSE Element("cpu-load-all", Leaves(BitmapRows(a), "cpu", LoadAll))

-----------------------------------------------------------------------------
(* Tasks and context switches *)

pcsw_act == [id |-> "pcsw", options |-> {}, hdr_line |-> << <<"proc", "cswch">> >>]

print_pcsw_stats(a) ==
    <<Table(<<"proc", "cswch">>, Plain(<<Rate("processes"), Rate64("context_switch")>>))>>

render_pcsw_stats(a) ==
    Calls(One, LAMBDA r : << <<"proc", Rate("processes")>>,
                             <<"cswch", Rate64("context_switch")>> >>)

xml_print_pcsw_stats(a) ==
    Leaves(One, "process-and-context-switch",
           LAMBDA r : << <<"proc", Rate("processes")>>, <<"cswch", Rate64("context_switch")>> >>)

-----------------------------------------------------------------------------
(* Interrupts.  XML calls the column "value": it is written intr here. *)

irq_act == [id |-> "irq", options |-> {}, bitmap_size |-> 2, hdr_line |-> << <<"INTR", "intr">> >>]

print_irq_stats(a) ==
    <<Table(<<"INTR", "intr">>, Lines(BitmapRows(a), LAMBDA r : <<Rate64("irq_nr")>>))>>

render_irq_stats(a) == Calls(BitmapRows(a), LAMBDA r : << <<"intr", Rate64("irq_nr")>> >>)

xml_print_irq_stats(a) ==
    Element("interrupts", Element("int-global",
        Leaves(BitmapRows(a), "irq", LAMBDA r : << <<"intr", Rate64("irq_nr")>> >>)))

-----------------------------------------------------------------------------
(* Swapping *)

swap_act == [id |-> "swap", options |-> {}, hdr_line |-> << <<"pswpin", "pswpout">> >>]

print_swap_stats(a) ==
    <<Table(<<"pswpin", "pswpout">>, Plain(<<Rate("pswpin"), Rate("pswpout")>>))>>

render_swap_stats(a) ==
    Calls(One, LAMBDA r : << <<"pswpin", Rate("pswpin")>>, <<"pswpout", Rate("pswpout")>> >>)

xml_print_swap_stats(a) ==
    Leaves(One, "swap-pages",
           LAMBDA r : << <<"pswpin", Rate("pswpin")>>, <<"pswpout", Rate("pswpout")>> >>)

-----------------------------------------------------------------------------
(* Paging *)

\* Pages stolen between the samples, by pages scanned.
Efficiency == Share(Zero, Gain({"pgsteal"}), Gain({"pgscan_kswapd", "pgscan_direct"}))

paging_act == [id |-> "paging", options |-> {},
    hdr_line |-> << <<"pgpgin", "pgpgout", "fault", "majflt", "pgfree", "pgscank", "pgscand",
                      "pgsteal", "vmeff">> >>]

print_paging_stats(a) ==
    <<Table(<<"pgpgin", "pgpgout", "fault", "majflt", "pgfree", "pgscank", "pgscand", "pgsteal",
              "vmeff">>,
            Plain(<<Rate("pgpgin"), Rate("pgpgout"), Rate("pgfault"), Rate("pgmajfault"),
                    Rate("pgfree"), Rate("pgscan_kswapd"), Rate("pgscan_direct"),
                    Rate("pgsteal"), Efficiency>>))>>

render_paging_stats(a) ==
    Calls(One, LAMBDA r :
        << <<"pgpgin", Rate("pgpgin")>>, <<"pgpgout", Rate("pgpgout")>>,
           <<"fault", Rate("pgfault")>>, <<"majflt", Rate("pgmajfault")>>,
           <<"pgfree", Rate("pgfree")>>, <<"pgscank", Rate("pgscan_kswapd")>>,
           <<"pgscand", Rate("pgscan_direct")>>, <<"pgsteal", Rate("pgsteal")>>,
           <<"vmeff", Efficiency>> >>)

xml_print_paging_stats(a) ==
    Leaves(One, "paging", LAMBDA r :
        << <<"pgpgin", Rate("pgpgin")>>, <<"pgpgout", Rate("pgpgout")>>,
           <<"fault", Rate("pgfault")>>, <<"majflt", Rate("pgmajfault")>>,
           <<"pgfree", Rate("pgfree")>>, <<"pgscank", Rate("pgscan_kswapd")>>,
           <<"pgscand", Rate("pgscan_direct")>>, <<"pgsteal", Rate("pgsteal")>>,
           <<"vmeff", Efficiency>> >>)

-----------------------------------------------------------------------------
(* Transfers *)

io_act == [id |-> "io", options |-> {}, hdr_line |-> << <<"tps", "rtps", "wtps", "bread", "bwrtn">> >>]

print_io_stats(a) ==
    <<Table(<<"tps", "rtps", "wtps", "bread", "bwrtn">>,
            Plain(<<Rate("dk_drive"), Rate("dk_drive_rio"), Rate("dk_drive_wio"),
                    Rate("dk_drive_rblk"), Rate("dk_drive_wblk")>>))>>

render_io_stats(a) ==
    Calls(One, LAMBDA r :
        << <<"tps", Rate("dk_drive")>>, <<"rtps", Rate("dk_drive_rio")>>,
           <<"wtps", Rate("dk_drive_wio")>>, <<"bread", Rate("dk_drive_rblk")>>,
           <<"bwrtn", Rate("dk_drive_wblk")>> >>)

xml_print_io_stats(a) ==
    Element("io",
        Leaves(One, "tps", LAMBDA r : << <<"tps", Rate("dk_drive")>> >>)
        \o Leaves(One, "io-reads", LAMBDA r : << <<"rtps", Rate("dk_drive_rio")>>,
                                                 <<"bread", Rate("dk_drive_rblk")>> >>)
        \o Leaves(One, "io-writes", LAMBDA r : << <<"wtps", Rate("dk_drive_wio")>>,
                                                  <<"bwrtn", Rate("dk_drive_wblk")>> >>))

-----------------------------------------------------------------------------
(* Memory: three tables, each with a flag of its own. *)

MEM_DIA == 1
MEM_AMT == 2
MEM_SWAP == 4

memory_act == [id |-> "memory", options |-> {"MULTIPLE_OUTPUTS"},
    hdr_line |-> << <<"frmpg", "bufpg", "campg">>,
                    <<"memfree", "memused", "%memused", "buffers", "cached", "commit", "%commit">>,
                    <<"swpfree", "swpused", "%swpused", "swpcad", "%swpcad">> >>]

\* A table for each flag; the averages of the second take the size of the memory
\* and of the swap space as they are in the last sample.
stub_print_memory_stats(a, dispavg) ==
    LET tlmkb == Now("tlmkb")
        tlskb == Now("tlskb")
        Pages == Table(<<"frmpg", "bufpg", "campg">>,
                       Plain(<<PageRate("frmkb"), PageRate("bufkb"), PageRate("camkb")>>))
        Amounts ==
            IF ~dispavg
            THEN Summed(<<"memfree", "memused", "%memused", "buffers", "cached", "commit",
                          "%commit">>,
                        Plain(<<Now("frmkb"), Less(tlmkb, Now("frmkb")),
                                Share(Now("frmkb"), tlmkb, tlmkb), Now("bufkb"), Now("camkb"),
                                Now("comkb"), Share(Zero, Now("comkb"), And(tlmkb, tlskb))>>),
                        {"frmkb", "bufkb", "camkb", "comkb"})
            ELSE Table(<<"memfree", "memused", "%memused", "buffers", "cached", "commit",
                         "%commit">>,
                       Plain(<<Mean("frmkb"), Less(tlmkb, Mean("frmkb")),
                               Share(Mean("frmkb"), tlmkb, tlmkb), Mean("bufkb"), Mean("camkb"),
                               Mean("comkb"), Share(Zero, Mean("comkb"), And(tlmkb, tlskb))>>))
        Swap ==
            IF ~dispavg
            THEN Summed(<<"swpfree", "swpused", "%swpused", "swpcad", "%swpcad">>,
                        Plain(<<Now("frskb"), Less(tlskb, Now("frskb")),
                                Share(Now("frskb"), tlskb, tlskb), Now("caskb"),
                                Share(Zero, Now("caskb"), Less(tlskb, Now("frskb")))>>),
                        {"frskb", "tlskb", "caskb"})
            ELSE Table(<<"swpfree", "swpused", "%swpused", "swpcad", "%swpcad">>,
                       Plain(<<Mean("frskb"), Less(Mean("tlskb"), Mean("frskb")),
                               Share(Mean("frskb"), Mean("tlskb"), Mean("tlskb")), Mean("caskb"),
                               Share(Zero, Mean("caskb"), Less(Mean("tlskb"), Mean("frskb")))>>))
    IN  (IF MEM_DIA \in a.opt_flags THEN <<Pages>> ELSE << >>)
        \o (IF MEM_AMT \in a.opt_flags THEN <<Amounts>> ELSE << >>)
        \o (IF MEM_SWAP \in a.opt_flags THEN <<Swap>> ELSE << >>)

print_memory_stats(a) == stub_print_memory_stats(a, FALSE)
print_avg_memory_stats(a) == stub_print_memory_stats(a, TRUE)

render_memory_stats(a) ==
    LET tlmkb == Now("tlmkb")
        tlskb == Now("tlskb")
    IN  (IF MEM_DIA \notin a.opt_flags THEN << >>
         ELSE Calls(One, LAMBDA r :
                << <<"frmpg", PageRate("frmkb")>>, <<"bufpg", PageRate("bufkb")>>,
                   <<"campg", PageRate("camkb")>> >>))
        \o (IF MEM_AMT \notin a.opt_flags THEN << >>
            ELSE Calls(One, LAMBDA r :
                << <<"memfree", Now("frmkb")>>, <<"memused", Less(tlmkb, Now("frmkb"))>>,
                   <<"%memused", Share(Now("frmkb"), tlmkb, tlmkb)>>,
                   <<"buffers", Now("bufkb")>>, <<"cached", Now("camkb")>>,
                   <<"commit", Now("comkb")>>,
                   <<"%commit", Share(Zero, Now("comkb"), And(tlmkb, tlskb))>> >>))
        \o (IF MEM_SWAP \notin a.opt_flags THEN << >>
            ELSE Calls(One, LAMBDA r :
                << <<"swpfree", Now("frskb")>>, <<"swpused", Less(tlskb, Now("frskb"))>>,
                   <<"%swpused", Share(Now("frskb"), tlskb, tlskb)>>,
                   <<"swpcad", Now("caskb")>>,
                   <<"%swpcad", Share(Zero, Now("caskb"), Less(tlskb, Now("frskb")))>> >>))

xml_print_memory_stats(a) ==
    LET tlmkb == Now("tlmkb")
        tlskb == Now("tlskb")
        Leaf1(name, f) == Leaf(One[1], name, << <<name, f>> >>)
    IN  Element("memory",
            (IF MEM_AMT \notin a.opt_flags THEN << >>
             ELSE <<Leaf1("memfree", Now("frmkb")), Leaf1("memused", Less(tlmkb, Now("frmkb"))),
                    Leaf1("%memused", Share(Now("frmkb"), tlmkb, tlmkb)),
                    Leaf1("buffers", Now("bufkb")), Leaf1("cached", Now("camkb")),
                    Leaf1("commit", Now("comkb")),
                    Leaf1("%commit", Share(Zero, Now("comkb"), And(tlmkb, tlskb)))>>)
            \o (IF MEM_SWAP \notin a.opt_flags THEN << >>
                ELSE <<Leaf1("swpfree", Now("frskb")),
                       Leaf1("swpused", Less(tlskb, Now("frskb"))),
                       Leaf1("%swpused", Share(Now("frskb"), tlskb, tlskb)),
                       Leaf1("swpcad", Now("caskb")),
                       Leaf1("%swpcad", Share(Zero, Now("caskb"), Less(tlskb, Now("frskb"))))>>)
            \o (IF MEM_DIA \notin a.opt_flags THEN << >>
                ELSE <<Leaf1("frmpg", PageRate("frmkb")), Leaf1("bufpg", PageRate("bufkb")),
                       Leaf1("campg", PageRate("camkb"))>>))

-----------------------------------------------------------------------------
(* Kernel tables *)

ktables_act == [id |-> "ktables", options |-> {},
    hdr_line |-> << <<"dentunusd", "file-nr", "inode-nr", "pty-nr">> >>]

stub_print_ktables_stats(a, dispavg) ==
    LET head == <<"dentunusd", "file-nr", "inode-nr", "pty-nr">>
    IN  IF ~dispavg
        THEN <<Summed(head,
                      Plain(<<Now("dentry_stat"), Now("file_used"), Now("inode_used"),
                              Now("pty_nr")>>),
                      {"dentry_stat", "file_used", "inode_used", "pty_nr"})>>
        ELSE <<Table(head, Plain(<<Mean("dentry_stat"), Mean("file_used"), Mean("inode_used"),
                                   Mean("pty_nr")>>))>>

print_ktables_stats(a) == stub_print_ktables_stats(a, FALSE)
print_avg_ktables_stats(a) == stub_print_ktables_stats(a, TRUE)

render_ktables_stats(a) ==
    Calls(One, LAMBDA r :
        << <<"dentunusd", Now("dentry_stat")>>, <<"file-nr", Now("file_used")>>,
           <<"inode-nr", Now("inode_used")>>, <<"pty-nr", Now("pty_nr")>> >>)

xml_print_ktables_stats(a) ==
    Element("kernel",
        <<Leaf(One[1], "dentunusd", << <<"dentunusd", Now("dentry_stat")>> >>),
          Leaf(One[1], "file-nr", << <<"file-nr", Now("file_used")>> >>),
          Leaf(One[1], "inode-nr", << <<"inode-nr", Now("inode_used")>> >>),
          Leaf(One[1], "pty-nr", << <<"pty-nr", Now("pty_nr")>> >>)>>)

-----------------------------------------------------------------------------
(* Run queue and load.  The load is kept in hundredths. *)

queue_act == [id |-> "queue", options |-> {},
    hdr_line |-> << <<"runq-sz", "plist-sz", "ldavg-1", "ldavg-5", "ldavg-15">> >>]

stub_print_queue_stats(a, dispavg) ==
    LET head == <<"runq-sz", "plist-sz", "ldavg-1", "ldavg-5", "ldavg-15">>
    IN  IF ~dispavg
        THEN <<Summed(head,
                      Plain(<<Now("nr_running"), Now("nr_threads"), Over(Now("load_avg_1"), 100),
                              Over(Now("load_avg_5"), 100), Over(Now("load_avg_15"), 100)>>),
                      {"nr_running", "nr_threads", "load_avg_1", "load_avg_5", "load_avg_15"})>>
        ELSE <<Table(head,
                     Plain(<<Mean("nr_running"), Mean("nr_threads"),
                             Over(Mean("load_avg_1"), 100), Over(Mean("load_avg_5"), 100),
                             Over(Mean("load_avg_15"), 100)>>))>>

print_queue_stats(a) == stub_print_queue_stats(a, FALSE)
print_avg_queue_stats(a) == stub_print_queue_stats(a, TRUE)

render_queue_stats(a) ==
    Calls(One, LAMBDA r :
        << <<"runq-sz", Now("nr_running")>>, <<"plist-sz", Now("nr_threads")>>,
           <<"ldavg-1", Over(Now("load_avg_1"), 100)>>,
           <<"ldavg-5", Over(Now("load_avg_5"), 100)>>,
           <<"ldavg-15", Over(Now("load_avg_15"), 100)>> >>)

xml_print_queue_stats(a) ==
    Leaves(One, "queue", LAMBDA r :
        << <<"runq-sz", Now("nr_running")>>, <<"plist-sz", Now("nr_threads")>>,
           <<"ldavg-1", Over(Now("load_avg_1"), 100)>>,
           <<"ldavg-5", Over(Now("load_avg_5"), 100)>>,
           <<"ldavg-15", Over(Now("load_avg_15"), 100)>> >>)

-----------------------------------------------------------------------------
(* Serial lines: a line that is another one in the sample before has no    *)
(* rates - sar says so, unless it shows what has been since boot, and sadf *)
(* leaves it out.                                                          *)

serial_act == [id |-> "serial", options |-> {},
    hdr_line |-> << <<"TTY", "rcvin", "txmtin", "framerr", "prtyerr", "brk", "ovrun">> >>]

print_serial_stats(a) ==
    <<Table(<<"TTY", "rcvin", "xmtin", "framerr", "prtyerr", "brk", "ovrun">>,
            Lines(LineRows(a), LAMBDA r :
                IF SameLine(a, r) \/ a.since_boot
                THEN <<Rate("rx"), Rate("tx"), Rate("frame"), Rate("parity"), Rate("brk"),
                       Rate("overrun")>>
                ELSE [c \in 1..6 |-> Unknown]))>>

render_serial_stats(a) ==
    LET rows == SelectSeq(LineRows(a), LAMBDA r : SameLine(a, r))
    IN  FlattenSeq([k \in DOMAIN rows |-> KeyedCalls(rows[k],
            << <<"rcvin", Rate("rx")>>, <<"xmtin", Rate("tx")>>, <<"framerr", Rate("frame")>>,
               <<"prtyerr", Rate("parity")>>, <<"brk", Rate("brk")>>,
               <<"ovrun", Rate("overrun")>> >>)])

xml_print_serial_stats(a) ==
    Element("serial",
        Leaves(SelectSeq(LineRows(a), LAMBDA r : SameLine(a, r)), "tty", LAMBDA r :
            << <<"rcvin", Rate("rx")>>, <<"xmtin", Rate("tx")>>, <<"framerr", Rate("frame")>>,
               <<"prtyerr", Rate("parity")>>, <<"brk", Rate("brk")>>,
               <<"ovrun", Rate("overrun")>> >>))

-----------------------------------------------------------------------------
(* Block devices *)

disk_act == [id |-> "disk", options |-> {},
    hdr_line |-> << <<"DEV", "tps", "rd_sec", "wr_sec", "avgrq-sz", "avgqu-sz", "await",
                    "svctm", "util">> >>]

print_disk_stats(a) ==
    <<Table(<<"DEV", "tps", "rd_sec", "wr_sec", "avgrq-sz", "avgqu-sz", "await", "svctm",
              "util">>,
            Lines(NamedRows(a), LAMBDA r :
                <<Rate("nr_ios"), Rate64("rd_sect"), Rate64("wr_sect"), Extended("arqsz"),
                  Over(Rate("rq_ticks"), 1000), Extended("await"), Extended("svctm"),
                  Over(Extended("util"), 10)>>))>>

render_disk_stats(a) ==
    Calls(NamedRows(a), LAMBDA r :
        << <<"tps", Rate("nr_ios")>>, <<"rd_sec", Rate64("rd_sect")>>,
           <<"wr_sec", Rate64("wr_sect")>>, <<"avgrq-sz", Extended("arqsz")>>,
           <<"avgqu-sz", Over(Rate("rq_ticks"), 1000)>>, <<"await", Extended("await")>>,
           <<"svctm", Extended("svctm")>>, <<"util", Over(Extended("util"), 10)>> >>)

xml_print_disk_stats(a) ==
    Element("disk", Leaves(NamedRows(a), "disk-device", LAMBDA r :
        << <<"tps", Rate("nr_ios")>>, <<"rd_sec", Rate64("rd_sect")>>,
           <<"wr_sec", Rate64("wr_sect")>>, <<"avgrq-sz", Extended("arqsz")>>,
           <<"avgqu-sz", Over(Rate("rq_ticks"), 1000)>>, <<"await", Extended("await")>>,
           <<"svctm", Extended("svctm")>>, <<"util", Over(Extended("util"), 10)>> >>))

-----------------------------------------------------------------------------
(* The network: five activities, which in XML share one element.  The      *)
(* first of them to show something opens it, and the last one, which is    *)
(* called also when it is not selected, closes it if it is open.  markup   *)
(* tells whether it is; the result is the tags and what markup is then.    *)

xml_markup_network(markup, action) ==
    [tags |-> IF action = markup THEN << >>
              ELSE IF action = "open" THEN <<Open("network")>> ELSE <<Close("network")>>,
     markup |-> action]

CLOSE_MARKUP(a) == "CLOSE_MARKUP" \in a.options
IS_SELECTED(a) == "SELECTED" \in a.options

Network(a, markup, leaves) ==
    LET shown == IS_SELECTED(a) /\ a.nr > 0
        opened == IF shown THEN xml_markup_network(markup, "open")
                  ELSE [tags |-> << >>, markup |-> markup]
        closed == IF CLOSE_MARKUP(a) THEN xml_markup_network(opened.markup, "close")
                  ELSE [tags |-> << >>, markup |-> opened.markup]
    IN  [tags |-> opened.tags \o (IF shown THEN leaves ELSE << >>) \o closed.tags,
         markup |-> closed.markup]

-----------------------------------------------------------------------------
(* Interfaces *)

net_dev_act == [id |-> "net_dev", options |-> {},
    hdr_line |-> << <<"IFACE", "rxpck", "txpck", "rxkB", "txkB", "rxcmp", "txcmp", "rxmcst">> >>]

print_net_dev_stats(a) ==
    <<Table(<<"IFACE", "rxpck", "txpck", "rxkB", "txkB", "rxcmp", "txcmp", "rxmcst">>,
            Lines(NamedRows(a), LAMBDA r :
                <<Rate("rx_packets"), Rate("tx_packets"), Over(Rate("rx_bytes"), 1024),
                  Over(Rate("tx_bytes"), 1024), Rate("rx_compressed"),
                  Rate("tx_compressed"), Rate("multicast")>>))>>

render_net_dev_stats(a) ==
    Calls(NamedRows(a), LAMBDA r :
        << <<"rxpck", Rate("rx_packets")>>, <<"txpck", Rate("tx_packets")>>,
           <<"rxkB", Over(Rate("rx_bytes"), 1024)>>,
           <<"txkB", Over(Rate("tx_bytes"), 1024)>>, <<"rxcmp", Rate("rx_compressed")>>,
           <<"txcmp", Rate("tx_compressed")>>, <<"rxmcst", Rate("multicast")>> >>)

xml_print_net_dev_stats(a, markup) ==
    Network(a, markup, Leaves(NamedRows(a), "net-dev", LAMBDA r :
        << <<"rxpck", Rate("rx_packets")>>, <<"txpck", Rate("tx_packets")>>,
           <<"rxkB", Over(Rate("rx_bytes"), 1024)>>,
           <<"txkB", Over(Rate("tx_bytes"), 1024)>>, <<"rxcmp", Rate("rx_compressed")>>,
           <<"txcmp", Rate("tx_compressed")>>, <<"rxmcst", Rate("multicast")>> >>))

-----------------------------------------------------------------------------
(* Errors of interfaces *)

net_edev_act == [id |-> "net_edev", options |-> {},
    hdr_line |-> << <<"IFACE", "rxerr", "txerr", "coll", "rxdrop", "txdrop", "txcarr",
                    "rxfram", "rxfifo", "txfifo">> >>]

print_net_edev_stats(a) ==
    <<Table(<<"IFACE", "rxerr", "txerr", "coll", "rxdrop", "txdrop", "txcarr", "rxfram",
              "rxfifo", "txfifo">>,
            Lines(NamedRows(a), LAMBDA r :
                <<Rate("rx_errors"), Rate("tx_errors"), Rate("collisions"),
                  Rate("rx_dropped"), Rate("tx_dropped"), Rate("tx_carrier_errors"),
                  Rate("rx_frame_errors"), Rate("rx_fifo_errors"), Rate("tx_fifo_errors")>>))>>

render_net_edev_stats(a) ==
    Calls(NamedRows(a), LAMBDA r :
        << <<"rxerr", Rate("rx_errors")>>, <<"txerr", Rate("tx_errors")>>,
           <<"coll", Rate("collisions")>>, <<"rxdrop", Rate("rx_dropped")>>,
           <<"txdrop", Rate("tx_dropped")>>, <<"txcarr", Rate("tx_carrier_errors")>>,
           <<"rxfram", Rate("rx_frame_errors")>>, <<"rxfifo", Rate("rx_fifo_errors")>>,
           <<"txfifo", Rate("tx_fifo_errors")>> >>)

xml_print_net_edev_stats(a, markup) ==
    Network(a, markup, Leaves(NamedRows(a), "net-edev", LAMBDA r :
        << <<"rxerr", Rate("rx_errors")>>, <<"txerr", Rate("tx_errors")>>,
           <<"coll", Rate("collisions")>>, <<"rxdrop", Rate("rx_dropped")>>,
           <<"txdrop", Rate("tx_dropped")>>, <<"txcarr", Rate("tx_carrier_errors")>>,
           <<"rxfram", Rate("rx_frame_errors")>>, <<"rxfifo", Rate("rx_fifo_errors")>>,
           <<"txfifo", Rate("tx_fifo_errors")>> >>))

-----------------------------------------------------------------------------
(* NFS client *)

net_nfs_act == [id |-> "net_nfs", options |-> {},
    hdr_line |-> << <<"call", "retrans", "read", "write", "access", "getatt">> >>]

print_net_nfs_stats(a) ==
    <<Table(<<"call", "retrans", "read", "write", "access", "getatt">>,
            Plain(<<Rate("nfs_rpccnt"), Rate("nfs_rpcretrans"), Rate("nfs_readcnt"),
                    Rate("nfs_writecnt"), Rate("nfs_accesscnt"), Rate("nfs_getattcnt")>>))>>

render_net_nfs_stats(a) ==
    Calls(One, LAMBDA r :
        << <<"call", Rate("nfs_rpccnt")>>, <<"retrans", Rate("nfs_rpcretrans")>>,
           <<"read", Rate("nfs_readcnt")>>, <<"write", Rate("nfs_writecnt")>>,
           <<"access", Rate("nfs_accesscnt")>>, <<"getatt", Rate("nfs_getattcnt")>> >>)

xml_print_net_nfs_stats(a, markup) ==
    Network(a, markup, Leaves(One, "net-nfs", LAMBDA r :
        << <<"call", Rate("nfs_rpccnt")>>, <<"retrans", Rate("nfs_rpcretrans")>>,
           <<"read", Rate("nfs_readcnt")>>, <<"write", Rate("nfs_writecnt")>>,
           <<"access", Rate("nfs_accesscnt")>>, <<"getatt", Rate("nfs_getattcnt")>> >>))

-----------------------------------------------------------------------------
(* NFS server *)

net_nfsd_act == [id |-> "net_nfsd", options |-> {},
    hdr_line |-> << <<"scall", "badcall", "packet", "udp", "tcp", "hit", "miss", "sread",
                    "swrite", "saccess", "sgetatt">> >>]

print_net_nfsd_stats(a) ==
    <<Table(<<"scall", "badcall", "packet", "udp", "tcp", "hit", "miss", "sread", "swrite",
              "saccess", "sgetatt">>,
            Plain(<<Rate("nfsd_rpccnt"), Rate("nfsd_rpcbad"), Rate("nfsd_netcnt"),
                    Rate("nfsd_netudpcnt"), Rate("nfsd_nettcpcnt"), Rate("nfsd_rchits"),
                    Rate("nfsd_rcmisses"), Rate("nfsd_readcnt"), Rate("nfsd_writecnt"),
                    Rate("nfsd_accesscnt"), Rate("nfsd_getattcnt")>>))>>

render_net_nfsd_stats(a) ==
    Calls(One, LAMBDA r :
        << <<"scall", Rate("nfsd_rpccnt")>>, <<"badcall", Rate("nfsd_rpcbad")>>,
           <<"packet", Rate("nfsd_netcnt")>>, <<"udp", Rate("nfsd_netudpcnt")>>,
           <<"tcp", Rate("nfsd_nettcpcnt")>>, <<"hit", Rate("nfsd_rchits")>>,
           <<"miss", Rate("nfsd_rcmisses")>>, <<"sread", Rate("nfsd_readcnt")>>,
           <<"swrite", Rate("nfsd_writecnt")>>, <<"saccess", Rate("nfsd_accesscnt")>>,
           <<"sgetatt", Rate("nfsd_getattcnt")>> >>)

xml_print_net_nfsd_stats(a, markup) ==
    Network(a, markup, Leaves(One, "net-nfsd", LAMBDA r :
        << <<"scall", Rate("nfsd_rpccnt")>>, <<"badcall", Rate("nfsd_rpcbad")>>,
           <<"packet", Rate("nfsd_netcnt")>>, <<"udp", Rate("nfsd_netudpcnt")>>,
           <<"tcp", Rate("nfsd_nettcpcnt")>>, <<"hit", Rate("nfsd_rchits")>>,
           <<"miss", Rate("nfsd_rcmisses")>>, <<"sread", Rate("nfsd_readcnt")>>,
           <<"swrite", Rate("nfsd_writecnt")>>, <<"saccess", Rate("nfsd_accesscnt")>>,
           <<"sgetatt", Rate("nfsd_getattcnt")>> >>))

-----------------------------------------------------------------------------
(* Sockets *)

net_sock_act == [id |-> "net_sock", options |-> {"CLOSE_MARKUP"},
    hdr_line |-> << <<"totsck", "tcpsck", "udpsck", "rawsck", "ip-frag", "tcp-tw">> >>]

stub_print_net_sock_stats(a, dispavg) ==
    LET head == <<"totsck", "tcpsck", "udpsck", "rawsck", "ip-frag", "tcp-tw">>
    IN  IF ~dispavg
        THEN <<Summed(head, Plain(<<Now("sock_inuse"), Now("tcp_inuse"), Now("udp_inuse"),
                                    Now("raw_inuse"), Now("frag_inuse"), Now("tcp_tw")>>),
                      {"sock_inuse", "tcp_inuse", "udp_inuse", "raw_inuse", "frag_inuse",
                       "tcp_tw"})>>
        ELSE <<Table(head, Plain(<<Mean("sock_inuse"), Mean("tcp_inuse"),
                                   Mean("udp_inuse"), Mean("raw_inuse"),
                                   Mean("frag_inuse"), Mean("tcp_tw")>>))>>

print_net_sock_stats(a) == stub_print_net_sock_stats(a, FALSE)
print_avg_net_sock_stats(a) == stub_print_net_sock_stats(a, TRUE)

render_net_sock_stats(a) ==
    Calls(One, LAMBDA r :
        << <<"totsck", Now("sock_inuse")>>, <<"tcpsck", Now("tcp_inuse")>>,
           <<"udpsck", Now("udp_inuse")>>, <<"rawsck", Now("raw_inuse")>>,
           <<"ip-frag", Now("frag_inuse")>>, <<"tcp-tw", Now("tcp_tw")>> >>)

xml_print_net_sock_stats(a, markup) ==
    Network(a, markup, Leaves(One, "net-sock", LAMBDA r :
        << <<"totsck", Now("sock_inuse")>>, <<"tcpsck", Now("tcp_inuse")>>,
           <<"udpsck", Now("udp_inuse")>>, <<"rawsck", Now("raw_inuse")>>,
           <<"ip-frag", Now("frag_inuse")>>, <<"tcp-tw", Now("tcp_tw")>> >>))

-----------------------------------------------------------------------------
(* The array of activities, and the functions each one points to.  Only    *)
(* the amounts have a function of their own for the averages; for the      *)
(* others the first sample takes the place of the one before.              *)

act == <<cpu_act, pcsw_act, irq_act, swap_act, paging_act, io_act, memory_act, ktables_act,
         queue_act, serial_act, disk_act, net_dev_act, net_edev_act, net_nfs_act, net_nfsd_act,
         net_sock_act>>

f_print(a) ==
    CASE a.id = "cpu" -> print_cpu_stats(a)           [] a.id = "pcsw" -> print_pcsw_stats(a)
      [] a.id = "irq" -> print_irq_stats(a)           [] a.id = "swap" -> print_swap_stats(a)
      [] a.id = "paging" -> print_paging_stats(a)     [] a.id = "io" -> print_io_stats(a)
      [] a.id = "memory" -> print_memory_stats(a)     [] a.id = "ktables" -> print_ktables_stats(a)
      [] a.id = "queue" -> print_queue_stats(a)       [] a.id = "serial" -> print_serial_stats(a)
      [] a.id = "disk" -> print_disk_stats(a)         [] a.id = "net_dev" -> print_net_dev_stats(a)
      [] a.id = "net_edev" -> print_net_edev_stats(a) [] a.id = "net_nfs" -> print_net_nfs_stats(a)
      [] a.id = "net_nfsd" -> print_net_nfsd_stats(a) [] a.id = "net_sock" -> print_net_sock_stats(a)

f_print_avg(a) ==
    CASE a.id = "memory" -> print_avg_memory_stats(a)
      [] a.id = "ktables" -> print_avg_ktables_stats(a)
      [] a.id = "queue" -> print_avg_queue_stats(a)
      [] a.id = "net_sock" -> print_avg_net_sock_stats(a)
      [] OTHER -> f_print(a)

f_render(a) ==
    CASE a.id = "cpu" -> render_cpu_stats(a)           [] a.id = "pcsw" -> render_pcsw_stats(a)
      [] a.id = "irq" -> render_irq_stats(a)           [] a.id = "swap" -> render_swap_stats(a)
      [] a.id = "paging" -> render_paging_stats(a)     [] a.id = "io" -> render_io_stats(a)
      [] a.id = "memory" -> render_memory_stats(a)     [] a.id = "ktables" -> render_ktables_stats(a)
      [] a.id = "queue" -> render_queue_stats(a)       [] a.id = "serial" -> render_serial_stats(a)
      [] a.id = "disk" -> render_disk_stats(a)         [] a.id = "net_dev" -> render_net_dev_stats(a)
      [] a.id = "net_edev" -> render_net_edev_stats(a) [] a.id = "net_nfs" -> render_net_nfs_stats(a)
      [] a.id = "net_nfsd" -> render_net_nfsd_stats(a) [] a.id = "net_sock" -> render_net_sock_stats(a)

f_xml_print(a, markup) ==
    CASE a.id = "net_dev" -> xml_print_net_dev_stats(a, markup)
      [] a.id = "net_edev" -> xml_print_net_edev_stats(a, markup)
      [] a.id = "net_nfs" -> xml_print_net_nfs_stats(a, markup)
      [] a.id = "net_nfsd" -> xml_print_net_nfsd_stats(a, markup)
      [] a.id = "net_sock" -> xml_print_net_sock_stats(a, markup)
      [] OTHER ->
         [markup |-> markup,
          tags |-> CASE a.id = "cpu" -> xml_print_cpu_stats(a)
                     [] a.id = "pcsw" -> xml_print_pcsw_stats(a)
                     [] a.id = "irq" -> xml_print_irq_stats(a)
                     [] a.id = "swap" -> xml_print_swap_stats(a)
                     [] a.id = "paging" -> xml_print_paging_stats(a)
                     [] a.id = "io" -> xml_print_io_stats(a)
                     [] a.id = "memory" -> xml_print_memory_stats(a)
                     [] a.id = "ktables" -> xml_print_ktables_stats(a)
                     [] a.id = "queue" -> xml_print_queue_stats(a)
                     [] a.id = "serial" -> xml_print_serial_stats(a)
                     [] a.id = "disk" -> xml_print_disk_stats(a)]

-----------------------------------------------------------------------------
(* The loops over the activities, acts being those of act[] in use. *)

Shown(a) == IS_SELECTED(a) /\ a.nr > 0
Multiple(a) == "MULTIPLE_OUTPUTS" \in a.options

write_stats(acts) ==
    FlattenSeq([k \in DOMAIN acts |-> IF Shown(acts[k]) THEN f_print(acts[k]) ELSE << >>])
write_stats_avg(acts) ==
    FlattenSeq([k \in DOMAIN acts |-> IF Shown(acts[k]) THEN f_print_avg(acts[k]) ELSE << >>])

\* Mutant of list_fields: all groups of fields of an activity with several outputs.
ListFieldsOfAll(acts) ==
    FlattenSeq([k \in DOMAIN acts |->
        IF Shown(acts[k]) THEN FlattenSeq(acts[k].hdr_line) ELSE << >>])

\* The list of fields: of an activity with several outputs those of its flags.
list_fields(acts) ==
    LET Fields(a) ==
          IF ~Multiple(a) THEN a.hdr_line[1]
          ELSE FlattenSeq([g \in DOMAIN a.hdr_line |->
                    IF 2^(g - 1) \in a.opt_flags THEN a.hdr_line[g] ELSE << >>])
    IN  FlattenSeq([k \in DOMAIN acts |-> IF Shown(acts[k]) THEN Fields(acts[k]) ELSE << >>])

write_mech_stats(acts) ==
    FlattenSeq([k \in DOMAIN acts |-> IF Shown(acts[k]) THEN f_render(acts[k]) ELSE << >>])

\* What render() writes for databases: words, in lines unless everything goes
\* into one.
render(calls, horizontally) ==
    LET Words(c) == (IF c.dbkey THEN <<[is |-> "key", key |-> c.key]>> ELSE << >>)
                    \o <<[is |-> "value", value |-> c.value]>>
        Line(done, c) ==
            [lines |-> IF done.newline THEN Append(done.lines, Words(c))
                       ELSE [done.lines EXCEPT ![Len(done.lines)] = @ \o Words(c)],
             newline |-> c.newline /\ ~horizontally]
    IN  FoldLeft(Line, [lines |-> << >>, newline |-> TRUE], calls).lines

\* All activities at once, or one after the other, with one output at a time,
\* each after its list of fields.
main_display_loop(acts, horizontally) ==
    LET Display(as) == [head |-> list_fields(as), calls |-> write_mech_stats(as)]
        Outputs(a) ==
            IF ~IS_SELECTED(a) THEN << >>
            ELSE IF ~Multiple(a) THEN <<Display(<<a>>)>>
            ELSE LET masks == SelectSeq(<<1, 2, 4, 8>>, LAMBDA msk : msk \in a.opt_flags)
                 IN  [k \in DOMAIN masks |-> Display(<<[a EXCEPT !.opt_flags = {masks[k]}]>>)]
    IN  IF horizontally THEN <<Display(acts)>>
        ELSE FlattenSeq([k \in DOMAIN acts |-> Outputs(acts[k])])

\* A sample in XML, with the state of the network element before and after it.
write_xml_stats(acts, markup) ==
    LET Shows(done, a) ==
            IF CLOSE_MARKUP(a) \/ Shown(a)
            THEN LET x == f_xml_print(a, done.markup)
                 IN  [tags |-> done.tags \o x.tags, markup |-> x.markup]
            ELSE done
        all == FoldLeft(Shows, [tags |-> << >>, markup |-> markup], acts)
    IN  [all EXCEPT !.tags = Element("timestamp", @)]

-----------------------------------------------------------------------------
(* What the formats say *)

KeyLabels == {"CPU", "INTR", "TTY", "DEV", "IFACE"}

\* One column for each value; the key is no value.
ColumnsOf(table) ==
    IF table.head[1] \in KeyLabels THEN Tail(table.head) ELSE table.head
TableAligned(table) ==
    \A l \in Range(table.lines) : /\ Len(l.values) = Len(ColumnsOf(table))
                                  /\ (l.key # None) = (table.head[1] \in KeyLabels)

TableCells(table) ==
    UNION {{<<l.key, ColumnsOf(table)[c], l.values[c]>> : c \in DOMAIN l.values} :
                l \in Range(table.lines)}
CallCells(calls) == {<<c.key, c.label, c.value>> : c \in Range(calls)}
TagCells(tags) ==
    UNION {{<<t.key, c[1], c[2]>> : c \in Range(t.columns)} :
                t \in {u \in Range(tags) : u.tag = "leaf"}}

\* The words of a line against the list of fields, which is repeated if all rows
\* are in one line.
FieldOf(head, n) == head[((n - 1) % Len(head)) + 1]
LineAligned(head, line, horizontally) ==
    /\ IF horizontally THEN Len(line) % Len(head) = 0 ELSE Len(line) = Len(head)
    /\ \A n \in DOMAIN line : (line[n].is = "key") = (FieldOf(head, n) \in KeyLabels)
LineCells(head, line) ==
    LET Keys(n) == {m \in 1..n : line[m].is = "key"}
        Key(n) == IF Keys(n) = {} THEN None
                  ELSE line[CHOOSE m \in Keys(n) : \A k \in Keys(n) : k <= m].key
    IN  {<<Key(n), FieldOf(head, n), line[n].value>> :
            n \in {m \in DOMAIN line : line[m].is = "value"}}

\* The formula for the averages: the means of the members that are added up.
\* A share of a sum of members is the deepest formula there is.
AveragedBy(f, sums, Part(_)) ==
    CASE f[1] = "now" /\ f[2] \in sums -> Mean(f[2])
      [] f[1] = "over" -> Over(Part(f[2]), f[3])
      [] f[1] \in {"less", "and"} -> <<f[1], Part(f[2]), Part(f[3])>>
      [] f[1] = "share" -> Share(Part(f[2]), Part(f[3]), Part(f[4]))
      [] OTHER -> f
Averaged(f, sums) ==
    LET Member(g) == AveragedBy(g, sums, LAMBDA h : h)
        Pair(g) == AveragedBy(g, sums, Member)
    IN  AveragedBy(f, sums, Pair)

Average(table) ==
    [table EXCEPT !.sums = {},
        !.lines = [l \in DOMAIN @ |-> [@[l] EXCEPT !.values =
            [c \in DOMAIN @ |-> [@[c] EXCEPT !.f = Averaged(@, table.sums)]]]]]

\* sadf.c:216 says that the formats of sadf "remain in sync and print the same
\* data": for one activity they do, and it is what sar shows under the same
\* labels; every member of an average is added up on the way.  Two things differ.
\* sar has a line also for a serial line that has changed.  And with -d each value
\* of a serial line is preceded by the number of the line, while the list of
\* fields has it once (and "txmtin" for "xmtin").
FormatsAgree(a, horizontally) ==
    LET tables == write_stats(<<a>>)
        shown == UNION {TableCells(t) : t \in Range(tables)}
        blocks == main_display_loop(<<a>>, horizontally)
        calls == FlattenSeq([b \in DOMAIN blocks |-> blocks[b].calls])
        xml == write_xml_stats(<<a>>, "close").tags
    IN  /\ \A t \in Range(tables) : TableAligned(t)
        /\ write_stats_avg(<<a>>) = [t \in DOMAIN tables |-> Average(tables[t])]
        /\ CallCells(calls) = TagCells(xml)
        /\ CallCells(calls) \subseteq shown
        /\ \A c \in shown \ CallCells(calls) :
                a.id = "serial" /\ (a.since_boot \/ c[3].f = Unknown)
        /\ a.id # "serial" =>
             \A b \in Range(blocks) :
                LET lines == render(b.calls, horizontally)
                IN  /\ \A l \in Range(lines) : LineAligned(b.head, l, horizontally)
                    /\ UNION {LineCells(b.head, l) : l \in Range(lines)} = CallCells(b.calls)

\* The elements are nested whatever is selected, in every sample.
Nested(tags) ==
    LET Step(stack, t) ==
            CASE t.tag = "open" -> <<t.name>> \o stack
              [] t.tag = "leaf" -> stack
              [] t.tag = "close" -> IF stack # << >> /\ stack[1] = t.name THEN Tail(stack)
                                    ELSE <<"wrong">> \o stack
    IN  FoldLeft(Step, << >>, tags) = << >>

MarkupNested(acts) ==
    LET first == write_xml_stats(acts, "close")
        second == write_xml_stats(acts, first.markup)
    IN  Nested(first.tags) /\ Nested(second.tags)

=============================================================================
