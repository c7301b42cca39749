-------------------------- MODULE SadcFiles_proofs --------------------------
(***************************************************************************)
(* The daily data files, for any number of sadc processes of every kind,   *)
(* any number of days, samples and deaths: short of the three accidents    *)
(* the model names, the lock keeps the records of a file whole.            *)
(*                                                                         *)
(* Who writes to a file without an accident holds its lock, has its place  *)
(* at the end of the file, and has the list of activities that is in the   *)
(* file.  The lock is not held when the list is read; that it is the same  *)
(* list later rests on the check that makes emptying a good file one of    *)
(* the accidents.                                                          *)
(***************************************************************************)
EXTENDS SadcFiles, SequenceTheorems, TLAPS

-----------------------------------------------------------------------------
(* The invariant *)

ListName == {"old", "none", "default", "all", "disk"}
Item == [k : {"magic", "foreign", "text", "hole"}] \cup [k : {"list", "stats"}, of : ListName]
          \cup [k : {"rec"}, of : {"stats", "restart", "comment"}]

\* Where a process has the file open, and may go on to write to it.
Within == {"header", "take", "save", "body", "rotate", "end", "pause"}
Making == {"truncate", "wmagic", "wlist"}
Place == Within \cup Making
           \cup {"off", "open", "magic", "list", "create", "lock", "exited", "done", "dead"}

TypeOK ==
  /\ day \in Day /\ file \in [Day -> Seq(Item)] /\ lock \in [Day -> SUBSET Writer]
  /\ kind \in [Writer -> Kind] /\ pc \in [Writer -> Place] /\ ofile \in [Writer -> Day]
  /\ append \in [Writer -> BOOLEAN] /\ at \in [Writer -> Nat] /\ list \in [Writer -> ListName]
  /\ flagged \in [Writer -> BOOLEAN] /\ due \in [Writer -> 0..MaxDay]
  /\ accident \in [Day -> SUBSET {"unlocked", "emptied", "torn"}]

\* Where a process is and what it has.
Placed(w) ==
  /\ pc[w] = "rotate" => due[w] # 0
  /\ pc[w] = "body" => kind[w] # "boot"
  /\ pc[w] \in {"lock", "truncate", "wmagic"} => ~append[w] /\ at[w] = 0
  /\ pc[w] = "wlist" => ~append[w]
  /\ pc[w] = "truncate" /\ Careful(w) => Holds(w)

\* One process holds the lock of a file: one that asks for it and has the file open.
Locked(f) ==
  /\ \A w, u \in lock[f] : w = u
  /\ \A w \in lock[f] : ofile[w] = f /\ Careful(w) /\ flagged[w] /\ pc[w] \in Within \cup Making

\* What a process knows of its file, unless there has been an accident.
Knows(w, s) ==
  /\ pc[w] \in {"wmagic", "wlist", "body"} => Holds(w)
  /\ pc[w] \in Within /\ ~append[w] => Holds(w) /\ at[w] = Len(s)
  /\ pc[w] = "wmagic" => s = <<>>
  /\ pc[w] = "wlist" => s = <<Magic>> /\ at[w] = 1
  /\ pc[w] \in Within => Len(s) > 1 /\ s[1] = Magic /\ s[2].k = "list" /\ s[2].of = list[w]
  /\ pc[w] \in Within /\ append[w] => list[w] \notin Unfit
  /\ pc[w] = "body" => s[Len(s)] = RecordOf(w)

FilesInv ==
  /\ TypeOK
  /\ \A w \in Writer : Placed(w)
  /\ \A f \in Day : Locked(f)
  /\ \A w \in Writer : accident[ofile[w]] = {} => Knows(w, file[ofile[w]])
  /\ \A f \in Day : accident[f] = {} => Whole(f)

-----------------------------------------------------------------------------
(* What is in a file *)

LEMMA Items ==
  /\ Magic.k = "magic" /\ Foreign.k = "foreign" /\ Text.k = "text" /\ Hole.k = "hole"
  /\ \A a : List(a).k = "list" /\ List(a).of = a
  /\ \A a : Stats(a).k = "stats"
  /\ \A t : Rec(t).k = "rec" /\ Rec(t).of = t
BY DEF Magic, Foreign, Text, Hole, List, Stats, Rec

\* Each record with what belongs to it: Whole without the last one.
Proper(s) ==
  \A i \in 3..Len(s) :
    CASE s[i - 1] = Rec("stats")   -> s[i] = Stats(s[2].of)
      [] s[i - 1] = Rec("comment") -> s[i] = Text
      [] OTHER                     -> s[i].k = "rec"
Headed(s) == Len(s) > 1 /\ s[1] = Magic /\ s[2].k = "list"
Half(s) == s[Len(s)] \in {Rec("stats"), Rec("comment")}

LEMMA WholeParts ==
  ASSUME NEW f
  PROVE  Whole(f) <=> \/ file[f] \in {<<>>, <<Foreign>>}
                      \/ file[f] = <<Magic>> /\ Writing(f)
                      \/ Headed(file[f]) /\ Proper(file[f]) /\ (Half(file[f]) => Writing(f))
BY DEF Whole, Headed, Proper, Half

LEMMA AppendParts ==
  ASSUME NEW s \in Seq(Item), NEW e \in Item, Headed(s), Proper(s)
  PROVE  LET z == Append(s, e)
         IN  /\ Headed(z) /\ z[2].of = s[2].of /\ Len(z) = Len(s) + 1 /\ z[Len(z)] = e
             /\ (CASE s[Len(s)] = Rec("stats")   -> e = Stats(s[2].of)
                   [] s[Len(s)] = Rec("comment") -> e = Text
                   [] OTHER                      -> e.k = "rec") => Proper(z)
<1>. DEFINE z == Append(s, e)
<1>1. Len(s) \in Nat /\ Len(z) = Len(s) + 1 /\ z[Len(s) + 1] = e
  OBVIOUS
<1>2. \A i \in 1..Len(s) : z[i] = s[i]
  OBVIOUS
<1>. HIDE DEF z
<1>3. Headed(z) /\ z[2] = s[2]
  BY <1>1, <1>2 DEF Headed
<1>4. ASSUME CASE s[Len(s)] = Rec("stats")   -> e = Stats(s[2].of)
               [] s[Len(s)] = Rec("comment") -> e = Text
               [] OTHER                      -> e.k = "rec",
             NEW i \in 3..Len(z)
      PROVE  CASE z[i - 1] = Rec("stats")   -> z[i] = Stats(z[2].of)
               [] z[i - 1] = Rec("comment") -> z[i] = Text
               [] OTHER                     -> z[i].k = "rec"
  <2>1. CASE i = Len(s) + 1
    <3>1. z[i - 1] = s[Len(s)] /\ z[i] = e
      <4>1. i - 1 = Len(s) /\ Len(s) \in 1..Len(s)
        BY <1>1, <2>1
      <4>. QED  BY <1>1, <1>2, <2>1, <4>1
    <3>. QED  BY <1>3, <1>4, <3>1
  <2>2. CASE i \in 3..Len(s)
    <3>1. z[i - 1] = s[i - 1] /\ z[i] = s[i]
      BY <1>1, <1>2, <2>2
    <3>. QED  BY <1>3, <2>2, <3>1 DEF Proper
  <2>. QED  BY <1>1, <2>1, <2>2
<1>5. (CASE s[Len(s)] = Rec("stats")   -> e = Stats(s[2].of)
         [] s[Len(s)] = Rec("comment") -> e = Text
         [] OTHER                      -> e.k = "rec") => Proper(z)
  BY <1>4 DEF Proper
<1>. QED  BY <1>1, <1>3, <1>5 DEF z

\* What a process writes at the end of the file is appended to it.
LEMMA PutAppends ==
  ASSUME TypeOK, NEW w \in Writer, NEW item \in Item, NEW held \in BOOLEAN, Put(w, item, held),
         append[w] \/ at[w] = Len(file[ofile[w]])
  PROVE  /\ file' = [file EXCEPT ![ofile[w]] = Append(@, item)]
         /\ at'[w] = Len(file[ofile[w]]) + 1
<1>. DEFINE f == ofile[w]  s == file[f]
<1>1. f \in Day /\ s \in Seq(Item) /\ Len(s) \in Nat
  BY DEF TypeOK
<1>2. (IF append[w] THEN Len(s) + 1 ELSE at[w] + 1) = Len(s) + 1
  BY <1>1
<1>3. /\ file' = [file EXCEPT ![f] =
             [i \in 1..(IF Len(s) + 1 > Len(s) THEN Len(s) + 1 ELSE Len(s)) |->
                IF i = Len(s) + 1 THEN item ELSE IF i <= Len(s) THEN s[i] ELSE Hole]]
      /\ at' = [at EXCEPT ![w] = Len(s) + 1]
  BY <1>2 DEF Put
<1>4. [i \in 1..(IF Len(s) + 1 > Len(s) THEN Len(s) + 1 ELSE Len(s)) |->
                IF i = Len(s) + 1 THEN item ELSE IF i <= Len(s) THEN s[i] ELSE Hole]
      = Append(s, item)
  <2>. HIDE DEF s
  <2>1. (IF Len(s) + 1 > Len(s) THEN Len(s) + 1 ELSE Len(s)) = Len(s) + 1
    BY <1>1
  <2>2. Append(s, item) \in Seq(Item) /\ Len(Append(s, item)) = Len(s) + 1
    BY <1>1
  <2>3. Append(s, item) = [i \in 1..(Len(s) + 1) |-> Append(s, item)[i]]
    <3>1. Append(s, item) \in [1..(Len(s) + 1) -> Item]
      BY <2>2, LenProperties
    <3>. QED  BY <3>1
  <2>4. \A i \in 1..(Len(s) + 1) :
          (IF i = Len(s) + 1 THEN item ELSE IF i <= Len(s) THEN s[i] ELSE Hole) = Append(s, item)[i]
    BY <1>1
  <2>. QED  BY <2>1, <2>3, <2>4
<1>5. at'[w] = Len(s) + 1
  BY <1>3 DEF TypeOK
<1>. QED  BY <1>3, <1>4, <1>5

-----------------------------------------------------------------------------
(* Steps of one process *)

\* Process a does something that is not seen in the others.
Only(a) ==
  /\ kind' = kind
  /\ \A u \in Writer : u # a =>
       /\ pc'[u] = pc[u] /\ ofile'[u] = ofile[u] /\ append'[u] = append[u] /\ at'[u] = at[u]
       /\ list'[u] = list[u] /\ flagged'[u] = flagged[u] /\ due'[u] = due[u]
       /\ \A f \in Day : u \in lock'[f] <=> u \in lock[f]

\* It keeps the lock it has, or takes one that is free.
LockOf(a) ==
  \A f \in Day : a \in lock'[f] =>
    /\ a \in lock[f] \/ lock[f] = {}
    /\ ofile'[a] = f /\ Careful(a) /\ flagged'[a] /\ pc'[a] \in Within \cup Making

LEMMA OthersPlaced ==
  ASSUME FilesInv, TypeOK', NEW a \in Writer, Only(a), LockOf(a), Placed(a)'
  PROVE  (\A w \in Writer : Placed(w)') /\ (\A f \in Day : Locked(f)')
<1>1. ASSUME NEW w \in Writer, w # a PROVE Placed(w)'
  <2>1. Placed(w) /\ ofile[w] \in Day
    BY DEF FilesInv, TypeOK
  <2>. QED  BY <1>1, <2>1 DEF Placed, Only, Careful, Holds
<1>2. ASSUME NEW f \in Day PROVE Locked(f)'
  <2>1. Locked(f) /\ lock[f] \subseteq Writer /\ lock'[f] \subseteq Writer
    BY DEF FilesInv, TypeOK
  <2>2. \A w \in lock'[f] : w # a => w \in lock[f]
    BY <2>1 DEF Only
  <2>3. \A w, u \in lock'[f] : w = u
    <3>1. a \in lock'[f] => \A w \in lock[f] : w = a
      BY <2>1 DEF LockOf, Locked
    <3>. QED  BY <2>1, <2>2, <3>1 DEF Locked
  <2>4. \A w \in lock'[f] : (ofile[w] = f /\ Careful(w) /\ flagged[w] /\ pc[w] \in Within \cup Making)'
    <3>1. ASSUME NEW w \in lock'[f], w # a
          PROVE  (ofile[w] = f /\ Careful(w) /\ flagged[w] /\ pc[w] \in Within \cup Making)'
      BY <2>1, <2>2, <3>1 DEF Only, Locked, Careful
    <3>2. a \in lock'[f] => (ofile[a] = f /\ Careful(a) /\ flagged[a] /\ pc[a] \in Within \cup Making)'
      BY DEF LockOf, Only, Careful
    <3>. QED  BY <3>1, <3>2
  <2>. QED  BY <2>3, <2>4 DEF Locked
<1>. QED  BY <1>1, <1>2

\* A step that writes nothing.
LEMMA ReadKeeps ==
  ASSUME FilesInv, TypeOK', NEW a \in Writer, Only(a), LockOf(a), Placed(a)',
         file' = file, \A f \in Day : accident[f] \subseteq accident'[f],
         pc[a] \in {"wlist", "body"} => accident'[ofile[a]] # {},
         accident'[ofile'[a]] = {} => Knows(a, file[ofile[a]])'
  PROVE  FilesInv'
<1>1. (\A w \in Writer : Placed(w)') /\ (\A f \in Day : Locked(f)')
  BY OthersPlaced
<1>2. ASSUME NEW w \in Writer, w # a, accident'[ofile'[w]] = {} PROVE Knows(w, file[ofile[w]])'
  <2>1. ofile'[w] = ofile[w] /\ ofile[w] \in Day /\ accident[ofile[w]] = {}
    BY <1>2 DEF Only, FilesInv, TypeOK
  <2>2. Knows(w, file[ofile[w]])
    BY <2>1 DEF FilesInv
  <2>3. Holds(w)' <=> Holds(w)
    BY <1>2, <2>1 DEF Only, Holds
  <2>. QED  BY <1>2, <2>1, <2>2, <2>3 DEF Only, Knows, RecordOf
<1>3. ASSUME NEW f \in Day, accident'[f] = {} PROVE Whole(f)'
  <2>1. accident[f] = {} /\ Whole(f)
    BY <1>3 DEF FilesInv
  <2>2. Writing(f) => Writing(f)'
    BY <1>3 DEF Writing, Only
  <2>. QED  BY <2>1, <2>2 DEF Whole
<1>. QED  BY <1>1, <1>2, <1>3 DEF FilesInv

\* A step that puts s in the file, and is no accident only if the process has the lock.
LEMMA WriteKeeps ==
  ASSUME FilesInv, TypeOK', NEW a \in Writer, Only(a), LockOf(a), Placed(a)', ofile' = ofile,
         NEW s, file' = [file EXCEPT ![ofile[a]] = s],
         \A f \in Day : accident[f] \subseteq accident'[f],
         accident'[ofile[a]] = {} =>
            /\ Holds(a)' /\ Knows(a, s)' /\ Whole(ofile[a])'
            /\ Valuable(file[ofile[a]]) /\ Headed(file[ofile[a]]) =>
                 Headed(s) /\ s[2].of = file[ofile[a]][2].of
  PROVE  FilesInv'
<1>. DEFINE f == ofile[a]
<1>0. f \in Day /\ file \in [Day -> Seq(Item)] /\ file'[f] = s
  BY DEF FilesInv, TypeOK
<1>1. (\A w \in Writer : Placed(w)') /\ (\A g \in Day : Locked(g)')
  BY OthersPlaced
<1>2. ASSUME NEW w \in Writer, w # a, accident'[ofile'[w]] = {} PROVE Knows(w, file[ofile[w]])'
  <2>1. ofile'[w] = ofile[w] /\ ofile[w] \in Day /\ accident[ofile[w]] = {}
    BY <1>2 DEF FilesInv, TypeOK
  <2>2. Knows(w, file[ofile[w]])
    BY <2>1 DEF FilesInv
  <2>3. Holds(w)' <=> Holds(w)
    BY <1>2, <2>1 DEF Only, Holds
  <2>4. CASE ofile[w] # f
    <3>1. file'[ofile[w]] = file[ofile[w]]
      BY <1>0, <2>1, <2>4
    <3>. QED  BY <1>2, <2>1, <2>2, <2>3, <3>1 DEF Only, Knows, RecordOf
  <2>5. CASE ofile[w] = f
    <3>1. Holds(a)' /\ ~Holds(w)
      <4>1. Holds(a)'
        BY <1>2, <2>5
      <4>2. Holds(w)' => w = a
        BY <1>0, <1>1, <2>5, <4>1 DEF Holds, Locked
      <4>. QED  BY <1>2, <2>3, <4>1, <4>2
    <3>2. pc[w] \notin {"wmagic", "wlist", "body"} /\ (pc[w] \in Within => append[w])
      BY <2>2, <3>1 DEF Knows
    <3>3. pc[w] \in Within => Headed(s) /\ s[2].of = list[w]
      <4>1. pc[w] \in Within =>
              Len(file[f]) > 1 /\ file[f][1] = Magic /\ file[f][2].k = "list" /\ file[f][2].of = list[w]
              /\ list[w] \notin Unfit
        BY <2>2, <2>5, <3>2 DEF Knows
      <4>2. pc[w] \in Within => Valuable(file[f]) /\ Headed(file[f])
        BY <1>0, <4>1 DEF Valuable, Headed
      <4>. QED  BY <1>2, <2>5, <4>1, <4>2
    <3>. QED  BY <1>0, <1>2, <2>2, <2>5, <3>2, <3>3 DEF Only, Knows, Headed
  <2>. QED  BY <2>4, <2>5
<1>3. ASSUME NEW g \in Day, accident'[g] = {} PROVE Whole(g)'
  <2>1. CASE g = f
    BY <1>3, <2>1
  <2>2. CASE g # f
    <3>1. Whole(g) /\ file'[g] = file[g]
      BY <1>0, <1>3, <2>2 DEF FilesInv
    <3>2. Writing(g) => Writing(g)'
      BY <2>2 DEF Writing, Only
    <3>. QED  BY <3>1, <3>2 DEF Whole
  <2>. QED  BY <2>1, <2>2
<1>4. accident'[ofile'[a]] = {} => Knows(a, file[ofile[a]])'
  BY <1>0
<1>. QED  BY <1>1, <1>2, <1>3, <1>4 DEF FilesInv

\* Who holds the lock of a file without an accident, and is not in the middle of it,
\* finds no half record there.
LEMMA NoHalf ==
  ASSUME FilesInv, NEW a \in Writer, Holds(a) \/ Free(a), pc[a] \notin {"wlist", "body"},
         accident[ofile[a]] = {}
  PROVE  ~Writing(ofile[a])
<1>. SUFFICES ASSUME NEW w \in Writer, ofile[w] = ofile[a], pc[w] \in {"wlist", "body"} PROVE FALSE
  BY DEF Writing
<1>1. Holds(w) /\ ofile[a] \in Day
  BY DEF FilesInv, Knows, TypeOK
<1>2. w = a
  BY <1>1 DEF Holds, Free, FilesInv, Locked
<1>. QED  BY <1>2

-----------------------------------------------------------------------------
(* Opening a file *)

LEMMA Outside ==
  ASSUME FilesInv, NEW a \in Writer, pc[a] \notin Within \cup Making
  PROVE  \A f \in Day : a \notin lock[f]
BY DEF FilesInv, Locked

\* Steps that leave all locks and files alone, of a process that may write nothing yet.
LEMMA LooksKeeps ==
  ASSUME FilesInv, TypeOK', NEW a \in Writer, Only(a), UNCHANGED files, Placed(a)',
         pc[a] \notin Within \cup Making, pc'[a] \notin Within \cup Making
  PROVE  FilesInv'
<1>1. LockOf(a)
  BY Outside DEF LockOf, files
<1>2. \A f \in Day : accident[f] \subseteq accident'[f]
  BY DEF files
<1>3. Knows(a, file[ofile[a]])'
  BY DEF Knows, Within, Making
<1>4. pc[a] \notin {"wlist", "body"}
  BY DEF Within, Making
<1>. QED  BY <1>1, <1>2, <1>3, <1>4, ReadKeeps DEF files

LEMMA StartKeeps ==
  ASSUME FilesInv, NEW a \in Writer, Start(a)
  PROVE  FilesInv'
<1>1. TypeOK /\ pc[a] = "off"
  BY DEF FilesInv, Start
<1>2. TypeOK'
  BY <1>1 DEF Start, GoTo, files, TypeOK, Place
<1>3. Only(a) /\ pc'[a] = "open"
  BY <1>1 DEF Only, Start, GoTo, files, TypeOK
<1>4. Placed(a)'
  BY <1>3 DEF Placed
<1>. QED  BY <1>1, <1>2, <1>3, <1>4, LooksKeeps DEF Start, Within, Making

LEMMA FindKeeps ==
  ASSUME FilesInv, NEW a \in Writer, Find(a)
  PROVE  FilesInv'
<1>1. TypeOK /\ pc[a] = "open"
  BY DEF FilesInv, Find
<1>2. TypeOK'
  BY <1>1 DEF Find, GoTo, files, TypeOK, Place
<1>3. Only(a) /\ pc'[a] \in {"magic", "create"}
  BY <1>1 DEF Only, Find, GoTo, files, TypeOK
<1>4. Placed(a)'
  BY <1>3 DEF Placed
<1>. QED  BY <1>1, <1>2, <1>3, <1>4, LooksKeeps DEF Find, Within, Making

LEMMA OpenNewKeeps ==
  ASSUME FilesInv, NEW a \in Writer, OpenNew(a)
  PROVE  FilesInv'
<1>1. TypeOK /\ pc[a] = "create"
  BY DEF FilesInv, OpenNew
<1>2. TypeOK'
  BY <1>1 DEF OpenNew, GoTo, TypeOK, Place
<1>3. Only(a) /\ pc'[a] = "lock" /\ ~append'[a] /\ at'[a] = 0
  BY <1>1 DEF Only, OpenNew, GoTo, TypeOK
<1>4. Placed(a)'
  BY <1>3 DEF Placed
<1>5. LockOf(a)
  BY <1>1, Outside DEF LockOf, OpenNew, Within, Making
<1>6. Knows(a, file[ofile[a]])'
  BY <1>3 DEF Knows, Within
<1>7. file' = file /\ accident' = accident
  BY DEF OpenNew
<1>. QED  BY <1>1, <1>2, <1>3, <1>4, <1>5, <1>6, <1>7, ReadKeeps

\* Leaving, with the lock if there is one.
LEMMA ExitKeeps ==
  ASSUME FilesInv, TypeOK', NEW a \in Writer, Exit(a), pc[a] \notin {"wlist", "body"},
         UNCHANGED <<kind, ofile, append, at, list, flagged, due, file, accident>>
  PROVE  FilesInv'
<1>1. TypeOK
  BY DEF FilesInv
<1>2. pc'[a] = "exited" /\ (\A f \in Day : a \notin lock'[f]) /\ Only(a)
  BY <1>1 DEF Exit, GoTo, Unlock, Only, TypeOK
<1>3. LockOf(a) /\ Placed(a)' /\ Knows(a, file[ofile[a]])'
  BY <1>2 DEF LockOf, Placed, Knows, Within
<1>. QED  BY <1>2, <1>3, ReadKeeps

LEMMA ReadMagicKeeps ==
  ASSUME FilesInv, NEW a \in Writer, ReadMagic(a)
  PROVE  FilesInv'
<1>1. TypeOK /\ pc[a] = "magic"
  BY DEF FilesInv, ReadMagic
<1>2. UNCHANGED <<day, made, file, accident, kind, ofile, append, at, list, flagged, due>>
  BY DEF ReadMagic
<1>3. CASE Exit(a)
  <2>1. TypeOK'
    BY <1>1, <1>2, <1>3 DEF Exit, GoTo, Unlock, TypeOK, Place
  <2>. QED  BY <1>1, <1>2, <1>3, <2>1, ExitKeeps
<1>4. CASE ~Exit(a)
  <2>1. PICK x \in {"create", "list"} : GoTo(a, x) /\ lock' = lock
    BY <1>4 DEF ReadMagic
  <2>2. TypeOK'
    BY <1>1, <1>2, <2>1 DEF GoTo, TypeOK, Place
  <2>3. Only(a) /\ pc'[a] = x
    BY <1>1, <1>2, <2>1 DEF Only, GoTo, TypeOK
  <2>4. Placed(a)'
    BY <2>3 DEF Placed
  <2>. QED  BY <1>1, <1>2, <2>1, <2>2, <2>3, <2>4, LooksKeeps DEF files, Within, Making
<1>. QED  BY <1>3, <1>4

LEMMA ReadListKeeps ==
  ASSUME FilesInv, NEW a \in Writer, ReadList(a)
  PROVE  FilesInv'
<1>. DEFINE f == ofile[a]  s == file[f]
<1>1. /\ TypeOK /\ pc[a] = "list" /\ f \in Day /\ s \in Seq(Item)
      /\ accident[f] = {} => Whole(f)
  BY DEF FilesInv, ReadList, TypeOK
<1>2. UNCHANGED <<day, made, file, accident, kind, ofile, at, flagged, due>>
  BY DEF ReadList
<1>3. CASE Exit(a) /\ UNCHANGED <<append, list>>
  <2>1. TypeOK'
    BY <1>1, <1>2, <1>3 DEF Exit, GoTo, Unlock, TypeOK, Place
  <2>. QED  BY <1>1, <1>2, <1>3, <2>1, ExitKeeps
<1>4. CASE list' = [list EXCEPT ![a] = "none"] /\ GoTo(a, "create") /\ UNCHANGED <<append, lock>>
  <2>1. TypeOK'
    BY <1>1, <1>2, <1>4 DEF GoTo, TypeOK, Place, ListName
  <2>2. Only(a) /\ pc'[a] = "create"
    BY <1>1, <1>2, <1>4 DEF Only, GoTo, TypeOK
  <2>3. Placed(a)'
    BY <2>2 DEF Placed
  <2>. QED  BY <1>1, <1>2, <1>4, <2>1, <2>2, <2>3, LooksKeeps DEF files, Within, Making
<1>5. CASE /\ Len(s) > 1 /\ s[2].k = "list" /\ s[2].of \notin Unfit
           /\ list' = [list EXCEPT ![a] = s[2].of] /\ append' = [append EXCEPT ![a] = TRUE]
           /\ GoTo(a, Opened(a)) /\ UNCHANGED lock
  <2>1. s[2].of \in ListName
    <3>1. s[2] \in Item
      BY <1>1, <1>5
    <3>. QED  BY <1>5, <3>1 DEF Item
  <2>2. Opened(a) \in {"header", "save", "take"}
    BY DEF Opened
  <2>3. TypeOK'
    BY <1>1, <1>2, <1>5, <2>1, <2>2 DEF GoTo, TypeOK, Place, Within
  <2>4. /\ Only(a) /\ pc'[a] \in {"header", "save", "take"} /\ append'[a] /\ list'[a] = s[2].of
        /\ ofile'[a] = f /\ file'[f] = s
    BY <1>1, <1>2, <1>5, <2>2 DEF Only, GoTo, TypeOK
  <2>5. Placed(a)'
    BY <2>4 DEF Placed
  <2>6. LockOf(a)
    BY <1>1, <1>5, Outside DEF LockOf, Within, Making
  <2>7. accident'[f] = {} => s[1] = Magic
    <3>. HIDE DEF s
    <3>1. accident'[f] = {} => Whole(f)
      BY <1>1, <1>2
    <3>. QED  BY <1>1, <1>5, <3>1 DEF Whole, s
  <2>8. accident'[ofile'[a]] = {} => Knows(a, file[ofile[a]])'
    BY <1>5, <2>4, <2>7 DEF Knows, Within
  <2>. QED  BY <1>1, <1>2, <1>5, <2>3, <2>4, <2>5, <2>6, <2>8, ReadKeeps
<1>. QED  BY <1>3, <1>4, <1>5 DEF ReadList

LEMMA LockNewKeeps ==
  ASSUME FilesInv, NEW a \in Writer, LockNew(a)
  PROVE  FilesInv'
<1>1. TypeOK /\ pc[a] = "lock" /\ Placed(a)
  BY DEF FilesInv, LockNew
<1>2. UNCHANGED <<day, made, file, accident, kind, ofile, append, at, list, due>>
  BY DEF LockNew
<1>3. CASE Exit(a) /\ UNCHANGED flagged
  <2>1. TypeOK'
    BY <1>1, <1>2, <1>3 DEF Exit, GoTo, Unlock, TypeOK, Place
  <2>. QED  BY <1>1, <1>2, <1>3, <2>1, ExitKeeps
<1>4. CASE Careful(a) /\ Free(a) /\ TakeLock(a) /\ GoTo(a, "truncate")
  <2>1. TypeOK'
    BY <1>1, <1>2, <1>4 DEF GoTo, TakeLock, TypeOK, Place, Making
  <2>2. /\ Only(a) /\ pc'[a] = "truncate" /\ flagged'[a] /\ lock'[ofile[a]] = {a}
        /\ \A f \in Day : a \in lock'[f] => lock[f] = {} /\ f = ofile[a]
    <3>1. \A f \in Day : a \notin lock[f]
      BY <1>1, Outside DEF Within, Making
    <3>2. \A f \in Day : lock'[f] = IF f = ofile[a] THEN {a} ELSE lock[f]
      BY <1>1, <1>4 DEF TakeLock, TypeOK
    <3>3. ofile[a] \in Day /\ lock[ofile[a]] = {}
      BY <1>1, <1>4 DEF Free, TypeOK
    <3>4. Only(a) /\ pc'[a] = "truncate" /\ flagged'[a]
      BY <1>1, <1>2, <1>4, <3>2, <3>3 DEF Only, GoTo, TakeLock, TypeOK
    <3>. QED  BY <3>1, <3>2, <3>3, <3>4
  <2>3. LockOf(a)
    BY <1>2, <1>4, <2>2 DEF LockOf, Making
  <2>4. Placed(a)'
    BY <1>1, <1>2, <2>2 DEF Placed, Holds
  <2>5. Knows(a, file[ofile[a]])'
    BY <2>2 DEF Knows, Within
  <2>. QED  BY <1>1, <1>2, <2>1, <2>2, <2>3, <2>4, <2>5, ReadKeeps
<1>5. CASE ~Careful(a) /\ GoTo(a, "truncate") /\ UNCHANGED <<lock, flagged>>
  <2>1. TypeOK'
    BY <1>1, <1>2, <1>5 DEF GoTo, TypeOK, Place, Making
  <2>2. Only(a) /\ pc'[a] = "truncate"
    BY <1>1, <1>2, <1>5 DEF Only, GoTo, TypeOK
  <2>3. LockOf(a)
    BY <1>1, <1>5, Outside DEF LockOf, Within, Making
  <2>4. Placed(a)'
    BY <1>1, <1>2, <1>5, <2>2 DEF Placed, Careful
  <2>5. Knows(a, file[ofile[a]])'
    BY <2>2 DEF Knows, Within
  <2>. QED  BY <1>1, <1>2, <2>1, <2>2, <2>3, <2>4, <2>5, ReadKeeps
<1>. QED  BY <1>3, <1>4, <1>5 DEF LockNew

-----------------------------------------------------------------------------
(* With the file open *)

\* Going on without writing.
LEMMA GoesOnKeeps ==
  ASSUME FilesInv, TypeOK', NEW a \in Writer, NEW x \in Within \ {"body"}, GoTo(a, x),
         pc[a] \in Within \ {"body"}, x = "rotate" => due'[a] # 0,
         UNCHANGED <<kind, ofile, append, at, list, flagged, file, lock, accident>>,
         \A u \in Writer : u # a => due'[u] = due[u]
  PROVE  FilesInv'
<1>1. TypeOK /\ ofile[a] \in Day
  BY DEF FilesInv, TypeOK
<1>2. Only(a) /\ pc'[a] = x
  BY <1>1 DEF Only, GoTo, TypeOK
<1>3. LockOf(a)
  BY <1>2 DEF FilesInv, Locked, LockOf, Careful
<1>4. Placed(a)'
  BY <1>2 DEF Placed, Within
<1>5. accident'[ofile'[a]] = {} => Knows(a, file[ofile[a]])'
  <2>1. accident[ofile[a]] = {} => Knows(a, file[ofile[a]])
    BY DEF FilesInv
  <2>. QED  BY <1>2, <2>1 DEF Knows, Holds, Within
<1>6. pc[a] \notin {"wlist", "body"}
  BY DEF Within
<1>. QED  BY <1>2, <1>3, <1>4, <1>5, <1>6, ReadKeeps

LEMMA PipeHeaderKeeps ==
  ASSUME FilesInv, NEW a \in Writer, PipeHeader(a)
  PROVE  FilesInv'
<1>1. PICK x \in {"save", "take"} : GoTo(a, x)
  BY DEF PipeHeader
<1>2. TypeOK'
  BY <1>1 DEF FilesInv, PipeHeader, GoTo, files, TypeOK, Place, Within
<1>. QED  BY <1>1, <1>2, GoesOnKeeps DEF PipeHeader, files, Within

LEMMA TakeSampleKeeps ==
  ASSUME FilesInv, NEW a \in Writer, TakeSample(a)
  PROVE  FilesInv'
<1>1. TypeOK'
  BY DEF FilesInv, TakeSample, GoTo, files, TypeOK, Place, Within
<1>. QED  BY <1>1, GoesOnKeeps DEF TakeSample, files, Within

LEMMA WakeKeeps ==
  ASSUME FilesInv, NEW a \in Writer, Wake(a)
  PROVE  FilesInv'
<1>1. TypeOK /\ day \in 0..MaxDay
  BY SadcAssumption DEF FilesInv, TypeOK, Day
<1>2. PICK d \in 0..MaxDay : due' = [due EXCEPT ![a] = d]
  <2>1. (IF day # ofile[a] THEN day ELSE 0) \in 0..MaxDay
    BY <1>1, SadcAssumption
  <2>. QED  BY <2>1 DEF Wake
<1>3. TypeOK'
  BY <1>1, <1>2 DEF Wake, GoTo, files, TypeOK, Place, Within
<1>4. \A u \in Writer : u # a => due'[u] = due[u]
  BY <1>1, <1>2 DEF TypeOK
<1>. QED  BY <1>3, <1>4, GoesOnKeeps DEF Wake, files, Within

\* Giving the lock up.
LEMMA LeavesKeeps ==
  ASSUME FilesInv, TypeOK', NEW a \in Writer, NEW x \in {"open", "done", "dead"}, GoTo(a, x),
         Unlock(a), UNCHANGED <<kind, append, at, list, flagged, file>>,
         \A f \in Day : accident[f] \subseteq accident'[f],
         pc[a] \in {"wlist", "body"} => accident'[ofile[a]] # {},
         \A u \in Writer : u # a => due'[u] = due[u] /\ ofile'[u] = ofile[u]
  PROVE  FilesInv'
<1>1. TypeOK
  BY DEF FilesInv
<1>2. pc'[a] = x /\ (\A f \in Day : a \notin lock'[f]) /\ Only(a)
  BY <1>1 DEF GoTo, Unlock, Only, TypeOK
<1>3. LockOf(a) /\ Placed(a)' /\ Knows(a, file[ofile[a]])'
  BY <1>2 DEF LockOf, Placed, Knows, Within
<1>. QED  BY <1>2, <1>3, ReadKeeps

LEMMA RotateKeeps ==
  ASSUME FilesInv, NEW a \in Writer, Rotate(a)
  PROVE  FilesInv'
<1>1. TypeOK /\ due[a] \in Day /\ pc[a] = "rotate"
  BY SadcAssumption DEF FilesInv, TypeOK, Placed, Rotate, Day
<1>2. TypeOK'
  BY <1>1, SadcAssumption DEF Rotate, GoTo, Unlock, TypeOK, Place
<1>3. \A u \in Writer : u # a => due'[u] = due[u] /\ ofile'[u] = ofile[u]
  BY <1>1 DEF Rotate, TypeOK
<1>. QED  BY <1>1, <1>2, <1>3, LeavesKeeps DEF Rotate

LEMMA EndOfTurnKeeps ==
  ASSUME FilesInv, NEW a \in Writer, EndOfTurn(a)
  PROVE  FilesInv'
<1>1. TypeOK /\ pc[a] = "end"
  BY DEF FilesInv, EndOfTurn
<1>2. CASE GoTo(a, "done") /\ Unlock(a)
  <2>1. TypeOK'
    BY <1>1, <1>2 DEF EndOfTurn, GoTo, Unlock, TypeOK, Place
  <2>. QED  BY <1>1, <1>2, <2>1, LeavesKeeps DEF EndOfTurn
<1>3. CASE GoTo(a, "pause") /\ UNCHANGED lock
  <2>1. TypeOK'
    BY <1>1, <1>3 DEF EndOfTurn, GoTo, TypeOK, Place, Within
  <2>. QED  BY <1>1, <1>3, <2>1, GoesOnKeeps DEF EndOfTurn, Within
<1>. QED  BY <1>2, <1>3 DEF EndOfTurn

LEMMA DieKeeps ==
  ASSUME FilesInv, NEW a \in Writer, Die(a)
  PROVE  FilesInv'
<1>1. TypeOK /\ ofile[a] \in Day
  BY DEF FilesInv, TypeOK
<1>2. /\ accident' \in [Day -> SUBSET {"unlocked", "emptied", "torn"}]
      /\ \A f \in Day : accident[f] \subseteq accident'[f]
      /\ pc[a] \in {"wlist", "body"} => accident'[ofile[a]] # {}
  <2>1. CASE pc[a] \in {"wlist", "body"}
    BY <1>1, <2>1 DEF Die, TypeOK
  <2>2. CASE pc[a] \notin {"wlist", "body"}
    BY <1>1, <2>2 DEF Die, TypeOK
  <2>. QED  BY <2>1, <2>2
<1>3. TypeOK'
  BY <1>1, <1>2 DEF Die, GoTo, Unlock, TypeOK, Place
<1>. QED  BY <1>2, <1>3, LeavesKeeps DEF Die

\* The day, the pipe and sar are in no one's way.
LEMMA AsideKeeps ==
  ASSUME FilesInv, day' \in Day,
         UNCHANGED <<files, kind, pc, ofile, append, at, list, flagged, due>>
  PROVE  FilesInv'
BY DEF FilesInv, TypeOK, files, Placed, Locked, Knows, Whole, Writing, Careful, Holds, RecordOf

-----------------------------------------------------------------------------
(* Writing *)

\* What write_all does whatever the position.
LEMMA PutType ==
  ASSUME TypeOK, NEW w \in Writer, NEW item \in Item, NEW held \in BOOLEAN, Put(w, item, held)
  PROVE  /\ \E s \in Seq(Item) : file' = [file EXCEPT ![ofile[w]] = s]
         /\ at' \in [Writer -> Nat] /\ \A u \in Writer : u # w => at'[u] = at[u]
         /\ accident' \in [Day -> SUBSET {"unlocked", "emptied", "torn"}]
         /\ \A f \in Day : accident[f] \subseteq accident'[f]
         /\ accident'[ofile[w]] = {} =>
              accident[ofile[w]] = {} /\ (held \/ (Careful(w) /\ ~flagged[w]))
<1>. DEFINE f == ofile[w]
            size == Len(file[f])
            pos == IF append[w] THEN size + 1 ELSE at[w] + 1
            s == [i \in 1..(IF pos > size THEN pos ELSE size) |->
                    IF i = pos THEN item ELSE IF i <= size THEN file[f][i] ELSE Hole]
<1>1. f \in Day /\ file[f] \in Seq(Item) /\ size \in Nat /\ pos \in Nat
  BY DEF TypeOK
<1>2. s \in Seq(Item)
  <2>. DEFINE n == IF pos > size THEN pos ELSE size
              v(i) == IF i = pos THEN item ELSE IF i <= size THEN file[f][i] ELSE Hole
  <2>1. n \in Nat
    BY <1>1
  <2>2. Hole \in Item
    BY DEF Hole, Item
  <2>3. \A i \in 1..n : v(i) \in Item
    <3>1. ASSUME NEW i \in 1..n, i <= size PROVE file[f][i] \in Item
      <4>1. i \in 1..Len(file[f])
        BY <1>1, <2>1, <3>1
      <4>. QED  BY <1>1, <4>1
    <3>. HIDE DEF pos, size, n
    <3>. QED  BY <2>2, <3>1
  <2>4. [i \in 1..n |-> v(i)] \in [1..n -> Item]
    <3>. HIDE DEF v, n
    <3>. QED  BY <2>3
  <2>5. [1..n -> Item] \subseteq Seq(Item)
    <3>. HIDE DEF n
    <3>. QED  BY <2>1
  <2>. QED  BY <2>4, <2>5
<1>3. file' = [file EXCEPT ![f] = s] /\ at' = [at EXCEPT ![w] = pos]
  BY DEF Put
<1>4. \E x \in Seq(Item) : file' = [file EXCEPT ![f] = x]
  <2>. HIDE DEF s
  <2>. QED  BY <1>2, <1>3
<1>5. at' \in [Writer -> Nat] /\ \A u \in Writer : u # w => at'[u] = at[u]
  <2>. HIDE DEF pos
  <2>. QED  BY <1>1, <1>3 DEF TypeOK
<1>6. accident' = [accident EXCEPT ![f] =
         IF ~held /\ (~Careful(w) \/ flagged[w]) THEN @ \cup {"unlocked"} ELSE @]
  BY DEF Put
<1>. HIDE DEF f
<1>7. CASE ~held /\ (~Careful(w) \/ flagged[w])
  <2>1. accident' = [accident EXCEPT ![f] = accident[f] \cup {"unlocked"}]
    BY <1>6, <1>7
  <2>. QED  BY <1>1, <1>4, <1>5, <2>1 DEF TypeOK, f
<1>8. CASE ~(~held /\ (~Careful(w) \/ flagged[w]))
  <2>1. accident' = accident
    BY <1>1, <1>6, <1>8 DEF TypeOK
  <2>2. held \/ (Careful(w) /\ ~flagged[w])
    BY <1>8 DEF TypeOK
  <2>. QED  BY <1>1, <1>4, <1>5, <2>1, <2>2 DEF TypeOK, f
<1>. QED  BY <1>7, <1>8

LEMMA TruncateKeeps ==
  ASSUME FilesInv, NEW a \in Writer, Truncate(a)
  PROVE  FilesInv'
<1>. DEFINE f == ofile[a]
<1>1. TypeOK /\ pc[a] = "truncate" /\ f \in Day /\ Placed(a) /\ Locked(f)
  BY DEF FilesInv, TypeOK, Truncate
<1>2. UNCHANGED <<day, lock, kind, ofile, append, at, list, flagged, due>>
      /\ file' = [file EXCEPT ![f] = <<>>]
  BY DEF Truncate
<1>3. /\ accident' \in [Day -> SUBSET {"unlocked", "emptied", "torn"}]
      /\ \A g \in Day : accident[g] \subseteq accident'[g]
      /\ accident'[f] = {} => Holds(a) /\ ~Valuable(file[f])
  <2>1. CASE ~Holds(a) /\ ~Careful(a)
    <3>1. accident' = [accident EXCEPT ![f] = @ \cup {"unlocked"}]
      BY <2>1 DEF Truncate
    <3>. QED  BY <1>1, <3>1 DEF TypeOK
  <2>2. CASE ~(~Holds(a) /\ ~Careful(a)) /\ Valuable(file[f])
    <3>1. accident' = [accident EXCEPT ![f] = @ \cup {"emptied"}]
      BY <2>2 DEF Truncate
    <3>. QED  BY <1>1, <3>1 DEF TypeOK
  <2>3. CASE ~(~Holds(a) /\ ~Careful(a)) /\ ~Valuable(file[f])
    <3>1. accident' = [accident EXCEPT ![f] = @]
      BY <2>3 DEF Truncate
    <3>2. Holds(a)
      BY <1>1, <2>3 DEF Placed
    <3>. QED  BY <1>1, <2>3, <3>1, <3>2 DEF TypeOK
  <2>. QED  BY <2>1, <2>2, <2>3
<1>4. TypeOK'
  BY <1>1, <1>2, <1>3 DEF TypeOK, Truncate, GoTo, Place, Making
<1>5. Only(a) /\ pc'[a] = "wmagic"
  BY <1>1, <1>2 DEF Only, Truncate, GoTo, TypeOK
<1>6. LockOf(a)
  BY <1>2, <1>5 DEF FilesInv, Locked, LockOf, Careful, Making
<1>7. Placed(a)'
  BY <1>1, <1>2, <1>5 DEF Placed
<1>8. Holds(a) => Holds(a)' /\ Knows(a, <<>>)'
  BY <1>2, <1>5 DEF Knows, Holds, Within
<1>9. Whole(f)'
  BY <1>1, <1>2, <1>5 DEF Whole, TypeOK
<1>. QED  BY <1>2, <1>3, <1>4, <1>5, <1>6, <1>7, <1>8, <1>9, WriteKeeps

\* Writing e at the end, with the lock.
LEMMA EndWriteKeeps ==
  ASSUME FilesInv, TypeOK', NEW a \in Writer, NEW e \in Item, NEW held \in BOOLEAN, Put(a, e, held),
         Only(a), LockOf(a), Placed(a)', UNCHANGED <<ofile, append>>,
         accident'[ofile[a]] = {} => append[a] \/ at[a] = Len(file[ofile[a]]),
         \A s \in Seq(Item) :
           /\ accident'[ofile[a]] = {}
           /\ s = Append(file[ofile[a]], e) /\ at'[a] = Len(s) /\ file'[ofile[a]] = s
           => /\ Holds(a)' /\ Knows(a, s)' /\ Whole(ofile[a])'
              /\ Headed(file[ofile[a]]) => Headed(s) /\ s[2].of = file[ofile[a]][2].of
  PROVE  FilesInv'
<1>. DEFINE f == ofile[a]
<1>1. TypeOK /\ f \in Day /\ file[f] \in Seq(Item)
  BY DEF FilesInv, TypeOK
<1>2. \A g \in Day : accident[g] \subseteq accident'[g]
  BY <1>1, PutType
<1>3. PICK s \in Seq(Item) : file' = [file EXCEPT ![f] = s]
  BY <1>1, PutType
<1>4. file'[f] = s
  BY <1>1, <1>3 DEF TypeOK
<1>5. ASSUME accident'[f] = {}
      PROVE  /\ Holds(a)' /\ Knows(a, s)' /\ Whole(ofile[a])'
             /\ Valuable(file[f]) /\ Headed(file[f]) => Headed(s) /\ s[2].of = file[f][2].of
  <2>1. append[a] \/ at[a] = Len(file[f])
    BY <1>5
  <2>2. file' = [file EXCEPT ![f] = Append(file[f], e)] /\ at'[a] = Len(file[f]) + 1
    BY <1>1, <2>1, PutAppends
  <2>3. file'[f] = Append(file[f], e)
    BY <1>1, <2>2 DEF TypeOK
  <2>4. s = Append(file[f], e) /\ at'[a] = Len(s)
    BY <1>1, <1>4, <2>2, <2>3
  <2>. QED  BY <1>4, <1>5, <2>4
<1>. QED  BY <1>2, <1>3, <1>5, WriteKeeps

LEMMA WriteMagicKeeps ==
  ASSUME FilesInv, NEW a \in Writer, WriteMagic(a)
  PROVE  FilesInv'
<1>. DEFINE f == ofile[a]
<1>1. /\ TypeOK /\ pc[a] = "wmagic" /\ f \in Day /\ Placed(a) /\ file[f] \in Seq(Item)
      /\ accident[f] = {} => Knows(a, file[f])
  BY DEF FilesInv, TypeOK, WriteMagic
<1>2. Put(a, Magic, Holds(a)) /\ GoTo(a, "wlist")
      /\ UNCHANGED <<day, lock, kind, ofile, append, list, flagged, due>>
  BY DEF WriteMagic
<1>3. Magic \in Item /\ Holds(a) \in BOOLEAN
  BY DEF Magic, Item, Holds
<1>4. /\ \E s \in Seq(Item) : file' = [file EXCEPT ![f] = s]
      /\ at' \in [Writer -> Nat] /\ \A u \in Writer : u # a => at'[u] = at[u]
      /\ accident' \in [Day -> SUBSET {"unlocked", "emptied", "torn"}]
      /\ accident'[f] = {} => accident[f] = {}
  BY <1>1, <1>2, <1>3, PutType
<1>5. TypeOK'
  <2>1. file' \in [Day -> Seq(Item)]
    BY <1>1, <1>4 DEF TypeOK
  <2>2. pc' \in [Writer -> Place]
    BY <1>1, <1>2 DEF TypeOK, GoTo, Place, Making
  <2>. QED  BY <1>1, <1>2, <1>4, <2>1, <2>2 DEF TypeOK
<1>6. Only(a) /\ pc'[a] = "wlist"
  BY <1>1, <1>2, <1>4 DEF Only, GoTo, TypeOK
<1>7. LockOf(a)
  BY <1>2, <1>6 DEF FilesInv, Locked, LockOf, Careful, Making
<1>8. Placed(a)'
  BY <1>1, <1>2, <1>6 DEF Placed
<1>9. accident'[f] = {} => file[f] = <<>> /\ at[a] = Len(file[f]) /\ Holds(a)'
  <2>1. accident'[f] = {} => file[f] = <<>> /\ Holds(a) /\ at[a] = 0
    BY <1>1, <1>4 DEF Knows, Placed
  <2>. QED  BY <1>2, <2>1 DEF Holds
<1>10. ASSUME NEW s \in Seq(Item), accident'[f] = {}, s = Append(file[f], Magic), at'[a] = Len(s),
              file'[f] = s
       PROVE  /\ Holds(a)' /\ Knows(a, s)' /\ Whole(ofile[a])'
              /\ Headed(file[f]) => Headed(s) /\ s[2].of = file[f][2].of
  <2>1. s = <<Magic>> /\ Len(s) = 1 /\ ~Headed(file[f])
    <3>1. file[f] = <<>> /\ s = Append(<<>>, Magic)
      BY <1>9, <1>10
    <3>2. Append(<<>>, Magic) = <<Magic>> /\ Len(<<Magic>>) = 1 /\ ~(Len(<<>>) > 1)
      OBVIOUS
    <3>. QED  BY <3>1, <3>2 DEF Headed
  <2>2. Knows(a, s)'
    BY <1>6, <1>9, <1>10, <2>1 DEF Knows, Within
  <2>3. Whole(ofile[a])'
    <3>1. Writing(ofile[a])'
      BY <1>2, <1>6 DEF Writing
    <3>. QED  BY <1>2, <1>10, <2>1, <3>1 DEF Whole
  <2>. QED  BY <1>9, <1>10, <2>1, <2>2, <2>3
<1>. QED  BY <1>2, <1>3, <1>5, <1>6, <1>7, <1>8, <1>9, <1>10, EndWriteKeeps

LEMMA WriteListKeeps ==
  ASSUME FilesInv, NEW a \in Writer, WriteList(a)
  PROVE  FilesInv'
<1>. DEFINE f == ofile[a]  e == List(list[a])
<1>1. /\ TypeOK /\ pc[a] = "wlist" /\ f \in Day /\ Placed(a) /\ file[f] \in Seq(Item)
      /\ accident[f] = {} => Knows(a, file[f])
  BY DEF FilesInv, TypeOK, WriteList
<1>2. Put(a, e, Holds(a)) /\ GoTo(a, Opened(a)) /\ Opened(a) \in {"header", "save", "take"}
      /\ UNCHANGED <<day, lock, kind, ofile, append, list, flagged, due>>
  BY DEF WriteList, Opened
<1>3. e \in Item /\ Holds(a) \in BOOLEAN /\ e.k = "list" /\ e.of = list[a]
  BY <1>1 DEF List, Item, Holds, TypeOK
<1>. HIDE DEF e
<1>4. /\ \E s \in Seq(Item) : file' = [file EXCEPT ![f] = s]
      /\ at' \in [Writer -> Nat] /\ \A u \in Writer : u # a => at'[u] = at[u]
      /\ accident' \in [Day -> SUBSET {"unlocked", "emptied", "torn"}]
      /\ accident'[f] = {} => accident[f] = {}
  BY <1>1, <1>2, <1>3, PutType
<1>5. TypeOK'
  <2>1. file' \in [Day -> Seq(Item)]
    BY <1>1, <1>4 DEF TypeOK
  <2>2. pc' \in [Writer -> Place]
    BY <1>1, <1>2 DEF TypeOK, GoTo, Place, Within
  <2>. QED  BY <1>1, <1>2, <1>4, <2>1, <2>2 DEF TypeOK
<1>6. Only(a) /\ pc'[a] \in {"header", "save", "take"} /\ list'[a] = list[a] /\ append'[a] = append[a]
  BY <1>1, <1>2, <1>4 DEF Only, GoTo, TypeOK
<1>7. LockOf(a)
  BY <1>2, <1>6 DEF FilesInv, Locked, LockOf, Careful, Within
<1>8. Placed(a)'
  BY <1>6 DEF Placed
<1>9. ~append[a] /\ (accident'[f] = {} => file[f] = <<Magic>> /\ at[a] = Len(file[f]) /\ Holds(a)')
  <2>1. accident'[f] = {} => file[f] = <<Magic>> /\ Holds(a) /\ at[a] = 1
    BY <1>1, <1>4 DEF Knows
  <2>2. ~append[a]
    BY <1>1 DEF Placed
  <2>. QED  BY <1>2, <2>1, <2>2 DEF Holds
<1>10. ASSUME NEW s \in Seq(Item), accident'[f] = {}, s = Append(file[f], e), at'[a] = Len(s),
              file'[f] = s
       PROVE  /\ Holds(a)' /\ Knows(a, s)' /\ Whole(ofile[a])'
              /\ Headed(file[f]) => Headed(s) /\ s[2].of = file[f][2].of
  <2>1. Len(s) = 2 /\ s[1] = Magic /\ s[2] = e /\ ~Headed(file[f])
    <3>1. file[f] = <<Magic>> /\ Len(file[f]) = 1 /\ file[f][1] = Magic
      <4>1. Len(<<Magic>>) = 1 /\ <<Magic>>[1] = Magic
        OBVIOUS
      <4>. QED  BY <1>9, <1>10, <4>1
    <3>2. Len(s) = Len(file[f]) + 1 /\ s[Len(file[f]) + 1] = e /\ s[1] = file[f][1]
      BY <1>1, <1>3, <1>10, <3>1, AppendProperties
    <3>. QED  BY <3>1, <3>2 DEF Headed
  <2>2. Knows(a, s)'
    BY <1>3, <1>6, <1>9, <1>10, <2>1 DEF Knows, Within
  <2>3. Whole(ofile[a])'
    <3>1. Headed(s) /\ Proper(s)
      BY <1>3, <2>1 DEF Headed, Proper
    <3>2. ~Half(s)
      BY <1>3, <2>1, Items DEF Half
    <3>3. file'[ofile'[a]] = s
      BY <1>2, <1>10
    <3>. QED  BY <3>1, <3>2, <3>3 DEF Whole, Headed, Proper, Half
  <2>. QED  BY <1>9, <1>10, <2>1, <2>2, <2>3
<1>. QED  BY <1>2, <1>3, <1>5, <1>6, <1>7, <1>8, <1>9, <1>10, EndWriteKeeps

\* A process that may write, with its file open: what it finds at the end of the file.
LEMMA AtTheEnd ==
  ASSUME FilesInv, NEW a \in Writer, pc[a] \in Within, accident[ofile[a]] = {}
  PROVE  LET s == file[ofile[a]] IN
         /\ append[a] \/ at[a] = Len(s)
         /\ Headed(s) /\ Proper(s) /\ s[2].of = list[a]
         /\ Half(s) => Writing(ofile[a])
<1>. DEFINE f == ofile[a]  s == file[f]
<1>1. f \in Day /\ Knows(a, s) /\ Whole(f) /\ append \in [Writer -> BOOLEAN]
  BY DEF FilesInv, TypeOK
<1>2. (append[a] \/ at[a] = Len(s)) /\ Headed(s) /\ s[2].of = list[a]
  BY <1>1 DEF Knows, Headed
<1>3. ~(s \in {<<>>, <<Foreign>>}) /\ s # <<Magic>>
  <2>. HIDE DEF s
  <2>1. ~(Len(<<>>) > 1) /\ ~(Len(<<Foreign>>) > 1) /\ ~(Len(<<Magic>>) > 1)
    OBVIOUS
  <2>. QED  BY <1>2, <2>1 DEF Headed
<1>. QED  BY <1>1, <1>2, <1>3, WholeParts

LEMMA WriteRecordKeeps ==
  ASSUME FilesInv, NEW a \in Writer, WriteRecord(a)
  PROVE  FilesInv'
<1>. DEFINE f == ofile[a]  e == RecordOf(a)
            x == IF kind[a] = "boot" THEN "end" ELSE "body"
<1>1. /\ TypeOK /\ pc[a] = "save" /\ f \in Day /\ file[f] \in Seq(Item) /\ Locked(f)
      /\ accident[f] = {} => Knows(a, file[f])
  BY DEF FilesInv, TypeOK, WriteRecord
<1>2. UNCHANGED <<day, kind, ofile, append, list, due>>
  BY DEF WriteRecord
<1>3. /\ e \in Item /\ e.k = "rec" /\ (kind[a] = "boot" => e \notin {Rec("stats"), Rec("comment")})
      /\ e \in {Rec("restart"), Rec("comment"), Rec("stats")}
  <2>1. e \in {Rec("restart"), Rec("comment"), Rec("stats")}
    BY DEF RecordOf
  <2>2. Rec("restart") \in Item /\ Rec("comment") \in Item /\ Rec("stats") \in Item
    BY DEF Rec, Item
  <2>3. Rec("restart") # Rec("comment") /\ Rec("restart") # Rec("stats")
    BY Items
  <2>4. kind[a] = "boot" => e = Rec("restart")
    BY DEF RecordOf
  <2>. HIDE DEF e
  <2>. QED  BY <2>1, <2>2, <2>3, <2>4, Items
<1>4. ASSUME NEW held \in BOOLEAN, Put(a, e, held), GoTo(a, x), flagged' \in [Writer -> BOOLEAN],
             lock' \in [Day -> SUBSET Writer], \A u \in Writer : u # a => flagged'[u] = flagged[u],
             \A u \in Writer : u # a => \A g \in Day : u \in lock'[g] <=> u \in lock[g],
             \A g \in Day : a \in lock'[g] => /\ a \in lock[g] \/ lock[g] = {}
                                              /\ f = g /\ Careful(a) /\ flagged'[a],
             accident'[f] = {} => Holds(a)' /\ (Holds(a) \/ Free(a))
      PROVE  FilesInv'
  <2>1. /\ \E s \in Seq(Item) : file' = [file EXCEPT ![f] = s]
        /\ at' \in [Writer -> Nat] /\ \A u \in Writer : u # a => at'[u] = at[u]
        /\ accident' \in [Day -> SUBSET {"unlocked", "emptied", "torn"}]
        /\ accident'[f] = {} => accident[f] = {}
    <3>. HIDE DEF e
    <3>. QED  BY <1>1, <1>3, <1>4, PutType
  <2>2. x \in {"end", "body"}
    OBVIOUS
  <2>3. TypeOK'
    <3>1. file' \in [Day -> Seq(Item)]
      BY <1>1, <2>1 DEF TypeOK
    <3>2. pc' \in [Writer -> Place]
      BY <1>1, <1>4, <2>2 DEF TypeOK, GoTo, Place, Within
    <3>. QED  BY <1>1, <1>2, <1>4, <2>1, <3>1, <3>2 DEF TypeOK
  <2>4. Only(a) /\ pc'[a] = x /\ list'[a] = list[a] /\ append'[a] = append[a]
    BY <1>1, <1>2, <1>4, <2>1 DEF Only, GoTo, TypeOK
  <2>5. LockOf(a)
    BY <1>2, <1>4, <2>2, <2>4 DEF LockOf, Within
  <2>6. Placed(a)'
    BY <1>2, <2>4 DEF Placed
  <2>7. accident'[f] = {} =>
          /\ append[a] \/ at[a] = Len(file[f])
          /\ Headed(file[f]) /\ Proper(file[f]) /\ file[f][2].of = list[a] /\ ~Half(file[f])
    BY <1>1, <1>4, <2>1, NoHalf, AtTheEnd DEF Within
  <2>8. ASSUME NEW s \in Seq(Item), accident'[f] = {}, s = Append(file[f], e), at'[a] = Len(s),
               file'[f] = s
        PROVE  /\ Holds(a)' /\ Knows(a, s)' /\ Whole(ofile[a])'
               /\ Headed(file[f]) => Headed(s) /\ s[2].of = file[f][2].of
    <3>1. /\ Headed(s) /\ s[2].of = file[f][2].of /\ s[Len(s)] = e /\ Proper(s)
      <4>1. (CASE file[f][Len(file[f])] = Rec("stats")   -> e = Stats(file[f][2].of)
               [] file[f][Len(file[f])] = Rec("comment") -> e = Text
               [] OTHER                                  -> e.k = "rec")
        BY <1>3, <2>7, <2>8 DEF Half
      <4>. DEFINE t == file[f]
      <4>2. t \in Seq(Item) /\ e \in Item /\ Headed(t) /\ Proper(t) /\ s = Append(t, e)
        BY <1>1, <1>3, <2>7, <2>8
      <4>. HIDE DEF e, t
      <4>3. /\ Headed(s) /\ s[2].of = t[2].of /\ s[Len(s)] = e
            /\ (CASE t[Len(t)] = Rec("stats")   -> e = Stats(t[2].of)
                  [] t[Len(t)] = Rec("comment") -> e = Text
                  [] OTHER                      -> e.k = "rec") => Proper(s)
        BY <4>2, AppendParts
      <4>. QED  BY <4>1, <4>3 DEF t
    <3>2. Knows(a, s)'
      <4>1. accident[f] = {} /\ (append[a] => list[a] \notin Unfit)
        BY <1>1, <2>1, <2>8 DEF Knows, Within
      <4>2. RecordOf(a)' = e
        BY <1>2, <2>4 DEF RecordOf
      <4>3. Len(s) > 1 /\ s[1] = Magic /\ s[2].k = "list" /\ s[2].of = list[a]
        BY <2>7, <2>8, <3>1 DEF Headed
      <4>. HIDE DEF e
      <4>. QED  BY <1>4, <2>2, <2>4, <2>8, <3>1, <4>1, <4>2, <4>3 DEF Knows, Within
    <3>3. Whole(ofile[a])'
      <4>1. Half(s) => Writing(ofile[a])'
        BY <1>2, <1>3, <2>4, <3>1 DEF Half, Writing
      <4>2. file'[ofile'[a]] = s
        BY <1>2, <2>8
      <4>. QED  BY <3>1, <4>1, <4>2 DEF Whole, Headed, Proper, Half
    <3>. QED  BY <1>4, <2>8, <3>1, <3>2, <3>3
  <2>. HIDE DEF e
  <2>. QED  BY <1>2, <1>3, <1>4, <2>3, <2>4, <2>5, <2>6, <2>7, <2>8, EndWriteKeeps
<1>5. CASE /\ flagged[a] \/ ~Careful(a)
           /\ Put(a, e, Holds(a)) /\ GoTo(a, x) /\ UNCHANGED <<lock, flagged>>
  <2>1. Holds(a) \in BOOLEAN
    BY DEF Holds
  <2>2. accident'[f] = {} => Holds(a)' /\ Holds(a)
    <3>1. accident'[f] = {} => Holds(a)
      <4>. HIDE DEF e
      <4>. QED  BY <1>1, <1>3, <1>5, <2>1, PutType
    <3>. QED  BY <1>2, <1>5, <3>1 DEF Holds
  <2>3. \A g \in Day : a \in lock'[g] => a \in lock[g] /\ f = g /\ Careful(a) /\ flagged'[a]
    BY <1>5 DEF FilesInv, Locked
  <2>. HIDE DEF e, x
  <2>. QED  BY <1>1, <1>4, <1>5, <2>1, <2>2, <2>3 DEF TypeOK
<1>6. CASE /\ ~flagged[a] /\ Careful(a) /\ Free(a) /\ TakeLock(a)
           /\ Put(a, e, TRUE) /\ GoTo(a, x)
  <2>1. /\ lock' = [lock EXCEPT ![f] = {a}] /\ flagged' = [flagged EXCEPT ![a] = TRUE]
        /\ lock[f] = {}
    BY <1>6 DEF TakeLock, Free
  <2>2. /\ lock' \in [Day -> SUBSET Writer] /\ flagged' \in [Writer -> BOOLEAN]
        /\ flagged'[a] /\ lock'[f] = {a} /\ \A g \in Day : g # f => lock'[g] = lock[g]
        /\ \A u \in Writer : u # a => flagged'[u] = flagged[u]
    BY <1>1, <2>1 DEF TypeOK
  <2>3. \A g \in Day : a \in lock'[g] => (a \in lock[g] \/ lock[g] = {}) /\ f = g
    <3>1. \A g \in Day : a \in lock[g] => FALSE
      BY <1>6 DEF FilesInv, Locked
    <3>. QED  BY <2>1, <2>2, <3>1
  <2>4. Holds(a)' /\ Free(a)
    BY <1>2, <1>6, <2>2 DEF Holds
  <2>5. \A u \in Writer : u # a => \A g \in Day : u \in lock'[g] <=> u \in lock[g]
    BY <2>1, <2>2
  <2>. HIDE DEF e, x
  <2>. QED  BY <1>4, <1>6, <2>2, <2>3, <2>4, <2>5
<1>7. CASE Exit(a) /\ UNCHANGED <<made, file, at, accident, flagged>>
  <2>1. TypeOK'
    BY <1>1, <1>2, <1>7 DEF Exit, GoTo, Unlock, TypeOK, Place
  <2>. QED  BY <1>1, <1>2, <1>7, <2>1, ExitKeeps
<1>8. CASE GoTo(a, Saved(a)) /\ UNCHANGED <<lock, made, file, at, accident, flagged>>
  <2>1. Saved(a) \in {"rotate", "end"} /\ (Saved(a) = "rotate" => due'[a] # 0)
    BY <1>2 DEF Saved
  <2>2. TypeOK'
    BY <1>1, <1>2, <1>8, <2>1 DEF GoTo, TypeOK, Place, Within
  <2>. QED  BY <1>1, <1>2, <1>8, <2>1, <2>2, GoesOnKeeps DEF Within
<1>. QED  BY <1>5, <1>6, <1>7, <1>8 DEF WriteRecord

LEMMA WriteBodyKeeps ==
  ASSUME FilesInv, NEW a \in Writer, WriteBody(a)
  PROVE  FilesInv'
<1>. DEFINE f == ofile[a]  e == BodyOf(a)
<1>1. /\ TypeOK /\ pc[a] = "body" /\ f \in Day /\ file[f] \in Seq(Item) /\ Placed(a)
      /\ accident[f] = {} => Knows(a, file[f])
  BY DEF FilesInv, TypeOK, WriteBody
<1>2. Put(a, e, Holds(a)) /\ GoTo(a, Saved(a)) /\ Holds(a) \in BOOLEAN
      /\ UNCHANGED <<day, lock, kind, ofile, append, list, flagged, due>>
  BY DEF WriteBody, Holds
<1>3. e \in Item /\ e.k # "rec"
  <2>1. Text \in Item /\ Text.k # "rec" /\ Stats(list[a]) \in Item /\ Stats(list[a]).k # "rec"
    BY <1>1 DEF Text, Stats, Item, TypeOK
  <2>. QED  BY <2>1 DEF BodyOf
<1>4. RecordOf(a) \in {Rec("comment"), Rec("stats")} /\ Rec("comment") # Rec("stats")
      /\ (RecordOf(a) = Rec("stats") => e = Stats(list[a]))
      /\ (RecordOf(a) = Rec("comment") => e = Text)
  <2>1. Rec("comment") # Rec("stats")
    BY Items
  <2>2. kind[a] # "boot"
    BY <1>1 DEF Placed
  <2>3. CASE kind[a] = "note"
    BY <2>1, <2>3 DEF RecordOf, BodyOf
  <2>4. CASE kind[a] # "note"
    BY <2>1, <2>2, <2>4 DEF RecordOf, BodyOf
  <2>. QED  BY <2>3, <2>4
<1>. HIDE DEF e
<1>5. Saved(a) \in {"rotate", "end"} /\ (Saved(a) = "rotate" => due'[a] # 0)
  BY <1>2 DEF Saved
<1>6. /\ \E s \in Seq(Item) : file' = [file EXCEPT ![f] = s]
      /\ at' \in [Writer -> Nat] /\ \A u \in Writer : u # a => at'[u] = at[u]
      /\ accident' \in [Day -> SUBSET {"unlocked", "emptied", "torn"}]
      /\ accident'[f] = {} => accident[f] = {}
  BY <1>1, <1>2, <1>3, PutType
<1>7. TypeOK'
  <2>1. file' \in [Day -> Seq(Item)]
    BY <1>1, <1>6 DEF TypeOK
  <2>2. pc' \in [Writer -> Place]
    BY <1>1, <1>2, <1>5 DEF TypeOK, GoTo, Place, Within
  <2>. QED  BY <1>1, <1>2, <1>6, <2>1, <2>2 DEF TypeOK
<1>8. Only(a) /\ pc'[a] = Saved(a) /\ list'[a] = list[a] /\ append'[a] = append[a]
  BY <1>1, <1>2, <1>6 DEF Only, GoTo, TypeOK
<1>9. LockOf(a)
  BY <1>2, <1>5, <1>8 DEF FilesInv, Locked, LockOf, Careful, Within
<1>10. Placed(a)'
  BY <1>5, <1>8 DEF Placed
<1>11. accident'[f] = {} =>
         /\ append[a] \/ at[a] = Len(file[f])
         /\ Headed(file[f]) /\ Proper(file[f]) /\ file[f][2].of = list[a]
         /\ file[f][Len(file[f])] = RecordOf(a) /\ Holds(a) /\ (append[a] => list[a] \notin Unfit)
  BY <1>1, <1>6, AtTheEnd DEF Knows, Within
<1>12. ASSUME NEW s \in Seq(Item), accident'[f] = {}, s = Append(file[f], e), at'[a] = Len(s),
              file'[f] = s
       PROVE  /\ Holds(a)' /\ Knows(a, s)' /\ Whole(ofile[a])'
              /\ Headed(file[f]) => Headed(s) /\ s[2].of = file[f][2].of
  <2>1. /\ Headed(s) /\ s[2].of = file[f][2].of /\ s[Len(s)] = e /\ Proper(s)
    <3>. DEFINE t == file[f]
    <3>1. (CASE t[Len(t)] = Rec("stats")   -> e = Stats(t[2].of)
             [] t[Len(t)] = Rec("comment") -> e = Text
             [] OTHER                      -> e.k = "rec")
      BY <1>4, <1>11, <1>12
    <3>2. t \in Seq(Item) /\ e \in Item /\ Headed(t) /\ Proper(t) /\ s = Append(t, e)
      BY <1>1, <1>3, <1>11, <1>12
    <3>. HIDE DEF t
    <3>3. /\ Headed(s) /\ s[2].of = t[2].of /\ s[Len(s)] = e
          /\ (CASE t[Len(t)] = Rec("stats")   -> e = Stats(t[2].of)
                [] t[Len(t)] = Rec("comment") -> e = Text
                [] OTHER                      -> e.k = "rec") => Proper(s)
      BY <3>2, AppendParts
    <3>. QED  BY <3>1, <3>3 DEF t
  <2>2. Holds(a)'
    BY <1>2, <1>11, <1>12 DEF Holds
  <2>3. Knows(a, s)'
    <3>1. Len(s) > 1 /\ s[1] = Magic /\ s[2].k = "list" /\ s[2].of = list[a]
      BY <1>11, <1>12, <2>1 DEF Headed
    <3>. QED  BY <1>5, <1>8, <1>11, <1>12, <2>2, <3>1 DEF Knows, Within
  <2>4. Whole(ofile[a])'
    <3>1. ~Half(s)
      BY <1>3, <2>1, Items DEF Half
    <3>2. file'[ofile'[a]] = s
      BY <1>2, <1>12
    <3>. QED  BY <2>1, <3>1, <3>2 DEF Whole, Headed, Proper, Half
  <2>. QED  BY <2>1, <2>2, <2>3, <2>4
<1>. QED  BY <1>2, <1>3, <1>7, <1>8, <1>9, <1>10, <1>11, <1>12, EndWriteKeeps

-----------------------------------------------------------------------------
(* The theorem *)

LEMMA FilesInvInit == Init => FilesInv
<1>. SUFFICES ASSUME Init PROVE FilesInv
  OBVIOUS
<1>1. /\ \A w \in Writer : pc[w] = "off" /\ list[w] \in {"default", "all", "disk"}
      /\ \A f \in Day : lock[f] = {} /\ accident[f] = {}
      /\ 1 \in Day /\ 0 \in 0..MaxDay
  BY SadcAssumption DEF Init, Asked, Day
<1>2. ASSUME NEW f \in Day PROVE file[f] \in Seq(Item) /\ Whole(f)
  <2>1. PICK content \in Before : file[f] \in {content, <<>>}
    BY DEF Init
  <2>2. file[f] \in Before
    BY <2>1 DEF Before
  <2>3. CASE file[f] \in {<<>>, <<Foreign>>}
    <3>1. Foreign \in Item
      BY DEF Foreign, Item
    <3>2. <<>> \in Seq(Item) /\ <<Foreign>> \in Seq(Item)
      BY <3>1
    <3>. QED  BY <2>3, <3>2 DEF Whole
  <2>4. ASSUME NEW x \in {"old", "default"}, file[f] = <<Magic, List(x), Rec("restart")>>
        PROVE  file[f] \in Seq(Item) /\ Whole(f)
    <3>. DEFINE s == <<Magic, List(x), Rec("restart")>>
    <3>1. Magic \in Item /\ List(x) \in Item /\ Rec("restart") \in Item
      BY DEF Magic, List, Rec, Item, ListName
    <3>2. s \in Seq(Item) /\ Len(s) = 3 /\ s[1] = Magic /\ s[2] = List(x) /\ s[3] = Rec("restart")
      BY <3>1
    <3>. HIDE DEF s
    <3>3. Headed(s)
      BY <3>2, Items DEF Headed
    <3>4. ASSUME NEW i \in 3..Len(s)
          PROVE  (CASE s[i - 1] = Rec("stats")   -> s[i] = Stats(s[2].of)
                    [] s[i - 1] = Rec("comment") -> s[i] = Text
                    [] OTHER                     -> s[i].k = "rec")
      <4>1. i = 3 /\ i - 1 = 2
        BY <3>2
      <4>. QED  BY <3>2, <4>1, Items
    <3>5. Proper(s)
      BY <3>4 DEF Proper
    <3>6. ~Half(s)
      BY <3>2, Items DEF Half
    <3>7. file[f] = s
      BY <2>4 DEF s
    <3>. QED  BY <3>2, <3>3, <3>5, <3>6, <3>7, WholeParts
  <2>. QED  BY <2>2, <2>3, <2>4 DEF Before
<1>3. TypeOK
  <2>1. file \in [Day -> Seq(Item)]
    BY <1>2 DEF Init
  <2>2. kind \in [Writer -> Kind]
    BY SadcAssumption DEF Init
  <2>3. list \in [Writer -> ListName]
    BY DEF Init, Asked, ListName
  <2>. QED  BY <1>1, <2>1, <2>2, <2>3 DEF Init, TypeOK, Place
<1>4. (\A w \in Writer : Placed(w)) /\ (\A f \in Day : Locked(f))
  BY <1>1 DEF Placed, Locked
<1>5. \A w \in Writer : Knows(w, file[ofile[w]])
  BY <1>1 DEF Knows, Within
<1>. QED  BY <1>2, <1>3, <1>4, <1>5 DEF FilesInv

LEMMA FilesInvStep == FilesInv /\ [Next]_vars => FilesInv'
<1>. SUFFICES ASSUME FilesInv, [Next]_vars PROVE FilesInv'
  OBVIOUS
<1>1. ASSUME NEW a \in Writer, Sadc(a) PROVE FilesInv'
  BY <1>1, StartKeeps, FindKeeps, ReadMagicKeeps, ReadListKeeps, OpenNewKeeps, LockNewKeeps,
     TruncateKeeps, WriteMagicKeeps, WriteListKeeps, PipeHeaderKeeps, TakeSampleKeeps,
     WriteRecordKeeps, WriteBodyKeeps, RotateKeeps, EndOfTurnKeeps, WakeKeeps DEF Sadc
<1>2. ASSUME NEW a \in Writer, Die(a) PROVE FilesInv'
  BY <1>2, DieKeeps
<1>3. CASE NextDay
  <2>1. day' \in Day
    BY <1>3, SadcAssumption DEF FilesInv, TypeOK, NextDay, Day
  <2>. QED  BY <1>3, <2>1, AsideKeeps DEF NextDay
<1>4. CASE Sar
  BY <1>4, AsideKeeps DEF Sar, ReadHeader, ReadBunch, SarUnchanged, FilesInv, TypeOK
<1>5. CASE UNCHANGED vars
  BY <1>5, AsideKeeps DEF vars, FilesInv, TypeOK
<1>. QED  BY <1>1, <1>2, <1>3, <1>4, <1>5 DEF Next

\* For any number of processes that create, rotate and append to the files of any number of
\* days, wherever they are killed: a file without an accident holds whole records only, with
\* the activities its header names.
THEOREM RecordsStayWhole == Spec => []RecordsWhole
<1>1. FilesInv => RecordsWhole
  BY DEF FilesInv, RecordsWhole
<1>. QED  BY <1>1, FilesInvInit, FilesInvStep, PTL DEF Spec
=============================================================================
