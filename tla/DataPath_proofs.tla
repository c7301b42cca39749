-------------------------- MODULE DataPath_proofs --------------------------
(***************************************************************************)
(* The data of a request, for every geometry, every way of cutting and     *)
(* merging bios, every block size and every failure: each sector of a      *)
(* request that ends well was moved once and to its place, and pages are   *)
(* mapped exactly while they have to be.                                   *)
(***************************************************************************)
EXTENDS DataPath, FiniteSetTheorems, SequenceTheorems, TLAPS

-----------------------------------------------------------------------------
(* Arithmetic of blocks and of the sectors before a segment *)

\* The sum of two multiples of a block is one.
LEMMA BlockSum ==
  ASSUME NEW a \in Int, NEW b \in Int, NEW n \in Nat \ {0}, a % n = 0, b % n = 0
  PROVE  (a + b) % n = 0
<1>1. a \div n \in Int /\ a = n * (a \div n)
  OBVIOUS
<1>2. b \div n \in Int /\ b = n * (b \div n)
  OBVIOUS
<1>3. PICK k \in Int : a + b = n * k
  <2>1. \A x, y \in Int : (n * x) + (n * y) = n * (x + y)
    OBVIOUS
  <2>2. a + b = n * ((a \div n) + (b \div n))
    BY <2>1, <1>1, <1>2
  <2>. HIDE <1>1, <1>2
  <2>3. (a \div n) + (b \div n) \in Int
    BY <1>1, <1>2
  <2>. QED  BY <2>2, <2>3, Zenon
<1>4. (n * k) % n = 0
  OBVIOUS
<1>. QED  BY <1>3, <1>4

\* No segment is empty or longer than a page.
LEMMA SegmentShape ==
  ASSUME NEW g \in Geometry, NEW i \in 1 .. Len(g.segs)
  PROVE  /\ g.segs[i] \in Segment
         /\ g.segs[i].first \in Nat /\ g.segs[i].last \in Nat
         /\ g.segs[i].first <= g.segs[i].last /\ g.segs[i].last < PageSectors
         /\ Nsec(g.segs[i]) \in Nat \ {0}
         /\ Nsec(g.segs[i]) = g.segs[i].last - g.segs[i].first + 1
<1>1. g.segs \in Seq(Segment)
  BY DataPathAssumption
<1>2. DOMAIN g.segs = 1 .. Len(g.segs) /\ g.segs[i] \in Segment
  BY <1>1
<1>3. g.segs[i].first <= g.segs[i].last /\ g.segs[i].last < PageSectors
  BY <1>2, DataPathAssumption
<1>4. g.segs[i].first \in Nat /\ g.segs[i].last \in Nat
  BY <1>2 DEF Segment
<1>. QED  BY <1>2, <1>3, <1>4 DEF Nsec

LEMMA GeometryShape ==
  ASSUME NEW g \in Geometry
  PROVE  /\ g.dir \in {READ, WRITE} /\ g.pos \in Nat /\ g.segs \in Seq(Segment)
         /\ Len(g.segs) \in 1 .. MaxSegs /\ Len(g.segs) \in Nat /\ DOMAIN g.segs = 1 .. Len(g.segs)
  BY DataPathAssumption

\* The sectors of the segments before the i-th, each with its segment.
SectorsBefore(segs, i) ==
  {s \in (1 .. i - 1) \X (0 .. PageSectors - 1) :
     segs[s[1]].first <= s[2] /\ s[2] <= segs[s[1]].last}

LEMMA SectorsFinite ==
  ASSUME NEW segs, NEW i \in Nat
  PROVE  /\ IsFiniteSet(SectorsBefore(segs, i))
         /\ Before(segs, i) = Cardinality(SectorsBefore(segs, i))
         /\ Before(segs, i) \in Nat
<1>1. IsFiniteSet(1 .. i - 1) /\ IsFiniteSet(0 .. PageSectors - 1)
  <2>1. PageSectors - 1 \in Int /\ i - 1 \in Int
    BY DataPathAssumption
  <2>. QED  BY <2>1, FS_Interval
<1>2. IsFiniteSet((1 .. i - 1) \X (0 .. PageSectors - 1))
  BY <1>1, FS_Product
<1>3. SectorsBefore(segs, i) \in SUBSET ((1 .. i - 1) \X (0 .. PageSectors - 1))
  BY DEF SectorsBefore
<1>4. IsFiniteSet(SectorsBefore(segs, i))
  BY <1>2, <1>3, FS_Subset
<1>5. Before(segs, i) = Cardinality(SectorsBefore(segs, i))
  BY DEF Before, SectorsBefore
<1>. QED  BY <1>4, <1>5, FS_CardinalityType

\* The sectors of the i-th segment are a segment's length.
LEMMA SectorsOfSegment ==
  ASSUME NEW g \in Geometry, NEW i \in 1 .. Len(g.segs)
  PROVE  LET T == {i} \X (g.segs[i].first .. g.segs[i].last)
         IN  IsFiniteSet(T) /\ Cardinality(T) = Nsec(g.segs[i])
<1>. DEFINE S == g.segs[i].first .. g.segs[i].last
            T == {i} \X S
            f == [k \in S |-> <<i, k>>]
<1>1. IsFiniteSet(S) /\ Cardinality(S) = Nsec(g.segs[i])
  <2>. DEFINE a == g.segs[i].first  b == g.segs[i].last
  <2>1. a \in Int /\ b \in Int /\ ~(a > b) /\ Nsec(g.segs[i]) = b - a + 1
    BY SegmentShape
  <2>. HIDE DEF a, b
  <2>2. IsFiniteSet(a .. b) /\ Cardinality(a .. b) = b - a + 1
    BY <2>1, FS_Interval
  <2>. QED  BY <2>1, <2>2 DEF a, b
<1>2. f \in Bijection(S, T)
  <2>1. f \in [S -> T]
    OBVIOUS
  <2>2. \A a, b \in S : f[a] = f[b] => a = b
    OBVIOUS
  <2>3. \A t \in T : \E k \in S : f[k] = t
    OBVIOUS
  <2>. QED  BY <2>1, <2>2, <2>3 DEF Bijection, Injection, Surjection, IsInjective
<1>3. ExistsBijection(S, T)
  BY <1>2 DEF ExistsBijection
<1>. HIDE DEF S, T, f
<1>4. IsFiniteSet(T) /\ Cardinality(T) = Nsec(g.segs[i])
  BY <1>1, <1>3, FS_Bijection
<1>. QED  BY <1>4 DEF T, S

\* Before counts the sectors segment by segment.
LEMMA BeforeCounts ==
  ASSUME NEW g \in Geometry
  PROVE  /\ Before(g.segs, 1) = 0
         /\ \A i \in 1 .. Len(g.segs) + 1 : Before(g.segs, i) \in Nat
         /\ \A i \in 1 .. Len(g.segs) :
              Before(g.segs, i + 1) = Before(g.segs, i) + Nsec(g.segs[i])
<1>1. Before(g.segs, 1) = 0
  <2>1. SectorsBefore(g.segs, 1) = {}
    BY DEF SectorsBefore
  <2>. QED  BY <2>1, SectorsFinite, FS_EmptySet
<1>2. \A i \in 1 .. Len(g.segs) + 1 : Before(g.segs, i) \in Nat
  BY SectorsFinite, GeometryShape
<1>3. ASSUME NEW i \in 1 .. Len(g.segs)
      PROVE  Before(g.segs, i + 1) = Before(g.segs, i) + Nsec(g.segs[i])
  <2>. DEFINE A == SectorsBefore(g.segs, i)
              T == {i} \X (g.segs[i].first .. g.segs[i].last)
  <2>1. i \in Nat /\ i + 1 \in Nat
    BY GeometryShape
  <2>2. SectorsBefore(g.segs, i + 1) = A \cup T
    <3>. DEFINE In(j, k) == k \in 0 .. PageSectors - 1 /\ g.segs[j].first <= k /\ k <= g.segs[j].last
    <3>1. \A k : In(i, k) <=> k \in g.segs[i].first .. g.segs[i].last
      BY SegmentShape, DataPathAssumption
    <3>2. \A j : j \in 1 .. (i + 1) - 1 <=> j \in 1 .. i - 1 \/ j = i
      BY <2>1
    <3>3. \A j, k : <<j, k>> \in SectorsBefore(g.segs, i + 1) <=> j \in 1 .. (i + 1) - 1 /\ In(j, k)
      BY DEF SectorsBefore
    <3>4. \A j, k : <<j, k>> \in A <=> j \in 1 .. i - 1 /\ In(j, k)
      BY DEF SectorsBefore
    <3>. HIDE DEF In
    <3>5. \A j, k : <<j, k>> \in T <=> j = i /\ In(j, k)
      BY <3>1
    <3>6. \A j, k : <<j, k>> \in SectorsBefore(g.segs, i + 1) <=> <<j, k>> \in A \cup T
      BY <3>2, <3>3, <3>4, <3>5
    <3>7. \A s \in SectorsBefore(g.segs, i + 1) : s = <<s[1], s[2]>>
      BY DEF SectorsBefore
    <3>8. \A s \in A \cup T : s = <<s[1], s[2]>>
      BY DEF SectorsBefore
    <3>. QED  BY <3>6, <3>7, <3>8
  <2>3. A \cap T = {}
    BY <2>1 DEF SectorsBefore
  <2>4. IsFiniteSet(A) /\ IsFiniteSet(T) /\ Cardinality(T) = Nsec(g.segs[i])
    BY <2>1, SectorsFinite, SectorsOfSegment
  <2>5. Cardinality(A) \in Nat /\ Cardinality(A) = Before(g.segs, i)
    BY <2>1, SectorsFinite
  <2>. HIDE DEF A, T
  <2>6. Cardinality(A \cap T) = 0
    BY <2>3, FS_EmptySet
  <2>7. Cardinality(A \cup T) = Cardinality(A) + Cardinality(T) - Cardinality(A \cap T)
    BY <2>4, FS_Union
  <2>8. Before(g.segs, i + 1) = Cardinality(A \cup T)
    BY <2>1, <2>2, SectorsFinite
  <2>. QED  BY <2>4, <2>5, <2>6, <2>7, <2>8, SegmentShape
<1>. QED  BY <1>1, <1>2, <1>3

-----------------------------------------------------------------------------
(* What is moved, segment by segment *)

Move == [sector : Int, i : Nat, at : Int, dir : {READ, WRITE}]

\* s is what a request of geometry g moves before its i-th segment: sector after
\* sector.
MovedTo(s, g, i) ==
  /\ Len(s) = Before(g.segs, i)
  /\ \A j \in 1 .. Len(s) : s[j].sector = g.pos + j - 1
  /\ ToSet(s) = UNION {WantedOf(g, k) : k \in 1 .. i - 1}

\* One chunk, transferred at disk position pos.
ChunkOf(g, i, pos) ==
  [k \in 1 .. Nsec(g.segs[i]) |-> [sector |-> pos + k - 1, i |-> i,
                                  at |-> g.segs[i].first + k - 1, dir |-> g.dir]]

LEMMA NothingMoved == ASSUME NEW g \in Geometry PROVE MovedTo(<<>>, g, 1)
<1>1. Before(g.segs, 1) = 0
  BY BeforeCounts
<1>2. ToSet(<<>>) = {}
  BY DEF ToSet
<1>3. UNION {WantedOf(g, k) : k \in 1 .. 1 - 1} = {}
  OBVIOUS
<1>. QED  BY <1>1, <1>2, <1>3 DEF MovedTo

LEMMA ToSetOfConcat ==
  ASSUME NEW s \in Seq(Move), NEW t \in Seq(Move)
  PROVE  ToSet(s \o t) = ToSet(s) \cup ToSet(t)
<1>1. /\ s \o t \in Seq(Move) /\ Len(s \o t) = Len(s) + Len(t)
      /\ \A i \in 1 .. Len(s) + Len(t) : (s \o t)[i] = IF i <= Len(s) THEN s[i] ELSE t[i - Len(s)]
  BY ConcatProperties
<1>2. /\ DOMAIN s = 1 .. Len(s) /\ DOMAIN t = 1 .. Len(t) /\ DOMAIN (s \o t) = 1 .. Len(s) + Len(t)
      /\ Len(s) \in Nat /\ Len(t) \in Nat
  BY <1>1, LenProperties
<1>3. ASSUME NEW x \in ToSet(s \o t) PROVE x \in ToSet(s) \cup ToSet(t)
  <2>1. PICK i \in 1 .. Len(s) + Len(t) : x = (s \o t)[i]
    BY <1>2 DEF ToSet
  <2>2. CASE i <= Len(s)
    <3>1. i \in DOMAIN s /\ x = s[i]
      BY <1>1, <1>2, <2>1, <2>2
    <3>. QED  BY <3>1 DEF ToSet
  <2>3. CASE ~(i <= Len(s))
    <3>1. i - Len(s) \in DOMAIN t /\ x = t[i - Len(s)]
      BY <1>1, <1>2, <2>1, <2>3
    <3>. QED  BY <3>1 DEF ToSet
  <2>. QED  BY <2>2, <2>3
<1>4. ASSUME NEW x \in ToSet(s) PROVE x \in ToSet(s \o t)
  <2>1. PICK i \in 1 .. Len(s) : x = s[i]
    BY <1>2 DEF ToSet
  <2>2. i \in DOMAIN (s \o t) /\ x = (s \o t)[i]
    BY <1>1, <1>2, <2>1
  <2>. QED  BY <2>2 DEF ToSet
<1>5. ASSUME NEW x \in ToSet(t) PROVE x \in ToSet(s \o t)
  <2>1. PICK i \in 1 .. Len(t) : x = t[i]
    BY <1>2 DEF ToSet
  <2>2. i + Len(s) \in 1 .. Len(s) + Len(t) /\ ~(i + Len(s) <= Len(s)) /\ (i + Len(s)) - Len(s) = i
    BY <1>2
  <2>3. i + Len(s) \in DOMAIN (s \o t) /\ x = (s \o t)[i + Len(s)]
    BY <1>1, <1>2, <2>1, <2>2
  <2>. QED  BY <2>3 DEF ToSet
<1>. QED  BY <1>3, <1>4, <1>5

\* A chunk is what its segment wants, sector after sector.
LEMMA ChunkWanted ==
  ASSUME NEW g \in Geometry, NEW i \in 1 .. Len(g.segs), NEW pos \in Int,
         pos = g.pos + Before(g.segs, i)
  PROVE  LET t == ChunkOf(g, i, pos)
         IN  /\ t \in Seq(Move) /\ Len(t) = Nsec(g.segs[i])
             /\ \A k \in 1 .. Len(t) : t[k].sector = pos + k - 1
             /\ ToSet(t) = WantedOf(g, i)
<1>. DEFINE t == ChunkOf(g, i, pos)
            n == Nsec(g.segs[i])
            a == g.segs[i].first
            z == g.segs[i].last
            T(k) == [sector |-> pos + k - 1, i |-> i, at |-> a + k - 1, dir |-> g.dir]
            W(k) == [sector |-> g.pos + Before(g.segs, i) + k - a, i |-> i, at |-> k, dir |-> g.dir]
<1>1. a \in Nat /\ z \in Nat /\ a <= z /\ n \in Nat /\ n = z - a + 1
  BY SegmentShape
<1>2. i \in Nat /\ g.dir \in {READ, WRITE} /\ g.pos \in Nat /\ Before(g.segs, i) \in Nat
  BY GeometryShape, BeforeCounts
<1>3. t = [k \in 1 .. n |-> T(k)] /\ WantedOf(g, i) = {W(k) : k \in a .. z}
  BY DEF ChunkOf, WantedOf
<1>. HIDE DEF t, n, a, z
<1>4. \A k \in Int : T(k) \in Move /\ T(k).sector = pos + k - 1
  BY <1>1, <1>2 DEF Move
<1>5. \A k \in 1 .. n : a + k - 1 \in a .. z /\ T(k) = W(a + k - 1)
  BY <1>1, <1>2
<1>6. \A k \in a .. z : k - a + 1 \in 1 .. n /\ W(k) = T(k - a + 1)
  BY <1>1, <1>2
<1>. HIDE DEF T, W
<1>7. t \in Seq(Move) /\ Len(t) = n /\ DOMAIN t = 1 .. n
  <2>1. t \in [1 .. n -> Move] /\ DOMAIN t = 1 .. n
    BY <1>3, <1>4
  <2>. QED  BY <1>1, <2>1
<1>8. ToSet(t) = WantedOf(g, i)
  <2>1. ToSet(t) = {T(k) : k \in 1 .. n}
    BY <1>3, <1>7 DEF ToSet
  <2>. QED  BY <1>3, <1>5, <1>6, <2>1
<1>9. \A k \in 1 .. n : t[k].sector = pos + k - 1
  BY <1>1, <1>3, <1>4
<1>. QED  BY <1>7, <1>8, <1>9 DEF t, n

\* After the chunk of the i-th segment the next one is due.
LEMMA MovedOn ==
  ASSUME NEW g \in Geometry, NEW i \in 1 .. Len(g.segs), NEW s \in Seq(Move), NEW pos \in Int,
         pos = g.pos + Before(g.segs, i), MovedTo(s, g, i)
  PROVE  /\ s \o ChunkOf(g, i, pos) \in Seq(Move)
         /\ MovedTo(s \o ChunkOf(g, i, pos), g, i + 1)
<1>. DEFINE t == ChunkOf(g, i, pos)
            n == Nsec(g.segs[i])
<1>1. /\ t \in Seq(Move) /\ Len(t) = n /\ \A k \in 1 .. Len(t) : t[k].sector = pos + k - 1
      /\ ToSet(t) = WantedOf(g, i)
  BY ChunkWanted
<1>2. n \in Nat /\ Before(g.segs, i + 1) = Before(g.segs, i) + n
  BY SegmentShape, BeforeCounts
<1>3. i \in Nat /\ g.pos \in Nat /\ Before(g.segs, i) \in Nat /\ Len(s) \in Nat
  BY GeometryShape, BeforeCounts
<1>. HIDE DEF t, n
<1>4. /\ s \o t \in Seq(Move) /\ Len(s \o t) = Len(s) + Len(t)
      /\ \A j \in 1 .. Len(s) + Len(t) : (s \o t)[j] = IF j <= Len(s) THEN s[j] ELSE t[j - Len(s)]
  BY <1>1, ConcatProperties
<1>5. Len(s) = Before(g.segs, i) /\ \A j \in 1 .. Len(s) : s[j].sector = g.pos + j - 1
  BY DEF MovedTo
<1>6. ASSUME NEW j \in 1 .. Len(s) + Len(t) PROVE (s \o t)[j].sector = g.pos + j - 1
  <2>1. CASE j <= Len(s)
    BY <1>3, <1>4, <1>5, <2>1
  <2>2. CASE ~(j <= Len(s))
    <3>1. (s \o t)[j] = t[j - Len(s)] /\ j - Len(s) \in 1 .. Len(t)
      BY <1>1, <1>2, <1>3, <1>4, <2>2
    <3>2. t[j - Len(s)].sector = pos + (j - Len(s)) - 1
      BY <1>1, <3>1
    <3>3. j \in Int
      BY <1>1, <1>2, <1>3
    <3>4. pos + (j - Len(s)) - 1 = g.pos + j - 1
      BY <1>3, <1>5, <3>3
    <3>. QED  BY <3>1, <3>2, <3>4
  <2>. QED  BY <2>1, <2>2
<1>7. ToSet(s \o t) = UNION {WantedOf(g, k) : k \in 1 .. (i + 1) - 1}
  <2>1. ToSet(s) = UNION {WantedOf(g, k) : k \in 1 .. i - 1}
    BY DEF MovedTo
  <2>2. ToSet(s \o t) = ToSet(s) \cup ToSet(t)
    BY <1>1, ToSetOfConcat
  <2>3. 1 .. (i + 1) - 1 = (1 .. i - 1) \cup {i}
    BY <1>3
  <2>. DEFINE U(m) == UNION {WantedOf(g, k) : k \in 1 .. m - 1}
  <2>4. \A m, x : x \in U(m) <=> \E k \in 1 .. m - 1 : x \in WantedOf(g, k)
    OBVIOUS
  <2>. HIDE DEF U
  <2>5. \A x : x \in U(i + 1) <=> x \in U(i) \/ x \in WantedOf(g, i)
    BY <2>3, <2>4
  <2>6. U(i + 1) = U(i) \cup WantedOf(g, i)
    BY <2>5
  <2>7. ToSet(s \o t) = U(i + 1)
    BY <1>1, <2>1, <2>2, <2>6 DEF U
  <2>. QED  BY <2>7 DEF U
<1>8. Len(s \o t) = Before(g.segs, i + 1)
  BY <1>1, <1>2, <1>4, <1>5
<1>. QED  BY <1>4, <1>6, <1>7, <1>8 DEF MovedTo, t

-----------------------------------------------------------------------------
(* The invariants *)

States == {"new", "sent", "taken", "answered", "ended"}
Stages == {"free", "claimed", "mapped", "submitting", "io", "lost"}
Bio == [p : Pending, pos : Int, segs : Seq(Segment), next : Nat, last : Nat, sectors : Int]
QueuedBio == [p : Pending, pos : Int, segs : Seq(Segment), next : Nat, last : Nat, sectors : Int,
              dir : {READ, WRITE}, joined : BOOLEAN, left : Nat]
PendingReq == [stage : Stages, req : Request \cup {0}, operation : {READ, WRITE}, nr_pages : Nat,
               pendcnt : Int, status : {0, -1}]

TypeOK ==
  /\ block \in BlockSizes
  /\ req \in [Request -> [st : States, g : Geometry \cup {NoGeometry}, res : {0, -1}]]
  /\ \A r \in Request : req[r].st # "new" => req[r].g \in Geometry
  /\ pend \in [Pending -> PendingReq]
  /\ handle \in [Pending -> [1 .. MaxSegs -> (Request \X (1 .. MaxSegs)) \cup {INVALID}]]
  /\ work \in [i : Nat, sector : Int, biolist : Seq(Bio)]
  /\ queue \in Seq(QueuedBio)
  /\ rq_pos \in Int
  /\ moved \in [Request -> Seq(Move)]

\* What the request thread has in hand, what may hold mappings, and what is not
\* completed.
Dispatched == {"claimed", "mapped", "submitting"}
Holding == {"mapped", "submitting", "io", "lost"}
Open == {"sent", "taken", "answered"}
Stage(p) == pend[p].stage

\* A structure not free serves a request of its own, and the request thread has at
\* most one in hand.
Serves(p) ==
  /\ pend[p].req \in Request /\ req[pend[p].req].st = "taken"
  /\ pend[p].operation = Geom(p).dir /\ pend[p].nr_pages = Len(Geom(p).segs)
  /\ Stage(p) # "lost" => pend[p].status = 0
  /\ Stage(p) \in Holding => WellFormed(Geom(p))

PendInv ==
  /\ \A p \in Pending : Stage(p) # "free" => Serves(p)
  /\ \A p, q \in Pending :
       Stage(p) # "free" /\ Stage(q) # "free" /\ pend[p].req = pend[q].req => p = q
  /\ \A p, q \in Pending : Stage(p) \in Dispatched /\ Stage(q) \in Dispatched => p = q

\* A request not completed has a reference for each of its pages.
GrantInv ==
  \A r \in Request : req[r].st \in Open =>
    \A i \in DOMAIN req[r].g.segs :
      [ref |-> <<r, i>>, ro |-> Readonly(req[r].g.dir)] \in grant

Entry(p, i) == [p |-> p, i |-> i, ref |-> <<pend[p].req, i>>]

\* Handles and mappings are those of the pages of the structures that hold them.
MapInv ==
  /\ \A p \in Pending, i \in 1 .. MaxSegs :
       handle[p][i] = IF Stage(p) \in Holding /\ i <= pend[p].nr_pages
                      THEN <<pend[p].req, i>> ELSE INVALID
  /\ \A p \in Pending : Stage(p) \in Holding =>
       \A i \in 1 .. pend[p].nr_pages : Entry(p, i) \in mapped
  /\ \A m \in mapped : \E p \in Pending : /\ Stage(p) \in Holding
                                          /\ \E i \in 1 .. pend[p].nr_pages : m = Entry(p, i)

\* Bio b has pages of a request of geometry g, and ends on the disk where they do;
\* it starts where its next page does.
BioIn(b, g) ==
  /\ b.segs = g.segs
  /\ b.next \in 1 .. b.last /\ b.last \in 1 .. Len(g.segs)
  /\ b.pos + b.sectors = g.pos + Before(g.segs, b.last + 1)
  /\ b.pos % block = 0
StartsIn(b, g) == b.pos = g.pos + Before(g.segs, b.next)

\* The bios the thread has built are of its structure and follow one another up to
\* the segment it has come to.
InHand(p) ==
  LET bios == work.biolist
      n == Len(bios)
  IN
  /\ work.i \in 1 .. pend[p].nr_pages + 1
  /\ \A k \in 1 .. n : bios[k].p = p /\ BioIn(bios[k], Geom(p)) /\ StartsIn(bios[k], Geom(p))
  /\ \A k \in 1 .. n - 1 : bios[k + 1].next = bios[k].last + 1
  /\ n # 0 => bios[n].last = work.i - 1

\* While they are built, they start with the first segment.
Building(p) ==
  /\ work.sector = Geom(p).pos + Before(Geom(p).segs, work.i)
  /\ work.sector % block = 0
  /\ IF work.biolist = <<>> THEN work.i = 1 ELSE work.biolist[1].next = 1

\* While they are submitted, those before them are the last of the queue and know
\* how many are to come; when these are done, the device has moved what comes
\* before them.
Handing(p) ==
  /\ work.biolist # <<>> /\ work.i = pend[p].nr_pages + 1
  /\ \A n \in DOMAIN queue : queue[n].p = p =>
       queue[n].left >= Len(work.biolist) /\ queue[Len(queue)].p = p
  /\ queue = <<>> \/ queue[Len(queue)].p # p =>
       /\ pend[p].pendcnt = Len(work.biolist)
       /\ MovedTo(moved[pend[p].req], Geom(p), work.biolist[1].next)

WorkInv ==
  \A p \in Pending :
    /\ Stage(p) = "claimed" => work = [NoWork EXCEPT !.sector = Geom(p).pos]
    /\ Stage(p) \in {"mapped", "submitting"} => InHand(p)
    /\ Stage(p) = "mapped" => Building(p)
    /\ Stage(p) = "submitting" => Handing(p)

\* A bio in the queue; the count of its structure is that of the bios not done, and
\* the device has moved what comes before the first of them.
First(n) == n = 1 \/ queue[n - 1].p # queue[n].p
Counted(b) ==
  /\ pend[b.p].pendcnt = b.left + 1
  /\ MovedTo(moved[pend[b.p].req], Geom(b.p), b.next)
Queued(n) ==
  LET b == queue[n] IN
  /\ BioIn(b, Geom(b.p)) /\ Stage(b.p) \in {"submitting", "io"}
  /\ b.dir = pend[b.p].operation
  /\ b.left = 0 => b.last = Len(Geom(b.p).segs)
  /\ n = 1 => rq_pos = Geom(b.p).pos + Before(b.segs, b.next)
  /\ n # 1 => StartsIn(b, Geom(b.p))
  /\ First(n) => Counted(b)

\* A bio joined to the one before it goes on where that ends; the bios of a structure
\* follow one another.
Follows(b, c) ==
  /\ c.joined => b.pos + b.sectors = c.pos
  /\ b.p = c.p => c.next = b.last + 1 /\ b.left = c.left + 1
  /\ b.p # c.p => b.left = 0

\* The bios of a structure lie together, each with fewer to come than the one before.
Together(m, n) ==
  m < n /\ queue[m].p = queue[n].p =>
    queue[n].left < queue[m].left /\ queue[n - 1].p = queue[n].p

\* Only of the structure in hand may more bios come, and these are in hand.
MoreToCome(b) ==
  b.left # 0 => /\ Stage(b.p) = "submitting"
                /\ b.left = Len(work.biolist) /\ work.biolist[1].next = b.last + 1

QueueInv ==
  /\ \A n \in DOMAIN queue : Queued(n)
  /\ \A n \in 1 .. Len(queue) - 1 : Follows(queue[n], queue[n + 1])
  /\ \A m, n \in DOMAIN queue : Together(m, n)
  /\ queue # <<>> => MoreToCome(queue[Len(queue)])

\* A request answered 0 has moved all its segments, one answered -1 or not begun
\* nothing.
Answered(q, res) == q.st \in {"answered", "ended"} /\ q.res = res
DoneInv ==
  /\ \A r \in Request :
       /\ Answered(req[r], 0) => MovedTo(moved[r], req[r].g, Len(req[r].g.segs) + 1)
       /\ req[r].st \in {"new", "sent"} \/ Answered(req[r], -1) => moved[r] = <<>>
  /\ \A p \in Pending : Stage(p) \in {"claimed", "mapped"} => moved[pend[p].req] = <<>>

\* A request answered -1 does not keep to the blocks of the device, or a page of
\* it could not be mapped.
FailInv ==
  \A r \in Request :
    Answered(req[r], -1) /\ WellFormed(req[r].g) => "map" \in Faults

DataInv == TypeOK /\ PendInv /\ GrantInv /\ MapInv /\ WorkInv /\ QueueInv /\ DoneInv

-----------------------------------------------------------------------------
(* What the invariants mean *)

LEMMA DataInit == Init => DataInv
<1>. SUFFICES ASSUME Init PROVE DataInv
  OBVIOUS
<1>. USE DEF Init
<1>1. TypeOK
  <2>1. /\ FreePend \in PendingReq /\ NoWork \in [i : Nat, sector : Int, biolist : Seq(Bio)]
        /\ queue \in Seq(QueuedBio)
    BY DEF FreePend, PendingReq, Stages, READ, WRITE, NoWork
  <2>2. \A r \in Request : moved[r] \in Seq(Move)
    OBVIOUS
  <2>. QED  BY <2>1, <2>2 DEF TypeOK, States, INVALID
<1>2. \A p \in Pending : Stage(p) = "free" /\ pend[p].nr_pages = 0
  BY DEF Stage, FreePend
<1>3. PendInv
  BY <1>2 DEF PendInv, Dispatched
<1>4. GrantInv
  BY DEF GrantInv, Open
<1>5. MapInv
  BY <1>2 DEF MapInv, Holding
<1>6. WorkInv
  BY <1>2 DEF WorkInv
<1>7. QueueInv
  BY DEF QueueInv
<1>8. DoneInv
  BY <1>2 DEF DoneInv, Answered
<1>. QED  BY <1>1, <1>3, <1>4, <1>5, <1>6, <1>7, <1>8 DEF DataInv

\* What a structure in use stands for.
LEMMA InUse ==
  ASSUME DataInv, NEW p \in Pending, Stage(p) # "free"
  PROVE  /\ pend[p].req \in Request /\ req[pend[p].req].st = "taken"
         /\ Geom(p) \in Geometry
         /\ pend[p].operation = Geom(p).dir /\ pend[p].nr_pages = Len(Geom(p).segs)
         /\ pend[p].nr_pages \in 1 .. MaxSegs
<1>1. Serves(p)
  BY DEF DataInv, PendInv
<1>2. Geom(p) \in Geometry
  BY <1>1 DEF Serves, Geom, DataInv, TypeOK
<1>. QED  BY <1>1, <1>2, GeometryShape DEF Serves

\* A bio of the queue and what it belongs to.
LEMMA BioOfQueue ==
  ASSUME DataInv, NEW n \in DOMAIN queue
  PROVE  /\ n \in 1 .. Len(queue) /\ Len(queue) \in Nat /\ queue[n] \in QueuedBio
         /\ queue[n].p \in Pending /\ Queued(n)
         /\ Stage(queue[n].p) \in {"submitting", "io"}
         /\ pend[queue[n].p].req \in Request
         /\ Geom(queue[n].p) \in Geometry
<1>1. queue \in Seq(QueuedBio)
  BY DEF DataInv, TypeOK
<1>2. n \in 1 .. Len(queue) /\ Len(queue) \in Nat /\ queue[n] \in QueuedBio
  BY <1>1
<1>3. queue[n].p \in Pending
  BY <1>2 DEF QueuedBio
<1>4. Queued(n)
  BY DEF DataInv, QueueInv
<1>. QED  BY <1>2, <1>3, <1>4, InUse DEF Queued

LEMMA MappingsFollow == DataInv => NoStaleMapping
<1>. SUFFICES ASSUME DataInv PROVE NoStaleMapping
  OBVIOUS
<1>1. ASSUME NEW m \in mapped PROVE \E g \in grant : g.ref = m.ref
  <2>1. PICK p \in Pending : /\ Stage(p) \in Holding
                             /\ \E i \in 1 .. pend[p].nr_pages : m = Entry(p, i)
    BY DEF DataInv, MapInv
  <2>2. PICK i \in 1 .. pend[p].nr_pages : m = Entry(p, i)
    BY <2>1
  <2>. DEFINE r == pend[p].req
  <2>3. r \in Request /\ req[r].st \in Open /\ i \in DOMAIN req[r].g.segs
    BY <2>1, <2>2, InUse, GeometryShape DEF Holding, Open, Geom
  <2>4. [ref |-> <<r, i>>, ro |-> Readonly(req[r].g.dir)] \in grant
    BY <2>3 DEF DataInv, GrantInv
  <2>. QED  BY <2>2, <2>4 DEF Entry
<1>2. ASSUME NEW p \in Pending, Stage(p) = "free"
      PROVE  /\ \A i \in 1 .. MaxSegs : handle[p][i] = INVALID
             /\ ~\E m \in mapped : m.p = p
  <2>1. \A i \in 1 .. MaxSegs : handle[p][i] = INVALID
    BY <1>2 DEF DataInv, MapInv, Holding
  <2>2. ASSUME NEW m \in mapped PROVE m.p # p
    <3>1. PICK q \in Pending : /\ Stage(q) \in Holding
                               /\ \E i \in 1 .. pend[q].nr_pages : m = Entry(q, i)
      BY DEF DataInv, MapInv
    <3>2. m.p = q
      BY <3>1 DEF Entry
    <3>. QED  BY <1>2, <3>1, <3>2 DEF Holding
  <2>. QED  BY <2>1, <2>2
<1>. QED  BY <1>1, <1>2 DEF NoStaleMapping, NoMappingOutlivesGrant, PoolHoldsNoHandle, Stage

LEMMA BiosHavePages == DataInv => PagesMappedDuringIo
<1>. SUFFICES ASSUME DataInv, NEW n \in DOMAIN queue, NEW i \in queue[n].next .. queue[n].last
              PROVE  LET b == queue[n]
                         ref == <<pend[b.p].req, i>>
                     IN  /\ [p |-> b.p, i |-> i, ref |-> ref] \in mapped
                         /\ \E g \in grant : g.ref = ref /\ (g.ro => b.dir = WRITE)
  BY DEF PagesMappedDuringIo
<1>. DEFINE b == queue[n]  r == pend[b.p].req
<1>1. /\ b.p \in Pending /\ Queued(n) /\ Stage(b.p) \in {"submitting", "io"}
      /\ b \in QueuedBio
  BY BioOfQueue
<1>2. /\ r \in Request /\ req[r].st = "taken" /\ Geom(b.p) \in Geometry
      /\ pend[b.p].operation = Geom(b.p).dir /\ pend[b.p].nr_pages = Len(Geom(b.p).segs)
      /\ pend[b.p].nr_pages \in 1 .. MaxSegs
  BY <1>1, InUse
<1>3. i \in 1 .. pend[b.p].nr_pages
  <2>1. b.next \in 1 .. b.last /\ b.last \in 1 .. Len(Geom(b.p).segs)
    BY <1>1 DEF Queued, BioIn
  <2>. QED  BY <1>1, <1>2, <2>1 DEF QueuedBio
<1>4. Entry(b.p, i) \in mapped
  BY <1>1, <1>3 DEF DataInv, MapInv, Holding
<1>5. [ref |-> <<r, i>>, ro |-> Readonly(req[r].g.dir)] \in grant
  BY <1>2, <1>3, GeometryShape DEF DataInv, GrantInv, Open, Geom
<1>6. b.dir = req[r].g.dir
  BY <1>1, <1>2 DEF Queued, Geom
<1>. QED  BY <1>4, <1>5, <1>6 DEF Entry, Readonly

LEMMA MovedIsWanted == DataInv /\ FailInv => DataLands
<1>. SUFFICES ASSUME DataInv, FailInv PROVE DataLands
  OBVIOUS
<1>1. BiosAligned
  BY BioOfQueue DEF BiosAligned, Queued, BioIn
<1>2. ASSUME NEW r \in Request, req[r].st = "ended", req[r].res = 0
      PROVE  ToSet(moved[r]) = Wanted(req[r].g) /\ IsInjective(moved[r])
  <2>. DEFINE g == req[r].g  s == moved[r]
  <2>1. g \in Geometry /\ s \in Seq(Move)
    BY <1>2 DEF DataInv, TypeOK
  <2>2. MovedTo(s, g, Len(g.segs) + 1)
    BY <1>2 DEF DataInv, DoneInv, Answered
  <2>3. DOMAIN g.segs = 1 .. (Len(g.segs) + 1) - 1 /\ g.pos \in Nat
    BY <2>1, GeometryShape
  <2>4. ToSet(s) = Wanted(g)
    BY <2>2, <2>3 DEF MovedTo, Wanted
  <2>5. DOMAIN s = 1 .. Len(s) /\ Len(s) \in Nat
    BY <2>1
  <2>6. \A j \in DOMAIN s : s[j].sector = g.pos + j - 1
    BY <2>2, <2>5 DEF MovedTo
  <2>7. ASSUME NEW j \in DOMAIN s, NEW k \in DOMAIN s, s[j] = s[k] PROVE j = k
    <3>1. g.pos + j - 1 = g.pos + k - 1
      BY <2>6, <2>7
    <3>. QED  BY <2>3, <2>5, <3>1
  <2>. QED  BY <2>4, <2>7 DEF IsInjective
<1>3. ASSUME NEW r \in Request, req[r].st = "ended", req[r].res # 0
      PROVE  moved[r] = <<>> /\ (WellFormed(req[r].g) => "map" \in Faults)
  <2>1. Answered(req[r], -1)
    BY <1>3 DEF DataInv, TypeOK, Answered
  <2>. QED  BY <2>1 DEF DataInv, DoneInv, FailInv
<1>. QED  BY <1>1, <1>2, <1>3 DEF DataLands, SectorsOnce

-----------------------------------------------------------------------------
(* Steps that leave a part alone *)

LEMMA ServesKept ==
  ASSUME DataInv, block' = block, NEW p \in Pending, Stage(p) # "free", pend'[p] = pend[p],
         req'[pend[p].req] = req[pend[p].req]
  PROVE  Serves(p)'
<1>1. Serves(p)
  BY DEF DataInv, PendInv
<1>. QED  BY <1>1 DEF Serves, Geom, Stage, WellFormed

LEMMA GrantKept ==
  ASSUME DataInv, grant' = grant,
         \A r \in Request : req'[r].g = req[r].g /\ (req'[r].st \in Open => req[r].st \in Open)
  PROVE  GrantInv'
BY DEF DataInv, GrantInv, Open

LEMMA MapKept ==
  ASSUME DataInv, mapped' = mapped, handle' = handle,
         \A p \in Pending : /\ Stage(p)' \in Holding <=> Stage(p) \in Holding
                            /\ Stage(p) \in Holding => /\ pend'[p].req = pend[p].req
                                                       /\ pend'[p].nr_pages = pend[p].nr_pages
  PROVE  MapInv'
<1>1. MapInv
  BY DEF DataInv
<1>2. ASSUME NEW p \in Pending, NEW i \in 1 .. MaxSegs
      PROVE  handle'[p][i] = IF Stage(p)' \in Holding /\ i <= pend'[p].nr_pages
                             THEN <<pend'[p].req, i>> ELSE INVALID
  BY <1>1 DEF MapInv
<1>3. ASSUME NEW p \in Pending, Stage(p)' \in Holding, NEW i \in 1 .. pend'[p].nr_pages
      PROVE  Entry(p, i)' \in mapped'
  BY <1>1, <1>3 DEF MapInv, Entry
<1>4. ASSUME NEW m \in mapped'
      PROVE  \E p \in Pending : /\ Stage(p)' \in Holding
                                /\ \E i \in 1 .. pend'[p].nr_pages : m = Entry(p, i)'
  <2>1. PICK p \in Pending : /\ Stage(p) \in Holding
                             /\ \E i \in 1 .. pend[p].nr_pages : m = Entry(p, i)
    BY <1>1 DEF MapInv
  <2>. QED  BY <2>1 DEF Entry
<1>. QED  BY <1>2, <1>3, <1>4 DEF MapInv

LEMMA WorkKept ==
  ASSUME DataInv, UNCHANGED <<block, work, queue, moved>>,
         \A p \in Pending : Stage(p)' \in Dispatched =>
           pend'[p] = pend[p] /\ req'[pend[p].req].g = Geom(p)
  PROVE  WorkInv'
<1>1. ASSUME NEW p \in Pending, Stage(p)' \in Dispatched, pend'[p] = pend[p],
             req'[pend[p].req].g = Geom(p)
      PROVE  /\ Stage(p)' = "claimed" => work' = [NoWork EXCEPT !.sector = Geom(p)'.pos]
             /\ Stage(p)' \in {"mapped", "submitting"} => InHand(p)'
             /\ Stage(p)' = "mapped" => Building(p)'
             /\ Stage(p)' = "submitting" => Handing(p)'
  <2>1. Stage(p)' = Stage(p) /\ Geom(p)' = Geom(p)
    BY <1>1 DEF Stage, Geom
  <2>2. InHand(p) => InHand(p)'
    BY <1>1, <2>1 DEF InHand, BioIn, StartsIn
  <2>3. Building(p) => Building(p)'
    BY <2>1 DEF Building
  <2>4. Handing(p) => Handing(p)'
    BY <1>1, <2>1 DEF Handing
  <2>. QED  BY <2>1, <2>2, <2>3, <2>4 DEF DataInv, WorkInv
<1>. QED  BY <1>1 DEF WorkInv, Dispatched

LEMMA QueueKept ==
  ASSUME DataInv, UNCHANGED <<block, queue, rq_pos, moved>>,
         \A p \in Pending : Stage(p) \in {"submitting", "io"} =>
           pend'[p] = pend[p] /\ req'[pend[p].req].g = Geom(p),
         work' = work \/ \A p \in Pending : Stage(p) # "submitting"
  PROVE  QueueInv'
<1>1. ASSUME NEW n \in DOMAIN queue' PROVE Queued(n)'
  <2>1. Queued(n) /\ queue[n].p \in Pending /\ Stage(queue[n].p) \in {"submitting", "io"}
    BY BioOfQueue
  <2>2. pend'[queue[n].p] = pend[queue[n].p] /\ req'[pend[queue[n].p].req].g = Geom(queue[n].p)
    BY <2>1
  <2>. QED  BY <2>1, <2>2 DEF Queued, BioIn, StartsIn, Counted, First, Geom, Stage
<1>2. ASSUME NEW n \in 1 .. Len(queue') - 1 PROVE Follows(queue'[n], queue'[n + 1])
  BY DEF DataInv, QueueInv
<1>3. ASSUME NEW m \in DOMAIN queue', NEW n \in DOMAIN queue' PROVE Together(m, n)'
  BY DEF DataInv, QueueInv, Together
<1>4. ASSUME queue' # <<>> PROVE MoreToCome(queue[Len(queue)])'
  <2>1. Len(queue) \in DOMAIN queue
    BY <1>4 DEF DataInv, TypeOK
  <2>. DEFINE p == queue[Len(queue)].p
  <2>2. p \in Pending /\ Stage(p) \in {"submitting", "io"}
    BY <2>1, BioOfQueue
  <2>3. MoreToCome(queue[Len(queue)])
    BY <1>4 DEF DataInv, QueueInv
  <2>. QED  BY <2>2, <2>3 DEF MoreToCome, Stage
<1>. QED  BY <1>1, <1>2, <1>3, <1>4 DEF QueueInv

-----------------------------------------------------------------------------
(* The front end *)

LEMMA QueueRequestKeeps ==
  ASSUME DataInv, NEW r \in Request, NEW g \in Geometry, QueueRequest(r, g)
  PROVE  DataInv'
<1>. USE DEF QueueRequest
<1>1. /\ req' \in [Request -> [st : States, g : Geometry \cup {NoGeometry}, res : {0, -1}]]
      /\ req[r].st = "new" /\ req'[r].st = "sent" /\ req'[r].g = g
      /\ \A q \in Request : q # r => req'[q] = req[q]
  BY DEF DataInv, TypeOK, States
<1>2. TypeOK'
  BY <1>1 DEF DataInv, TypeOK
<1>3. \A p \in Pending : Stage(p) # "free" => pend[p].req \in Request /\ pend[p].req # r
  BY <1>1, InUse
<1>4. \A p \in Pending : Stage(p) # "free" => req'[pend[p].req] = req[pend[p].req]
  BY <1>1, <1>3
<1>5. \A p \in Pending : pend'[p] = pend[p] /\ Stage(p)' = Stage(p)
  BY DEF Stage
<1>6. PendInv'
  <2>1. \A p \in Pending : Stage(p)' # "free" => Serves(p)'
    BY <1>4, <1>5, ServesKept
  <2>. QED  BY <1>5, <2>1 DEF DataInv, PendInv
<1>7. GrantInv'
  <2>1. ASSUME NEW q \in Request, req'[q].st \in Open, NEW i \in DOMAIN req'[q].g.segs
        PROVE  [ref |-> <<q, i>>, ro |-> Readonly(req'[q].g.dir)] \in grant'
    <3>1. CASE q = r
      BY <1>1, <3>1, <2>1
    <3>2. CASE q # r
      BY <1>1, <3>2, <2>1 DEF DataInv, GrantInv
    <3>. QED  BY <3>1, <3>2
  <2>. QED  BY <2>1 DEF GrantInv
<1>8. MapInv'
  BY <1>5, MapKept
<1>9. WorkInv'
  BY <1>4, <1>5, WorkKept DEF Dispatched, Geom
<1>10. QueueInv'
  BY <1>4, <1>5, QueueKept DEF Geom
<1>11. DoneInv'
  BY <1>1, <1>5 DEF DataInv, DoneInv, Answered
<1>. QED  BY <1>2, <1>6, <1>7, <1>8, <1>9, <1>10, <1>11 DEF DataInv

LEMMA CompleteKeeps ==
  ASSUME DataInv, NEW r \in Request, Complete(r)
  PROVE  DataInv'
<1>. USE DEF Complete
<1>1. /\ req' \in [Request -> [st : States, g : Geometry \cup {NoGeometry}, res : {0, -1}]]
      /\ req[r].st = "answered" /\ req'[r].st = "ended" /\ req'[r].res = req[r].res
      /\ \A q \in Request : req'[q].g = req[q].g /\ (q # r => req'[q] = req[q])
  BY DEF EndRequestAll, DataInv, TypeOK, States
<1>2. TypeOK'
  BY <1>1 DEF DataInv, TypeOK
<1>3. \A p \in Pending : Stage(p) # "free" => pend[p].req \in Request /\ pend[p].req # r
  BY <1>1, InUse
<1>4. \A p \in Pending : Stage(p) # "free" => req'[pend[p].req] = req[pend[p].req]
  BY <1>1, <1>3
<1>5. \A p \in Pending : pend'[p] = pend[p] /\ Stage(p)' = Stage(p)
  BY DEF Stage
<1>6. PendInv'
  <2>1. \A p \in Pending : Stage(p)' # "free" => Serves(p)'
    BY <1>4, <1>5, ServesKept
  <2>. QED  BY <1>5, <2>1 DEF DataInv, PendInv
<1>7. GrantInv'
  <2>1. ASSUME NEW q \in Request, req'[q].st \in Open, NEW i \in DOMAIN req'[q].g.segs
        PROVE  [ref |-> <<q, i>>, ro |-> Readonly(req'[q].g.dir)] \in grant'
    <3>. DEFINE e == [ref |-> <<q, i>>, ro |-> Readonly(req'[q].g.dir)]
    <3>1. q # r
      BY <1>1, <2>1 DEF Open
    <3>2. e \in grant
      BY <1>1, <2>1, <3>1 DEF DataInv, GrantInv
    <3>3. e.ref[1] = q
      OBVIOUS
    <3>4. grant' = {g \in grant : g.ref[1] # r}
      OBVIOUS
    <3>. HIDE DEF e
    <3>5. e \in grant'
      BY <3>1, <3>2, <3>3, <3>4
    <3>. QED  BY <3>5 DEF e
  <2>. QED  BY <2>1 DEF GrantInv
<1>8. MapInv'
  BY <1>5, MapKept
<1>9. WorkInv'
  BY <1>4, <1>5, WorkKept DEF Dispatched, Geom
<1>10. QueueInv'
  BY <1>4, <1>5, QueueKept DEF Geom
<1>11. DoneInv'
  <2>1. ASSUME NEW q \in Request
        PROVE  /\ Answered(req'[q], 0) => MovedTo(moved[q], req'[q].g, Len(req'[q].g.segs) + 1)
               /\ req'[q].st \in {"new", "sent"} \/ Answered(req'[q], -1) => moved[q] = <<>>
    <3>1. /\ Answered(req[q], 0) => MovedTo(moved[q], req[q].g, Len(req[q].g.segs) + 1)
          /\ req[q].st \in {"new", "sent"} \/ Answered(req[q], -1) => moved[q] = <<>>
      BY DEF DataInv, DoneInv
    <3>. QED  BY <1>1, <3>1 DEF Answered
  <2>. QED  BY <1>5, <2>1 DEF DataInv, DoneInv
<1>. QED  BY <1>2, <1>6, <1>7, <1>8, <1>9, <1>10, <1>11 DEF DataInv

-----------------------------------------------------------------------------
(* The request thread, up to the mapping of the pages *)

LEMMA ClaimKeeps ==
  ASSUME DataInv, NEW p \in Pending, NEW r \in Request, Claim(p, r)
  PROVE  DataInv'
<1>. USE DEF Claim
<1>1. /\ req' \in [Request -> [st : States, g : Geometry \cup {NoGeometry}, res : {0, -1}]]
      /\ req[r].st = "sent" /\ req'[r].st = "taken" /\ req[r].g \in Geometry
      /\ \A q \in Request : req'[q].g = req[q].g /\ (q # r => req'[q] = req[q])
  BY DEF DataInv, TypeOK, States
<1>2. /\ pend' \in [Pending -> PendingReq]
      /\ pend'[p] = [stage |-> "claimed", req |-> r, operation |-> req[r].g.dir,
                     nr_pages |-> Len(req[r].g.segs), pendcnt |-> 0, status |-> 0]
      /\ \A q \in Pending : q # p => pend'[q] = pend[q]
  <2>. DEFINE new == [stage |-> "claimed", req |-> r, operation |-> req[r].g.dir,
                      nr_pages |-> Len(req[r].g.segs), pendcnt |-> 0, status |-> 0]
  <2>1. new \in PendingReq
    BY <1>1, GeometryShape DEF PendingReq, Stages
  <2>2. pend \in [Pending -> PendingReq] /\ pend' = [pend EXCEPT ![p] = new]
    BY DEF DataInv, TypeOK
  <2>. HIDE DEF new
  <2>. QED  BY <2>1, <2>2 DEF new
<1>3. work' = [NoWork EXCEPT !.sector = req[r].g.pos] /\ work' \in [i : Nat, sector : Int, biolist : Seq(Bio)]
  <2>1. req[r].g.pos \in Int /\ <<>> \in Seq(Bio)
    BY <1>1, GeometryShape
  <2>. QED  BY <2>1 DEF NoWork
<1>4. TypeOK'
  BY <1>1, <1>2, <1>3 DEF DataInv, TypeOK
<1>5. /\ Stage(p) = "free" /\ Stage(p)' = "claimed" /\ Geom(p)' = req[r].g
      /\ \A q \in Pending : q # p => Stage(q)' = Stage(q)
      /\ \A q \in Pending : Stage(q) \notin Dispatched
  BY <1>1, <1>2 DEF Stage, Geom, Dispatched
<1>6. \A q \in Pending : Stage(q) # "free" =>
        /\ q # p /\ pend[q].req \in Request /\ pend[q].req # r
        /\ pend'[q] = pend[q] /\ req'[pend[q].req] = req[pend[q].req]
  BY <1>1, <1>2, <1>5, InUse
<1>7. PendInv'
  <2>1. Serves(p)'
    BY <1>1, <1>2, <1>5 DEF Serves, Holding, Stage
  <2>2. \A q \in Pending : q # p /\ Stage(q)' # "free" => Serves(q)'
    BY <1>5, <1>6, ServesKept
  <2>3. ASSUME NEW q \in Pending, NEW s \in Pending, Stage(q)' # "free", Stage(s)' # "free",
               pend'[q].req = pend'[s].req
        PROVE  q = s
    <3>1. CASE q # p /\ s # p
      BY <1>5, <1>6, <2>3, <3>1 DEF DataInv, PendInv
    <3>2. CASE q = p \/ s = p
      BY <1>2, <1>5, <1>6, <2>3, <3>2
    <3>. QED  BY <3>1, <3>2
  <2>4. \A q, s \in Pending : Stage(q)' \in Dispatched /\ Stage(s)' \in Dispatched => q = s
    BY <1>5
  <2>. QED  BY <2>1, <2>2, <2>3, <2>4 DEF PendInv
<1>8. GrantInv'
  BY <1>1, GrantKept DEF Open
<1>9. MapInv'
  BY <1>2, <1>5, MapKept DEF Holding
<1>10. WorkInv'
  BY <1>1, <1>3, <1>5 DEF WorkInv, Dispatched
<1>11. QueueInv'
  BY <1>5, <1>6, QueueKept DEF Dispatched, Geom
<1>12. DoneInv'
  <2>1. ASSUME NEW q \in Request
        PROVE  /\ Answered(req'[q], 0) => MovedTo(moved[q], req'[q].g, Len(req'[q].g.segs) + 1)
               /\ req'[q].st \in {"new", "sent"} \/ Answered(req'[q], -1) => moved[q] = <<>>
    BY <1>1 DEF DataInv, DoneInv, Answered
  <2>2. moved[r] = <<>>
    BY <1>1 DEF DataInv, DoneInv
  <2>3. \A q \in Pending : Stage(q)' \in {"claimed", "mapped"} => q = p
    BY <1>5 DEF Dispatched
  <2>. QED  BY <1>2, <2>1, <2>2, <2>3 DEF DoneInv
<1>. QED  BY <1>4, <1>7, <1>8, <1>9, <1>10, <1>11, <1>12 DEF DataInv

\* A request the thread gives up before any of its pages is in a bio.
LEMMA GivenUp ==
  ASSUME DataInv, NEW p \in Pending, Stage(p) = "claimed", Answer(pend[p].req, -1),
         pend' = [pend EXCEPT ![p] = FreePend], work' = NoWork,
         UNCHANGED <<block, grant, mapped, handle, queue, rq_pos, moved>>
  PROVE  DataInv'
<1>. DEFINE r == pend[p].req
<1>1. r \in Request /\ req[r].st = "taken" /\ Geom(p) \in Geometry
  BY InUse
<1>2. /\ req' \in [Request -> [st : States, g : Geometry \cup {NoGeometry}, res : {0, -1}]]
      /\ req'[r].st = "answered" /\ req'[r].res = -1
      /\ \A q \in Request : req'[q].g = req[q].g /\ (q # r => req'[q] = req[q])
  <2>1. req' = [req EXCEPT ![r].st = "answered", ![r].res = -1]
    BY DEF Answer
  <2>. QED  BY <1>1, <2>1 DEF DataInv, TypeOK, States
<1>3. pend' \in [Pending -> PendingReq] /\ Stage(p)' = "free"
      /\ \A q \in Pending : q # p => pend'[q] = pend[q] /\ Stage(q)' = Stage(q)
  BY DEF DataInv, TypeOK, FreePend, PendingReq, Stages, READ, Stage
<1>4. TypeOK'
  <2>1. NoWork \in [i : Nat, sector : Int, biolist : Seq(Bio)]
    BY DEF NoWork
  <2>. QED  BY <1>1, <1>2, <1>3, <2>1 DEF DataInv, TypeOK, Geom
<1>5. \A q \in Pending : Stage(q) \in Dispatched => q = p
  BY DEF DataInv, PendInv, Dispatched
<1>6. \A q \in Pending : Stage(q) # "free" /\ q # p =>
        /\ pend[q].req \in Request /\ pend[q].req # r
        /\ pend'[q] = pend[q] /\ req'[pend[q].req] = req[pend[q].req]
  BY <1>1, <1>2, <1>3, InUse DEF DataInv, PendInv
<1>7. PendInv'
  <2>1. \A q \in Pending : Stage(q)' # "free" => q # p /\ Stage(q) # "free" /\ Serves(q)'
    BY <1>3, <1>6, ServesKept
  <2>. QED  BY <1>3, <2>1 DEF DataInv, PendInv, Dispatched
<1>8. GrantInv'
  <2>1. \A q \in Request : req'[q].st \in Open => req[q].st \in Open
    BY <1>1, <1>2 DEF Open
  <2>. QED  BY <1>2, <2>1, GrantKept
<1>9. MapInv'
  BY <1>3, MapKept DEF Holding
<1>10. WorkInv'
  BY <1>3, <1>5 DEF WorkInv, Dispatched
<1>11. QueueInv'
  BY <1>5, <1>6, QueueKept DEF Dispatched, Geom
<1>12. DoneInv'
  <2>1. moved[r] = <<>>
    BY DEF DataInv, DoneInv
  <2>2. ASSUME NEW q \in Request
        PROVE  /\ Answered(req'[q], 0) => MovedTo(moved[q], req'[q].g, Len(req'[q].g.segs) + 1)
               /\ req'[q].st \in {"new", "sent"} \/ Answered(req'[q], -1) => moved[q] = <<>>
    <3>1. CASE q = r
      BY <1>2, <2>1, <3>1 DEF Answered
    <3>2. CASE q # r
      BY <1>2, <3>2 DEF DataInv, DoneInv
    <3>. QED  BY <3>1, <3>2
  <2>3. \A q \in Pending : Stage(q)' \notin {"claimed", "mapped"}
    BY <1>3, <1>5 DEF Dispatched
  <2>. QED  BY <2>2, <2>3 DEF DoneInv
<1>. QED  BY <1>4, <1>7, <1>8, <1>9, <1>10, <1>11, <1>12 DEF DataInv

\* map_pages_to_req, both ways.
LEMMA MapPagesKeeps ==
  ASSUME DataInv, NEW p \in Pending, NEW bad \in SUBSET (1 .. MaxSegs), MapPages(p, bad)
  PROVE  DataInv'
<1>. DEFINE r == pend[p].req
            nr == pend[p].nr_pages
            segs == 1 .. nr
            good == {i \in segs : i \notin bad /\ ~Refused(p, i)}
            new == {[p |-> p, i |-> i, ref |-> <<r, i>>] : i \in good}
            handles == [handle EXCEPT ![p] = [i \in DOMAIN @ |->
                          IF i \in good THEN <<r, i>> ELSE IF i \in segs THEN INVALID ELSE @[i]]]
            Kept == UNCHANGED <<block, grant, queue, rq_pos, moved>>
<1>1. Stage(p) = "claimed" /\ WellFormed(Geom(p)) /\ Kept
  BY DEF MapPages, Stage
<1>2. \/ good = segs /\ mapped' = mapped \cup new /\ handle' = handles
         /\ pend' = [pend EXCEPT ![p].stage = "mapped"] /\ UNCHANGED <<req, work>>
      \/ UnmapPages(p, mapped \cup new, handles) /\ Answer(r, -1)
         /\ pend' = [pend EXCEPT ![p] = FreePend] /\ work' = NoWork
  BY DEF MapPages
<1>3. /\ r \in Request /\ req[r].st = "taken" /\ Geom(p) \in Geometry
      /\ pend[p].operation = Geom(p).dir /\ nr = Len(Geom(p).segs)
      /\ nr \in 1 .. MaxSegs
  BY <1>1, InUse
<1>4. /\ handle \in [Pending -> [1 .. MaxSegs -> (Request \X (1 .. MaxSegs)) \cup {INVALID}]]
      /\ \A i \in 1 .. MaxSegs : handle[p][i] = INVALID
      /\ \A q \in Pending, i \in 1 .. MaxSegs :
           handle[q][i] = IF Stage(q) \in Holding /\ i <= pend[q].nr_pages
                          THEN <<pend[q].req, i>> ELSE INVALID
  BY <1>1 DEF DataInv, TypeOK, MapInv, Holding
<1>5. MaxSegs \in Nat
  BY DataPathAssumption
<1>6. /\ handles \in [Pending -> [1 .. MaxSegs -> (Request \X (1 .. MaxSegs)) \cup {INVALID}]]
      /\ \A i \in 1 .. MaxSegs : handles[p][i] = IF i \in good THEN <<r, i>> ELSE INVALID
      /\ \A q \in Pending : q # p => handles[q] = handle[q]
  <2>. DEFINE row == [i \in 1 .. MaxSegs |-> IF i \in good THEN <<r, i>> ELSE INVALID]
  <2>1. DOMAIN handle[p] = 1 .. MaxSegs
    BY <1>4
  <2>2. [i \in DOMAIN handle[p] |-> IF i \in good THEN <<r, i>> ELSE IF i \in segs THEN INVALID ELSE handle[p][i]] = row
    BY <1>4, <2>1
  <2>3. handles = [handle EXCEPT ![p] = row]
    BY <2>2
  <2>4. row \in [1 .. MaxSegs -> (Request \X (1 .. MaxSegs)) \cup {INVALID}]
    BY <1>3
  <2>. QED  BY <1>4, <2>3, <2>4
<1>7. \A m \in mapped : m.p \in Pending /\ m.p # p
  <2>1. ASSUME NEW m \in mapped PROVE m.p \in Pending /\ m.p # p
    <3>1. PICK q \in Pending : /\ Stage(q) \in Holding
                               /\ \E i \in 1 .. pend[q].nr_pages : m = Entry(q, i)
      BY DEF DataInv, MapInv
    <3>. QED  BY <1>1, <3>1 DEF Entry, Holding
  <2>. QED  BY <2>1
<1>. HIDE DEF handles
<1>8. CASE /\ UnmapPages(p, mapped \cup new, handles) /\ Answer(r, -1)
           /\ pend' = [pend EXCEPT ![p] = FreePend] /\ work' = NoWork
  <2>1. handle' = handle
    <3>. DEFINE row == [i \in 1 .. MaxSegs |-> INVALID]
    <3>1. DOMAIN handles[p] = 1 .. MaxSegs
      BY <1>6
    <3>2. [i \in DOMAIN handles[p] |-> IF i <= nr THEN INVALID ELSE handles[p][i]] = row
      BY <1>3, <1>6, <3>1
    <3>3. handle' = [handles EXCEPT ![p] = row]
      BY <1>8, <3>2 DEF UnmapPages
    <3>4. handle' \in [Pending -> [1 .. MaxSegs -> (Request \X (1 .. MaxSegs)) \cup {INVALID}]]
      BY <1>6, <3>3
    <3>5. \A q \in Pending : handle'[q] = handle[q]
      <4>1. handle[p] = row
        BY <1>4
      <4>2. handle'[p] = row /\ \A q \in Pending : q # p => handle'[q] = handle[q]
        BY <1>6, <3>3
      <4>. QED  BY <4>1, <4>2
    <3>. QED  BY <1>4, <3>4, <3>5
  <2>2. mapped' = mapped
    <3>1. mapped' = (mapped \cup new) \ {m \in mapped \cup new :
                       m.p = p /\ m.i \in segs /\ m.ref = handles[p][m.i]}
      BY <1>8 DEF UnmapPages
    <3>2. ASSUME NEW m \in new PROVE m.p = p /\ m.i \in segs /\ m.ref = handles[p][m.i]
      <4>1. PICK i \in good : m = [p |-> p, i |-> i, ref |-> <<r, i>>]
        OBVIOUS
      <4>2. i \in 1 .. MaxSegs /\ i \in segs
        BY <1>3, <1>5
      <4>3. handles[p][i] = <<r, i>>
        BY <1>6, <4>2
      <4>. QED  BY <4>1, <4>2, <4>3
    <3>. HIDE DEF new, segs
    <3>. QED  BY <1>7, <3>1, <3>2
  <2>. QED  BY <1>1, <1>8, <2>1, <2>2, GivenUp
<1>9. CASE /\ good = segs /\ mapped' = mapped \cup new /\ handle' = handles
           /\ pend' = [pend EXCEPT ![p].stage = "mapped"] /\ UNCHANGED <<req, work>>
  <2>1. /\ pend' \in [Pending -> PendingReq] /\ Stage(p)' = "mapped"
        /\ pend'[p] = [pend[p] EXCEPT !.stage = "mapped"]
        /\ pend'[p].req = r /\ pend'[p].nr_pages = nr /\ pend'[p].operation = pend[p].operation
        /\ pend'[p].status = pend[p].status
        /\ \A q \in Pending : q # p => pend'[q] = pend[q] /\ Stage(q)' = Stage(q)
    BY <1>9 DEF DataInv, TypeOK, PendingReq, Stages, Stage
  <2>2. TypeOK'
    BY <1>1, <1>6, <1>9, <2>1 DEF DataInv, TypeOK
  <2>3. \A q \in Pending : Geom(q)' = Geom(q) /\ pend'[q].req = pend[q].req
    BY <1>9, <2>1 DEF Geom
  <2>4. \A q \in Pending : Stage(q) \in Dispatched => q = p
    BY <1>1 DEF DataInv, PendInv, Dispatched
  <2>5. PendInv'
    <3>1. Serves(p)'
      <4>1. Serves(p)
        BY <1>1 DEF DataInv, PendInv
      <4>. QED  BY <1>1, <1>9, <2>1, <2>3, <4>1 DEF Serves, WellFormed
    <3>2. \A q \in Pending : q # p /\ Stage(q)' # "free" => Serves(q)'
      BY <1>1, <1>9, <2>1, ServesKept
    <3>3. \A q \in Pending : Stage(q)' # "free" <=> Stage(q) # "free"
      BY <1>1, <2>1
    <3>4. \A q \in Pending : Stage(q)' \in Dispatched => q = p
      BY <2>1, <2>4
    <3>. QED  BY <2>3, <3>1, <3>2, <3>3, <3>4 DEF DataInv, PendInv
  <2>6. GrantInv'
    BY <1>1, <1>9, GrantKept
  <2>7. MapInv'
    <3>1. ASSUME NEW q \in Pending, NEW i \in 1 .. MaxSegs
          PROVE  handle'[q][i] = IF Stage(q)' \in Holding /\ i <= pend'[q].nr_pages
                                 THEN <<pend'[q].req, i>> ELSE INVALID
      <4>1. CASE q = p
        BY <1>3, <1>6, <1>9, <2>1, <4>1 DEF Holding
      <4>2. CASE q # p
        BY <1>4, <1>6, <1>9, <2>1, <4>2
      <4>. QED  BY <4>1, <4>2
    <3>2. ASSUME NEW q \in Pending, Stage(q)' \in Holding, NEW i \in 1 .. pend'[q].nr_pages
          PROVE  Entry(q, i)' \in mapped'
      <4>1. CASE q = p
        BY <1>9, <2>1, <3>2, <4>1 DEF Entry
      <4>2. CASE q # p
        BY <1>9, <2>1, <3>2, <4>2 DEF Entry, DataInv, MapInv
      <4>. QED  BY <4>1, <4>2
    <3>3. ASSUME NEW m \in mapped'
          PROVE  \E q \in Pending : /\ Stage(q)' \in Holding
                                    /\ \E i \in 1 .. pend'[q].nr_pages : m = Entry(q, i)'
      <4>1. CASE m \in new
        BY <1>9, <2>1, <4>1 DEF Entry, Holding
      <4>2. CASE m \in mapped
        <5>1. PICK q \in Pending : /\ Stage(q) \in Holding
                                   /\ \E i \in 1 .. pend[q].nr_pages : m = Entry(q, i)
          BY <4>2 DEF DataInv, MapInv
        <5>2. q # p
          BY <1>1, <5>1 DEF Holding
        <5>. QED  BY <2>1, <5>1, <5>2 DEF Entry
      <4>. QED  BY <1>9, <4>1, <4>2
    <3>. QED  BY <3>1, <3>2, <3>3 DEF MapInv
  <2>8. WorkInv'
    <3>1. work = [NoWork EXCEPT !.sector = Geom(p).pos]
      BY <1>1 DEF DataInv, WorkInv
    <3>2. work.i = 1 /\ work.sector = Geom(p).pos /\ work.biolist = <<>> /\ Len(work.biolist) = 0
      BY <3>1 DEF NoWork
    <3>3. InHand(p)'
      <4>1. work'.i \in 1 .. pend'[p].nr_pages + 1
        BY <1>3, <1>9, <2>1, <3>2
      <4>. QED  BY <1>9, <3>2, <4>1 DEF InHand
    <3>4. Building(p)'
      <4>1. Before(Geom(p).segs, 1) = 0 /\ Geom(p).pos \in Nat
        BY <1>3, BeforeCounts, GeometryShape
      <4>2. Geom(p).pos % block = 0
        <5>1. 1 \in DOMAIN Geom(p).segs
          BY <1>3, GeometryShape
        <5>. QED  BY <1>1, <5>1 DEF WellFormed
      <4>. QED  BY <1>1, <1>9, <2>3, <3>2, <4>1, <4>2 DEF Building
    <3>. QED  BY <2>1, <2>4, <3>3, <3>4 DEF WorkInv, Dispatched
  <2>9. QueueInv'
    <3>1. \A q \in Pending : Stage(q) \in {"submitting", "io"} => pend'[q] = pend[q]
      BY <1>1, <2>1
    <3>. QED  BY <1>1, <1>9, <3>1, QueueKept DEF Geom
  <2>10. DoneInv'
    <3>1. \A q \in Pending : Stage(q)' \in {"claimed", "mapped"} => q = p
      BY <2>1, <2>4 DEF Dispatched
    <3>2. moved[r] = <<>>
      BY <1>1 DEF DataInv, DoneInv
    <3>. QED  BY <1>1, <1>9, <2>1, <3>1, <3>2 DEF DataInv, DoneInv
  <2>. QED  BY <2>2, <2>5, <2>6, <2>7, <2>8, <2>9, <2>10 DEF DataInv
<1>. QED  BY <1>2, <1>8, <1>9

-----------------------------------------------------------------------------
(* The request thread, from the first bio to the count *)

\* The structure the thread has in hand, its pages mapped.
LEMMA InMapped ==
  ASSUME DataInv, NEW p \in Pending, Stage(p) = "mapped"
  PROVE  /\ Geom(p) \in Geometry /\ pend[p].nr_pages = Len(Geom(p).segs)
         /\ pend[p].nr_pages \in 1 .. MaxSegs /\ pend[p].req \in Request
         /\ WellFormed(Geom(p)) /\ InHand(p) /\ Building(p)
         /\ work \in [i : Nat, sector : Int, biolist : Seq(Bio)]
         /\ work.i \in 1 .. pend[p].nr_pages + 1
         /\ moved[pend[p].req] = <<>>
         /\ \A q \in Pending : Stage(q) \in Dispatched => q = p
<1>1. Serves(p) /\ InHand(p) /\ Building(p) /\ moved[pend[p].req] = <<>>
      /\ \A q \in Pending : Stage(q) \in Dispatched => q = p
  BY DEF DataInv, PendInv, WorkInv, DoneInv, Dispatched
<1>. QED  BY <1>1, InUse DEF Serves, Holding, InHand, DataInv, TypeOK

\* What NoBio and CountBios make of a structure.
LEMMA Lost ==
  ASSUME NEW x \in PendingReq
  PROVE  LET y == [x EXCEPT !.stage = "lost", !.pendcnt = -1, !.status = -1]
         IN  /\ y \in PendingReq /\ y.stage = "lost" /\ y.req = x.req
             /\ y.nr_pages = x.nr_pages /\ y.operation = x.operation
<1>1. "lost" \in Stages /\ -1 \in Int /\ -1 \in {0, -1}
  BY DEF Stages
<1>. QED  BY <1>1 DEF PendingReq

LEMMA Submitted ==
  ASSUME NEW x \in PendingReq, NEW n \in Int
  PROVE  LET y == [x EXCEPT !.stage = "submitting", !.pendcnt = n]
         IN  /\ y \in PendingReq /\ y.stage = "submitting" /\ y.pendcnt = n /\ y.req = x.req
             /\ y.nr_pages = x.nr_pages /\ y.operation = x.operation /\ y.status = x.status
<1>1. "submitting" \in Stages
  BY DEF Stages
<1>. QED  BY <1>1 DEF PendingReq

LEMMA NoBioKeeps ==
  ASSUME DataInv, NEW p \in Pending, NoBio(p)
  PROVE  DataInv'
<1>. USE DEF NoBio
<1>1. Stage(p) = "mapped"
  BY DEF Stage
<1>2. /\ pend' \in [Pending -> PendingReq] /\ Stage(p)' = "lost"
      /\ pend'[p].req = pend[p].req /\ pend'[p].nr_pages = pend[p].nr_pages
      /\ pend'[p].operation = pend[p].operation
      /\ \A q \in Pending : q # p => pend'[q] = pend[q] /\ Stage(q)' = Stage(q)
  <2>. DEFINE new == [pend[p] EXCEPT !.stage = "lost", !.pendcnt = -1, !.status = -1]
  <2>1. pend \in [Pending -> PendingReq] /\ pend' = [pend EXCEPT ![p] = new]
    BY DEF DataInv, TypeOK
  <2>2. pend[p] \in PendingReq
    BY <2>1
  <2>3. /\ new \in PendingReq /\ new.stage = "lost" /\ new.req = pend[p].req
        /\ new.nr_pages = pend[p].nr_pages /\ new.operation = pend[p].operation
    BY <2>2, Lost
  <2>. HIDE DEF new
  <2>. QED  BY <2>1, <2>3 DEF Stage
<1>3. TypeOK'
  <2>1. NoWork \in [i : Nat, sector : Int, biolist : Seq(Bio)]
    BY DEF NoWork
  <2>. QED  BY <1>2, <2>1 DEF DataInv, TypeOK
<1>4. \A q \in Pending : Geom(q)' = Geom(q) /\ pend'[q].req = pend[q].req
  BY <1>2 DEF Geom
<1>5. \A q \in Pending : Stage(q) \in Dispatched => q = p
  BY <1>1, InMapped
<1>6. PendInv'
  <2>1. Serves(p)'
    <3>1. Serves(p)
      BY <1>1 DEF DataInv, PendInv
    <3>. QED  BY <1>1, <1>2, <1>4, <3>1 DEF Serves, WellFormed, Holding
  <2>2. \A q \in Pending : q # p /\ Stage(q)' # "free" => Serves(q)'
    BY <1>2, ServesKept
  <2>3. \A q \in Pending : Stage(q)' # "free" <=> Stage(q) # "free"
    BY <1>1, <1>2
  <2>4. \A q \in Pending : Stage(q)' \notin Dispatched
    BY <1>2, <1>5 DEF Dispatched
  <2>. QED  BY <1>4, <2>1, <2>2, <2>3, <2>4 DEF DataInv, PendInv
<1>7. GrantInv'
  BY GrantKept
<1>8. MapInv'
  <2>1. \A q \in Pending : Stage(q)' \in Holding <=> Stage(q) \in Holding
    BY <1>1, <1>2 DEF Holding
  <2>. QED  BY <1>2, <2>1, MapKept
<1>9. WorkInv'
  BY <1>2, <1>5 DEF WorkInv, Dispatched
<1>10. QueueInv'
  <2>1. \A q \in Pending : Stage(q) \in {"submitting", "io"} => pend'[q] = pend[q]
    BY <1>1, <1>2
  <2>2. \A q \in Pending : Stage(q) # "submitting"
    BY <1>1, <1>5 DEF Dispatched
  <2>. QED  BY <2>1, <2>2, QueueKept DEF Geom
<1>11. DoneInv'
  <2>1. \A q \in Pending : Stage(q)' \notin {"claimed", "mapped"}
    BY <1>2, <1>5 DEF Dispatched
  <2>. QED  BY <2>1 DEF DataInv, DoneInv
<1>. QED  BY <1>3, <1>6, <1>7, <1>8, <1>9, <1>10, <1>11 DEF DataInv

\* Bios of structure p and geometry g that follow one another from the first segment
\* up to the i-th.
Chain(bios, p, g, i) ==
  /\ \A k \in 1 .. Len(bios) : bios[k].p = p /\ BioIn(bios[k], g) /\ StartsIn(bios[k], g)
  /\ \A k \in 1 .. Len(bios) - 1 : bios[k + 1].next = bios[k].last + 1
  /\ bios = <<>> => i = 1
  /\ bios # <<>> => bios[1].next = 1 /\ bios[Len(bios)].last = i - 1

LEMMA ChainAppended ==
  ASSUME NEW p, NEW g, NEW i \in Nat, NEW old \in Seq(Bio), Chain(old, p, g, i),
         NEW new \in Bio, new.p = p, BioIn(new, g), StartsIn(new, g), new.next = i, new.last = i
  PROVE  /\ Append(old, new) \in Seq(Bio) /\ Append(old, new) # <<>>
         /\ Chain(Append(old, new), p, g, i + 1)
<1>. DEFINE bios == Append(old, new)  n == Len(old)
<1>1. /\ bios \in Seq(Bio) /\ bios # <<>> /\ Len(bios) = n + 1
      /\ \A k \in 1 .. n : bios[k] = old[k]
      /\ bios[n + 1] = new
  BY AppendProperties
<1>2. n \in Nat /\ (old = <<>> <=> n = 0)
  BY EmptySeq, LenProperties
<1>. HIDE DEF bios, n
<1>3. ASSUME NEW k \in 1 .. n + 1 PROVE bios[k].p = p /\ BioIn(bios[k], g) /\ StartsIn(bios[k], g)
  <2>1. CASE k \in 1 .. n
    BY <1>1, <2>1 DEF Chain, n
  <2>2. CASE k = n + 1
    BY <1>1, <2>2
  <2>. QED  BY <1>2, <2>1, <2>2
<1>4. ASSUME NEW k \in 1 .. (n + 1) - 1 PROVE bios[k + 1].next = bios[k].last + 1
  <2>1. CASE k \in 1 .. n - 1
    <3>1. old[k + 1].next = old[k].last + 1
      BY <2>1 DEF Chain, n
    <3>2. k \in 1 .. n /\ k + 1 \in 1 .. n
      BY <1>2, <2>1
    <3>. QED  BY <1>1, <3>1, <3>2
  <2>2. CASE k = n
    <3>1. old[n].last = i - 1
      BY <1>2, <2>2 DEF Chain, n
    <3>. QED  BY <1>1, <1>2, <2>2, <3>1
  <2>. QED  BY <1>2, <2>1, <2>2
<1>5. bios[1].next = 1
  <2>1. CASE n = 0
    BY <1>1, <1>2, <2>1 DEF Chain
  <2>2. CASE n # 0
    <3>1. 1 \in 1 .. n /\ old[1].next = 1
      BY <1>2, <2>2 DEF Chain
    <3>. QED  BY <1>1, <3>1
  <2>. QED  BY <2>1, <2>2
<1>6. bios[n + 1].last = (i + 1) - 1
  BY <1>1
<1>. QED  BY <1>1, <1>2, <1>3, <1>4, <1>5, <1>6 DEF Chain, bios

LEMMA ChainLengthened ==
  ASSUME NEW p, NEW g, NEW i \in Nat, NEW old \in Seq(Bio), Chain(old, p, g, i), old # <<>>,
         NEW new \in Bio, new.p = p, BioIn(new, g), StartsIn(new, g),
         new.next = old[Len(old)].next, new.last = i
  PROVE  LET bios == [old EXCEPT ![Len(old)] = new]
         IN  bios \in Seq(Bio) /\ bios # <<>> /\ Chain(bios, p, g, i + 1)
<1>. DEFINE n == Len(old)  bios == [old EXCEPT ![n] = new]
<1>1. n \in Nat /\ n \in 1 .. n
  BY EmptySeq, LenProperties
<1>2. /\ bios \in Seq(Bio) /\ Len(bios) = n
      /\ \A k \in 1 .. n : bios[k] = IF k = n THEN new ELSE old[k]
  BY <1>1, ExceptSeq
<1>3. bios # <<>>
  BY <1>1, <1>2
<1>. HIDE DEF bios, n
<1>4. ASSUME NEW k \in 1 .. n PROVE bios[k].p = p /\ BioIn(bios[k], g) /\ StartsIn(bios[k], g)
  <2>1. CASE k = n
    BY <1>2, <2>1
  <2>2. CASE k # n
    BY <1>2, <2>2 DEF Chain, n
  <2>. QED  BY <2>1, <2>2
<1>5. ASSUME NEW k \in 1 .. n - 1 PROVE bios[k + 1].next = bios[k].last + 1
  <2>1. old[k + 1].next = old[k].last + 1
    BY DEF Chain, n
  <2>2. k \in 1 .. n /\ k + 1 \in 1 .. n /\ k # n
    BY <1>1
  <2>3. bios[k] = old[k] /\ bios[k + 1].next = old[k + 1].next
    BY <1>2, <2>2 DEF n
  <2>. QED  BY <2>1, <2>3
<1>6. bios[1].next = 1
  <2>1. old[1].next = 1 /\ 1 \in 1 .. n
    BY <1>1 DEF Chain
  <2>. QED  BY <1>2, <2>1 DEF n
<1>7. bios[n].last = (i + 1) - 1
  BY <1>1, <1>2
<1>. QED  BY <1>2, <1>3, <1>4, <1>5, <1>6, <1>7 DEF Chain, bios, n

\* The last bio with one more page.
WithPage(b, i) == [b EXCEPT !.last = i, !.sectors = @ + Nsec(b.segs[i])]

LEMMA BioLonger ==
  ASSUME NEW g \in Geometry, NEW i \in 1 .. Len(g.segs), NEW b \in Bio, BioIn(b, g), b.last = i - 1
  PROVE  LET new == WithPage(b, i)
         IN  /\ new \in Bio /\ new.p = b.p /\ new.next = b.next /\ new.last = i
             /\ new.pos = b.pos /\ BioIn(new, g)
<1>. DEFINE new == WithPage(b, i)  k == Nsec(g.segs[i])
<1>1. b.segs = g.segs /\ b.next \in 1 .. i - 1 /\ b.sectors \in Int /\ b.pos \in Int /\ i \in Nat
  BY GeometryShape DEF BioIn, Bio
<1>2. b.pos + b.sectors = g.pos + Before(g.segs, i)
  BY <1>1 DEF BioIn
<1>3. /\ Before(g.segs, i + 1) = Before(g.segs, i) + k
      /\ Before(g.segs, i) \in Nat /\ k \in Nat /\ g.pos \in Nat
  BY BeforeCounts, SegmentShape, GeometryShape
<1>. HIDE DEF k
<1>4. WithPage(b, i) = [b EXCEPT !.last = i, !.sectors = b.sectors + k]
  BY <1>1 DEF WithPage, k, Bio
<1>5. b.sectors + k \in Int
  BY <1>1, <1>3
<1>6. /\ new \in Bio /\ new.p = b.p /\ new.next = b.next /\ new.last = i /\ new.pos = b.pos
      /\ new.segs = b.segs /\ new.sectors = b.sectors + k
  BY <1>1, <1>4, <1>5 DEF Bio
<1>. HIDE DEF new
<1>7. new.pos + new.sectors = g.pos + Before(g.segs, i + 1)
  <2>1. new.pos + new.sectors = b.pos + (b.sectors + k)
    BY <1>6, Zenon
  <2>2. b.pos + (b.sectors + k) = (b.pos + b.sectors) + k
    BY <1>1, <1>3
  <2>3. (b.pos + b.sectors) + k = (g.pos + Before(g.segs, i)) + k
    BY <1>2, Zenon
  <2>4. (g.pos + Before(g.segs, i)) + k = g.pos + (Before(g.segs, i) + k)
    BY <1>3
  <2>. QED  BY <1>3, <2>1, <2>2, <2>3, <2>4, Zenon
<1>8. BioIn(new, g)
  BY <1>1, <1>2, <1>6, <1>7 DEF BioIn
<1>. QED  BY <1>6, <1>8 DEF new

\* The bios after the next page.
Grown(p, fits) == IF fits THEN Longer(work.biolist) ELSE Append(work.biolist, NewBio(p))

LEMMA BiosGrow ==
  ASSUME DataInv, NEW p \in Pending, Stage(p) = "mapped", work.i <= pend[p].nr_pages,
         NEW fits \in BOOLEAN, fits => work.biolist # <<>>
  PROVE  /\ Grown(p, fits) \in Seq(Bio) /\ Grown(p, fits) # <<>>
         /\ Chain(Grown(p, fits), p, Geom(p), work.i + 1)
<1>. DEFINE old == work.biolist
            g == Geom(p)
            i == work.i
<1>1. /\ g \in Geometry /\ InHand(p) /\ Building(p)
      /\ work \in [i : Nat, sector : Int, biolist : Seq(Bio)]
      /\ i \in 1 .. Len(g.segs)
  BY InMapped, GeometryShape
<1>2. old \in Seq(Bio) /\ i \in Nat /\ work.sector \in Int /\ Len(old) \in Nat
      /\ (old # <<>> => Len(old) # 0)
  BY <1>1
<1>3. Chain(old, p, g, i)
  BY <1>1, <1>2 DEF InHand, Building, Chain
<1>4. CASE fits
  <2>. DEFINE b == old[Len(old)]
              new == WithPage(b, i)
  <2>1. Len(old) \in 1 .. Len(old) /\ old # <<>>
    BY <1>2, <1>4
  <2>2. b \in Bio /\ b.p = p /\ BioIn(b, g) /\ StartsIn(b, g) /\ b.last = i - 1
    BY <1>2, <1>3, <2>1 DEF Chain
  <2>3. Grown(p, fits) = [old EXCEPT ![Len(old)] = new]
    BY <1>4 DEF Grown, Longer, WithPage
  <2>4. /\ new \in Bio /\ new.p = p /\ new.next = b.next /\ new.last = i /\ new.pos = b.pos
        /\ BioIn(new, g)
    BY <1>1, <2>2, BioLonger
  <2>. HIDE DEF new
  <2>5. StartsIn(new, g)
    BY <2>2, <2>4 DEF StartsIn
  <2>. HIDE DEF old, g, i
  <2>. QED  BY <1>2, <1>3, <2>1, <2>3, <2>4, <2>5, ChainLengthened DEF old, g, i
<1>5. CASE ~fits
  <2>. DEFINE new == NewBio(p)
  <2>1. /\ Before(g.segs, i + 1) = Before(g.segs, i) + Nsec(g.segs[i])
        /\ Before(g.segs, i) \in Nat /\ Nsec(g.segs[i]) \in Nat /\ g.pos \in Nat
        /\ g.segs \in Seq(Segment)
    BY <1>1, BeforeCounts, SegmentShape, GeometryShape
  <2>2. /\ new \in Bio /\ new.p = p /\ new.next = i /\ new.last = i /\ new.pos = work.sector
        /\ new.segs = g.segs /\ new.sectors = Nsec(g.segs[i])
    BY <1>2, <2>1 DEF NewBio, Bio
  <2>3. work.sector = g.pos + Before(g.segs, i) /\ work.sector % block = 0
    BY <1>1 DEF Building
  <2>4. BioIn(new, g) /\ StartsIn(new, g)
    <3>1. new.pos + new.sectors = g.pos + Before(g.segs, i + 1)
      BY <2>1, <2>2, <2>3
    <3>. QED  BY <1>1, <1>2, <2>2, <2>3, <3>1 DEF BioIn, StartsIn
  <2>5. Grown(p, fits) = Append(old, new)
    BY <1>5 DEF Grown
  <2>. HIDE DEF new
  <2>. QED  BY <1>2, <1>3, <2>2, <2>4, <2>5, ChainAppended
<1>. QED  BY <1>4, <1>5

LEMMA AddPageKeeps ==
  ASSUME DataInv, NEW p \in Pending, NEW fits \in BOOLEAN, AddPage(p, fits)
  PROVE  DataInv'
<1>. DEFINE g == Geom(p)  bios == Grown(p, fits)
<1>1. /\ Stage(p) = "mapped" /\ work.i <= pend[p].nr_pages /\ (fits => work.biolist # <<>>)
      /\ work' = [i |-> work.i + 1, sector |-> work.sector + Nsec(g.segs[work.i]), biolist |-> bios]
      /\ UNCHANGED <<block, req, grant, mapped, pend, handle, queue, rq_pos, moved>>
  BY DEF AddPage, Stage, Grown
<1>2. /\ g \in Geometry /\ pend[p].nr_pages = Len(g.segs) /\ work.i \in 1 .. Len(g.segs)
      /\ work.sector \in Int /\ WellFormed(g) /\ Building(p)
      /\ \A q \in Pending : Stage(q) \in Dispatched => q = p
  BY <1>1, InMapped, GeometryShape
<1>3. bios \in Seq(Bio) /\ bios # <<>> /\ Chain(bios, p, g, work.i + 1)
  BY <1>1, BiosGrow
<1>. HIDE DEF bios
<1>4. /\ work'.i = work.i + 1 /\ work'.biolist = bios
      /\ work'.sector = work.sector + Nsec(g.segs[work.i])
  BY <1>1
<1>5. /\ Before(g.segs, work.i + 1) = Before(g.segs, work.i) + Nsec(g.segs[work.i])
      /\ Before(g.segs, work.i) \in Nat /\ Nsec(g.segs[work.i]) \in Nat /\ g.pos \in Nat
      /\ Len(g.segs) \in Nat /\ work.i \in DOMAIN g.segs
  BY <1>2, BeforeCounts, SegmentShape, GeometryShape
<1>6. TypeOK'
  <2>1. work' \in [i : Nat, sector : Int, biolist : Seq(Bio)]
    BY <1>1, <1>2, <1>3, <1>5
  <2>. QED  BY <1>1, <2>1 DEF DataInv, TypeOK
<1>7. \A q \in Pending : pend'[q] = pend[q] /\ Stage(q)' = Stage(q) /\ Geom(q)' = Geom(q)
  BY <1>1 DEF Stage, Geom
<1>8. PendInv'
  <2>1. \A q \in Pending : Stage(q)' # "free" => Serves(q)'
    BY <1>1, <1>7, ServesKept
  <2>. QED  BY <1>7, <2>1 DEF DataInv, PendInv
<1>9. GrantInv'
  BY <1>1, GrantKept
<1>10. MapInv'
  BY <1>1, <1>7, MapKept
<1>11. WorkInv'
  <2>1. InHand(p)'
    <3>1. work'.i \in 1 .. pend[p].nr_pages + 1 /\ work'.i - 1 = work.i
      BY <1>2, <1>4, <1>5
    <3>2. Chain(work'.biolist, p, Geom(p)', work'.i)
      BY <1>3, <1>4, <1>7
    <3>3. \A b, h : (BioIn(b, h) <=> /\ b.segs = h.segs
                                     /\ b.next \in 1 .. b.last /\ b.last \in 1 .. Len(h.segs)
                                     /\ b.pos + b.sectors = h.pos + Before(h.segs, b.last + 1)
                                     /\ b.pos % block' = 0)
      BY <1>1 DEF BioIn
    <3>4. work'.biolist # <<>> /\ Len(work'.biolist) \in Nat
      BY <1>3, <1>4
    <3>. QED  BY <1>7, <3>1, <3>2, <3>3, <3>4 DEF InHand, BioIn, StartsIn, Chain
  <2>2. Building(p)'
    <3>1. work'.sector = g.pos + Before(g.segs, work'.i)
      BY <1>2, <1>4, <1>5 DEF Building
    <3>2. work'.sector % block = 0
      <4>1. block \in Nat \ {0}
        BY DataPathAssumption DEF DataInv, TypeOK
      <4>2. work.sector % block = 0 /\ Nsec(g.segs[work.i]) % block = 0
        BY <1>2, <1>5 DEF Building, WellFormed
      <4>. QED  BY <1>2, <1>4, <1>5, <4>1, <4>2, BlockSum
    <3>. QED  BY <1>1, <1>3, <1>4, <1>7, <3>1, <3>2 DEF Building, Chain
  <2>. QED  BY <1>1, <1>2, <1>7, <2>1, <2>2 DEF WorkInv, Dispatched
<1>12. QueueInv'
  <2>1. \A q \in Pending : Stage(q) # "submitting"
    BY <1>1, <1>2 DEF Dispatched
  <2>. QED  BY <1>1, <1>7, <2>1, QueueKept DEF Geom
<1>13. DoneInv'
  BY <1>1, <1>7 DEF DataInv, DoneInv
<1>. QED  BY <1>6, <1>8, <1>9, <1>10, <1>11, <1>12, <1>13 DEF DataInv

LEMMA CountBiosKeeps ==
  ASSUME DataInv, NEW p \in Pending, CountBios(p)
  PROVE  DataInv'
<1>. USE DEF CountBios
<1>1. Stage(p) = "mapped" /\ work.i > pend[p].nr_pages
  BY DEF Stage
<1>2. /\ Geom(p) \in Geometry /\ pend[p].nr_pages = Len(Geom(p).segs) /\ pend[p].nr_pages \in 1 .. MaxSegs
      /\ work \in [i : Nat, sector : Int, biolist : Seq(Bio)] /\ InHand(p) /\ Building(p)
      /\ work.i \in 1 .. pend[p].nr_pages + 1 /\ moved[pend[p].req] = <<>>
      /\ \A q \in Pending : Stage(q) \in Dispatched => q = p
  BY <1>1, InMapped
<1>3. Len(work.biolist) \in Nat
  BY <1>2
<1>4. /\ pend' \in [Pending -> PendingReq] /\ Stage(p)' = "submitting"
      /\ pend'[p].req = pend[p].req /\ pend'[p].nr_pages = pend[p].nr_pages
      /\ pend'[p].operation = pend[p].operation /\ pend'[p].status = pend[p].status
      /\ pend'[p].pendcnt = Len(work.biolist)
      /\ \A q \in Pending : q # p => pend'[q] = pend[q] /\ Stage(q)' = Stage(q)
  <2>. DEFINE new == [pend[p] EXCEPT !.stage = "submitting", !.pendcnt = Len(work.biolist)]
  <2>1. pend \in [Pending -> PendingReq] /\ pend' = [pend EXCEPT ![p] = new]
    BY DEF DataInv, TypeOK
  <2>2. pend[p] \in PendingReq
    BY <2>1
  <2>3. /\ new \in PendingReq /\ new.stage = "submitting" /\ new.pendcnt = Len(work.biolist)
        /\ new.req = pend[p].req /\ new.nr_pages = pend[p].nr_pages
        /\ new.operation = pend[p].operation /\ new.status = pend[p].status
    <3>1. Len(work.biolist) \in Int
      BY <1>3
    <3>. QED  BY <2>2, <3>1, Submitted, Zenon
  <2>. HIDE DEF new
  <2>. QED  BY <2>1, <2>3 DEF Stage
<1>5. TypeOK'
  BY <1>4 DEF DataInv, TypeOK
<1>6. \A q \in Pending : Geom(q)' = Geom(q) /\ pend'[q].req = pend[q].req
  BY <1>4 DEF Geom
<1>7. PendInv'
  <2>1. Serves(p)'
    <3>1. Serves(p)
      BY <1>1 DEF DataInv, PendInv
    <3>. QED  BY <1>1, <1>4, <1>6, <3>1 DEF Serves, WellFormed, Holding
  <2>2. \A q \in Pending : q # p /\ Stage(q)' # "free" => Serves(q)'
    BY <1>4, ServesKept
  <2>3. \A q \in Pending : Stage(q)' # "free" <=> Stage(q) # "free"
    BY <1>1, <1>4
  <2>4. \A q \in Pending : Stage(q)' \in Dispatched => q = p
    BY <1>2, <1>4
  <2>. QED  BY <1>6, <2>1, <2>2, <2>3, <2>4 DEF DataInv, PendInv
<1>8. GrantInv'
  BY GrantKept
<1>9. MapInv'
  <2>1. \A q \in Pending : Stage(q)' \in Holding <=> Stage(q) \in Holding
    BY <1>1, <1>4 DEF Holding
  <2>. QED  BY <1>4, <2>1, MapKept
<1>10. WorkInv'
  <2>1. InHand(p)'
    BY <1>2, <1>4, <1>6 DEF InHand, BioIn, StartsIn
  <2>2. Handing(p)'
    <3>1. work.i = pend[p].nr_pages + 1
      BY <1>1, <1>2
    <3>2. work.biolist # <<>> /\ work.biolist[1].next = 1
      BY <1>2, <3>1 DEF Building
    <3>3. \A n \in DOMAIN queue : queue[n].p # p
      BY <1>1, BioOfQueue
    <3>4. MovedTo(moved[pend[p].req], Geom(p), work.biolist[1].next)
      BY <1>2, <3>2, NothingMoved
    <3>. QED  BY <1>4, <1>6, <3>1, <3>2, <3>3, <3>4 DEF Handing
  <2>3. \A q \in Pending : Stage(q)' \in Dispatched => q = p
    BY <1>2, <1>4
  <2>. QED  BY <1>4, <2>1, <2>2, <2>3 DEF WorkInv, Dispatched
<1>11. QueueInv'
  <2>1. \A q \in Pending : Stage(q) \in {"submitting", "io"} => pend'[q] = pend[q]
    BY <1>1, <1>4
  <2>. QED  BY <2>1, QueueKept DEF Geom
<1>12. DoneInv'
  <2>1. \A q \in Pending : Stage(q)' \notin {"claimed", "mapped"}
    BY <1>2, <1>4 DEF Dispatched
  <2>. QED  BY <2>1 DEF DataInv, DoneInv
<1>. QED  BY <1>5, <1>7, <1>8, <1>9, <1>10, <1>11, <1>12 DEF DataInv

-----------------------------------------------------------------------------
(* submit_bio *)

LEMMA IoStage ==
  ASSUME NEW x \in PendingReq
  PROVE  LET y == [x EXCEPT !.stage = "io"]
         IN  /\ y \in PendingReq /\ y.stage = "io" /\ y.req = x.req /\ y.nr_pages = x.nr_pages
             /\ y.operation = x.operation /\ y.status = x.status /\ y.pendcnt = x.pendcnt
<1>1. "io" \in Stages
  BY DEF Stages
<1>. QED  BY <1>1 DEF PendingReq

\* The bio as the device's queue has it.
LEMMA EnqueuedBio ==
  ASSUME NEW bio \in Bio, NEW dir \in {READ, WRITE}, NEW merge \in BOOLEAN, NEW left \in Nat
  PROVE  LET c == Enqueued(bio, dir, merge, left)
         IN  /\ c \in QueuedBio
             /\ c.p = bio.p /\ c.pos = bio.pos /\ c.segs = bio.segs /\ c.next = bio.next
             /\ c.last = bio.last /\ c.sectors = bio.sectors /\ c.dir = dir /\ c.left = left
             /\ c.joined => queue # <<>> /\ queue[Len(queue)].pos + queue[Len(queue)].sectors = c.pos
<1>. DEFINE adjacent == /\ queue # <<>> /\ queue[Len(queue)].dir = dir
                        /\ queue[Len(queue)].pos + queue[Len(queue)].sectors = bio.pos
            joined == merge /\ adjacent
            c == [p |-> bio.p, pos |-> bio.pos, segs |-> bio.segs, next |-> bio.next,
                  last |-> bio.last, sectors |-> bio.sectors, dir |-> dir,
                  joined |-> joined, left |-> left]
<1>1. Enqueued(bio, dir, merge, left) = c
  BY Zenon DEF Enqueued
<1>2. joined \in BOOLEAN
  OBVIOUS
<1>3. joined => queue # <<>> /\ queue[Len(queue)].pos + queue[Len(queue)].sectors = bio.pos
  OBVIOUS
<1>. HIDE DEF joined
<1>4. c \in QueuedBio
  BY <1>2 DEF Bio, QueuedBio
<1>. QED  BY <1>1, <1>3, <1>4

\* The structure whose bios are submitted.
LEMMA InHandNow ==
  ASSUME DataInv, NEW p \in Pending, Stage(p) = "submitting"
  PROVE  /\ Geom(p) \in Geometry /\ pend[p].nr_pages = Len(Geom(p).segs)
         /\ pend[p].req \in Request /\ pend[p].operation \in {READ, WRITE}
         /\ InHand(p) /\ Handing(p)
         /\ work \in [i : Nat, sector : Int, biolist : Seq(Bio)]
         /\ work.biolist \in Seq(Bio) /\ work.biolist # <<>> /\ Len(work.biolist) \in Nat \ {0}
         /\ \A q \in Pending : Stage(q) \in Dispatched => q = p
<1>1. InHand(p) /\ Handing(p) /\ \A q \in Pending : Stage(q) \in Dispatched => q = p
  BY DEF DataInv, PendInv, WorkInv, Dispatched
<1>2. work \in [i : Nat, sector : Int, biolist : Seq(Bio)] /\ work.biolist # <<>>
  BY <1>1 DEF DataInv, TypeOK, Handing
<1>3. work.biolist \in Seq(Bio) /\ Len(work.biolist) \in Nat \ {0}
  BY <1>2, EmptySeq
<1>4. pend[p].operation \in {READ, WRITE}
  BY DEF DataInv, TypeOK, PendingReq
<1>. QED  BY <1>1, <1>2, <1>3, <1>4, InUse

LEMMA SubmitBioKeeps ==
  ASSUME DataInv, NEW p \in Pending, NEW merge \in BOOLEAN, SubmitBio(p, merge)
  PROVE  DataInv'
<1>. DEFINE bios == work.biolist
            n == Len(bios)
            bio == Head(bios)
            rest == Tail(bios)
            g == Geom(p)
<1>0. PICK N \in Nat : N = Len(queue)
  BY DEF DataInv, TypeOK
<1>1. /\ Stage(p) = "submitting"
      /\ queue' = Append(queue, Enqueued(bio, pend[p].operation, merge, Len(rest)))
      /\ rq_pos' = IF queue = <<>> THEN bio.pos ELSE rq_pos
      /\ \/ rest = <<>> /\ work' = NoWork /\ pend' = [pend EXCEPT ![p] = [pend[p] EXCEPT !.stage = "io"]]
         \/ rest # <<>> /\ work' = [work EXCEPT !.biolist = rest] /\ pend' = pend
      /\ UNCHANGED <<block, req, grant, mapped, handle, moved>>
  BY DEF SubmitBio, Stage
<1>2. /\ g \in Geometry /\ pend[p].nr_pages = Len(g.segs)
      /\ pend[p].req \in Request /\ pend[p].operation \in {READ, WRITE}
      /\ InHand(p) /\ Handing(p)
      /\ work \in [i : Nat, sector : Int, biolist : Seq(Bio)]
      /\ bios \in Seq(Bio) /\ bios # <<>> /\ n \in Nat \ {0}
      /\ \A q \in Pending : Stage(q) \in Dispatched => q = p
  BY <1>1, InHandNow
<1>3. /\ bio \in Bio /\ bio = bios[1] /\ rest \in Seq(Bio) /\ Len(rest) = n - 1
      /\ \A k \in 1 .. n - 1 : rest[k] = bios[k + 1]
      /\ (rest = <<>> <=> n = 1)
  <2>1. bio \in Bio /\ rest \in Seq(Bio) /\ Len(rest) = n - 1
    BY <1>2, HeadTailProperties
  <2>2. bio = bios[1] /\ \A k \in 1 .. n - 1 : rest[k] = bios[k + 1]
    BY <1>2
  <2>3. rest = <<>> <=> n = 1
    <3>1. n - 1 \in Int /\ (n - 1 = 0 <=> n = 1)
      BY <1>2
    <3>. HIDE DEF rest, n
    <3>2. rest = <<>> <=> Len(rest) = 0
      BY <2>1, EmptySeq
    <3>. QED  BY <2>1, <3>1, <3>2
  <2>. QED  BY <2>1, <2>2, <2>3
<1>4. /\ \A k \in 1 .. n : bios[k].p = p /\ BioIn(bios[k], g) /\ StartsIn(bios[k], g)
      /\ \A k \in 1 .. n - 1 : bios[k + 1].next = bios[k].last + 1
      /\ bios[n].last = Len(g.segs) /\ work.i = pend[p].nr_pages + 1
      /\ \A k \in DOMAIN queue : queue[k].p = p => queue[k].left >= n /\ queue[N].p = p
      /\ queue = <<>> \/ queue[N].p # p =>
           pend[p].pendcnt = n /\ MovedTo(moved[pend[p].req], g, bios[1].next)
  <2>1. Len(g.segs) \in Nat
    BY <1>2, GeometryShape
  <2>. QED  BY <1>0, <1>2, <2>1 DEF InHand, Handing
<1>. HIDE DEF bio, rest
<1>5. Len(rest) \in Nat /\ (Len(rest) = 0 <=> rest = <<>>)
  BY <1>2, <1>3
<1>6. PICK c \in QueuedBio :
        /\ queue' = Append(queue, c)
        /\ c.p = p /\ c.pos = bio.pos /\ c.segs = bio.segs /\ c.next = bio.next
        /\ c.last = bio.last /\ c.sectors = bio.sectors /\ c.dir = pend[p].operation
        /\ c.left = n - 1
        /\ c.joined => queue # <<>> /\ queue[N].pos + queue[N].sectors = c.pos
  <2>. DEFINE e == Enqueued(bio, pend[p].operation, merge, Len(rest))
  <2>1. bio.p = p
    BY <1>2, <1>3, <1>4
  <2>2. /\ e \in QueuedBio
        /\ e.p = bio.p /\ e.pos = bio.pos /\ e.segs = bio.segs /\ e.next = bio.next
        /\ e.last = bio.last /\ e.sectors = bio.sectors /\ e.dir = pend[p].operation
        /\ e.left = Len(rest)
        /\ e.joined => queue # <<>> /\ queue[N].pos + queue[N].sectors = e.pos
    <3>1. bio \in Bio /\ pend[p].operation \in {READ, WRITE} /\ Len(rest) \in Nat
      BY <1>2, <1>3, <1>5
    <3>2. /\ e \in QueuedBio
          /\ e.p = bio.p /\ e.pos = bio.pos /\ e.segs = bio.segs /\ e.next = bio.next
          /\ e.last = bio.last /\ e.sectors = bio.sectors /\ e.dir = pend[p].operation
          /\ e.left = Len(rest)
          /\ e.joined => queue # <<>> /\ queue[Len(queue)].pos + queue[Len(queue)].sectors = e.pos
      BY <3>1, EnqueuedBio, SMTT(20)
    <3>. QED  BY <1>0, <3>2, Zenon
  <2>3. queue' = Append(queue, e) /\ Len(rest) = n - 1
    BY <1>1, <1>3
  <2>. HIDE DEF e
  <2>. QED  BY <2>1, <2>2, <2>3, Zenon
<1>n. n \in Nat /\ n # 0
  BY <1>2
<1>7. /\ N \in Nat /\ DOMAIN queue = 1 .. N /\ (queue = <<>> <=> N = 0)
      /\ queue' \in Seq(QueuedBio) /\ Len(queue') = N + 1 /\ DOMAIN queue' = 1 .. N + 1
      /\ \A k \in 1 .. N : queue'[k] = queue[k]
      /\ queue'[N + 1] = c
      /\ queue' # <<>>
  <2>1. queue \in Seq(QueuedBio)
    BY DEF DataInv, TypeOK
  <2>2. N \in Nat /\ DOMAIN queue = 1 .. N /\ (queue = <<>> <=> N = 0)
    BY <1>0, <2>1, EmptySeq, LenProperties
  <2>3. /\ queue' \in Seq(QueuedBio) /\ Len(queue') = N + 1 /\ queue' # <<>>
        /\ \A k \in 1 .. N : queue'[k] = queue[k]
        /\ queue'[N + 1] = c
    BY <1>0, <1>6, <2>1, AppendProperties
  <2>. QED  BY <2>2, <2>3, LenProperties
<1>N. N \in Nat /\ DOMAIN queue = 1 .. N /\ Len(queue') = N + 1 /\ DOMAIN queue' = 1 .. N + 1
  BY <1>7
<1>8. /\ pend' \in [Pending -> PendingReq] /\ Stage(p)' = IF rest = <<>> THEN "io" ELSE "submitting"
      /\ \A q \in Pending : /\ pend'[q].req = pend[q].req /\ pend'[q].nr_pages = pend[q].nr_pages
                            /\ pend'[q].operation = pend[q].operation
                            /\ pend'[q].status = pend[q].status /\ pend'[q].pendcnt = pend[q].pendcnt
                            /\ Geom(q)' = Geom(q)
                            /\ q # p => pend'[q] = pend[q] /\ Stage(q)' = Stage(q)
  <2>1. pend \in [Pending -> PendingReq]
    BY DEF DataInv, TypeOK
  <2>2. CASE rest # <<>>
    BY <1>1, <2>1, <2>2 DEF Stage, Geom
  <2>3. CASE rest = <<>>
    <3>. DEFINE y == [pend[p] EXCEPT !.stage = "io"]
    <3>1. /\ y \in PendingReq /\ y.stage = "io" /\ y.req = pend[p].req /\ y.nr_pages = pend[p].nr_pages
          /\ y.operation = pend[p].operation /\ y.status = pend[p].status
          /\ y.pendcnt = pend[p].pendcnt
      BY <2>1, IoStage, Zenon
    <3>2. pend' = [pend EXCEPT ![p] = y]
      BY <1>1, <2>3
    <3>. HIDE DEF y
    <3>3. pend'[p] = y /\ \A q \in Pending : q # p => pend'[q] = pend[q]
      BY <2>1, <3>2
    <3>. QED  BY <1>1, <2>1, <2>3, <3>1, <3>2, <3>3 DEF Stage, Geom
  <2>. QED  BY <2>2, <2>3
<1>9. TypeOK'
  <2>1. work' \in [i : Nat, sector : Int, biolist : Seq(Bio)]
    <3>1. NoWork \in [i : Nat, sector : Int, biolist : Seq(Bio)]
      BY DEF NoWork
    <3>2. [work EXCEPT !.biolist = rest] \in [i : Nat, sector : Int, biolist : Seq(Bio)]
      BY <1>2, <1>3
    <3>. QED  BY <1>1, <3>1, <3>2
  <2>2. rq_pos' \in Int
    BY <1>1, <1>3 DEF Bio, DataInv, TypeOK
  <2>. QED  BY <1>1, <1>7, <1>8, <2>1, <2>2 DEF DataInv, TypeOK
<1>10. PendInv'
  <2>1. Serves(p)'
    <3>1. Serves(p)
      BY <1>1 DEF DataInv, PendInv
    <3>. QED  BY <1>1, <1>8, <3>1 DEF Serves, WellFormed, Holding
  <2>2. \A q \in Pending : q # p /\ Stage(q)' # "free" => Serves(q)'
    BY <1>1, <1>8, ServesKept
  <2>3. \A q \in Pending : Stage(q)' # "free" => Stage(q) # "free"
    BY <1>1, <1>8
  <2>4. \A q \in Pending : Stage(q)' \in Dispatched => q = p
    BY <1>2, <1>8
  <2>5. \A q, s \in Pending : Stage(q)' # "free" /\ Stage(s)' # "free" /\ pend'[q].req = pend'[s].req => q = s
    BY <1>8, <2>3 DEF DataInv, PendInv
  <2>. QED  BY <2>1, <2>2, <2>4, <2>5 DEF PendInv
<1>11. GrantInv'
  BY <1>1, GrantKept
<1>12. MapInv'
  <2>1. \A q \in Pending : Stage(q)' \in Holding <=> Stage(q) \in Holding
    BY <1>1, <1>8 DEF Holding
  <2>. QED  BY <1>1, <1>8, <2>1, MapKept
<1>13. WorkInv'
  <2>1. CASE rest = <<>>
    <3>1. \A q \in Pending : Stage(q)' \notin Dispatched
      BY <1>2, <1>8, <2>1 DEF Dispatched
    <3>. QED  BY <3>1 DEF WorkInv, Dispatched
  <2>2. CASE rest # <<>>
    <3>1. work'.biolist = rest /\ work'.i = work.i /\ pend' = pend
      BY <1>1, <1>2, <2>2
    <3>2. n \in Nat /\ n > 1
      BY <1>2, <1>3, <2>2
    <3>3. InHand(p)'
      <4>1. ASSUME NEW k \in 1 .. n - 1
            PROVE  /\ rest[k] = bios[k + 1] /\ rest[k].p = p
                   /\ BioIn(rest[k], g) /\ StartsIn(rest[k], g)
        <5>1. k + 1 \in 1 .. n
          BY <3>2
        <5>. QED  BY <1>3, <1>4, <5>1
      <4>2. ASSUME NEW k \in 1 .. (n - 1) - 1 PROVE rest[k + 1].next = rest[k].last + 1
        <5>1. k \in 1 .. n - 1 /\ k + 1 \in 1 .. n - 1
          BY <3>2
        <5>. QED  BY <1>4, <4>1, <5>1
      <4>3. rest[n - 1].last = Len(g.segs)
        <5>1. n - 1 \in 1 .. n - 1 /\ (n - 1) + 1 = n
          BY <3>2
        <5>. QED  BY <1>3, <1>4, <5>1
      <4>4. \A b, h : (BioIn(b, h) <=> /\ b.segs = h.segs
                                       /\ b.next \in 1 .. b.last /\ b.last \in 1 .. Len(h.segs)
                                       /\ b.pos + b.sectors = h.pos + Before(h.segs, b.last + 1)
                                       /\ b.pos % block' = 0)
        BY <1>1 DEF BioIn
      <4>5. work'.i \in 1 .. pend'[p].nr_pages + 1 /\ work'.i - 1 = Len(g.segs)
        <5>1. Len(g.segs) \in Nat
          BY <1>2, GeometryShape
        <5>. QED  BY <1>2, <1>4, <3>1, <5>1
      <4>6. Geom(p)' = g /\ Len(work'.biolist) = n - 1
        BY <1>3, <1>8, <3>1
      <4>. QED  BY <3>1, <4>1, <4>2, <4>3, <4>4, <4>5, <4>6 DEF InHand, BioIn, StartsIn
    <3>4. Handing(p)'
      <4>1. ASSUME NEW k \in DOMAIN queue', queue'[k].p = p PROVE queue'[k].left >= n - 1
        <5>1. CASE k \in 1 .. N
          <6>1. queue[k].left >= n /\ queue'[k] = queue[k]
            BY <1>4, <1>7, <4>1, <5>1
          <6>2. queue[k].left \in Nat
            BY <1>N, <5>1, BioOfQueue DEF QueuedBio
          <6>. QED  BY <3>2, <6>1, <6>2
        <5>2. CASE k = N + 1
          BY <1>6, <1>7, <3>2, <5>2
        <5>. QED  BY <1>7, <5>1, <5>2
      <4>2. queue'[Len(queue')].p = p
        BY <1>6, <1>7
      <4>3. Len(work'.biolist) = n - 1 /\ work'.biolist # <<>> /\ work'.i = pend'[p].nr_pages + 1
        BY <1>3, <1>4, <2>2, <3>1
      <4>. QED  BY <1>7, <4>1, <4>2, <4>3 DEF Handing
    <3>. QED  BY <1>2, <1>8, <2>2, <3>3, <3>4 DEF WorkInv, Dispatched
  <2>. QED  BY <2>1, <2>2
<1>14. QueueInv'
  <2>1. N # 0 => N \in DOMAIN queue /\ MoreToCome(queue[N])
    BY <1>0, <1>7 DEF DataInv, QueueInv
  <2>2. N # 0 /\ queue[N].p = p => queue[N].left = n /\ bios[1].next = queue[N].last + 1
    <3>1. N # 0 /\ queue[N].p = p => queue[N].left # 0
      BY <1>2, <1>4, <2>1
    <3>. QED  BY <2>1, <3>1 DEF MoreToCome
  <2>3. N # 0 /\ queue[N].p # p => queue[N].left = 0
    <3>1. N # 0 => queue[N].p \in Pending
      BY <2>1, BioOfQueue
    <3>. QED  BY <1>2, <2>1, <3>1 DEF MoreToCome, Dispatched
  <2>4. ASSUME NEW k \in 1 .. N PROVE Queued(k)'
    <3>. DEFINE b == queue[k]
    <3>0. queue'[k] = queue[k]
      BY <1>7
    <3>1. /\ Queued(k) /\ b.p \in Pending /\ Stage(b.p) \in {"submitting", "io"}
      BY <1>7, BioOfQueue
    <3>2. queue'[k] = b /\ (k # 1 => queue'[k - 1] = queue[k - 1])
      BY <1>7
    <3>3. rq_pos' = rq_pos
      BY <1>1, <1>7
    <3>4. Stage(b.p)' \in {"submitting", "io"}
      BY <1>8, <3>0, <3>1 DEF Stage
    <3>5. First(k)' <=> First(k)
      BY <3>2 DEF First
    <3>. QED  BY <1>1, <1>8, <3>1, <3>2, <3>3, <3>4, <3>5 DEF Queued, BioIn, StartsIn, Counted
  <2>5. Queued(N + 1)'
    <3>1. BioIn(bio, g) /\ StartsIn(bio, g) /\ n \in 1 .. n
      BY <1>2, <1>3, <1>4
    <3>2. queue'[N + 1] = c /\ Geom(c.p)' = g /\ Stage(c.p)' \in {"submitting", "io"}
      BY <1>6, <1>7, <1>8 DEF Stage, Geom
    <3>3. BioIn(c, g) /\ StartsIn(c, g)
      BY <1>6, <3>1 DEF BioIn, StartsIn
    <3>4. c.dir = pend'[c.p].operation
      BY <1>6, <1>8
    <3>5. c.left = 0 => c.last = Len(g.segs)
      <4>1. c.left = 0 => n = 1
        <5>1. c.left = n - 1
          BY <1>6
        <5>2. n - 1 = 0 => n = 1
          BY <1>n
        <5>. QED  BY <5>1, <5>2, Zenon
      <4>. QED  BY <1>3, <1>4, <1>6, <4>1
    <3>6. N + 1 = 1 => rq_pos' = g.pos + Before(c.segs, c.next)
      BY <1>1, <1>6, <1>7, <3>1 DEF StartsIn, BioIn
    <3>7. First(N + 1)' => pend'[c.p].pendcnt = c.left + 1 /\ MovedTo(moved'[pend'[c.p].req], g, c.next)
      <4>1. First(N + 1)' => queue = <<>> \/ queue[N].p # p
        <5>1. CASE N = 0
          BY <1>7, <5>1
        <5>2. CASE N # 0
          <6>1. N \in 1 .. N /\ (N + 1) - 1 = N /\ N + 1 # 1
            BY <5>2
          <6>2. queue'[(N + 1) - 1] = queue[N] /\ queue'[N + 1] = c /\ c.p = p
            BY <1>6, <1>7, <6>1
          <6>. QED  BY <6>1, <6>2 DEF First
        <5>. QED  BY <5>1, <5>2
      <4>. QED  BY <1>1, <1>2, <1>3, <1>4, <1>6, <1>8, <4>1
    <3>. QED  BY <1>1, <3>2, <3>3, <3>4, <3>5, <3>6, <3>7 DEF Queued, BioIn, StartsIn, Counted
  <2>6. ASSUME NEW k \in 1 .. (N + 1) - 1 PROVE Follows(queue'[k], queue'[k + 1])
    <3>1. CASE k \in 1 .. N - 1
      <4>1. queue'[k] = queue[k] /\ queue'[k + 1] = queue[k + 1]
        BY <1>7, <3>1
      <4>. QED  BY <1>0, <3>1, <4>1 DEF DataInv, QueueInv
    <3>2. CASE k = N
      <4>1. queue'[k] = queue[N] /\ queue'[k + 1] = c /\ N # 0
        BY <1>7, <3>2
      <4>2. c.joined => queue[N].pos + queue[N].sectors = c.pos
        BY <1>6
      <4>3. queue[N].p = c.p => c.next = queue[N].last + 1 /\ queue[N].left = c.left + 1
        BY <1>2, <1>3, <1>6, <2>2, <4>1
      <4>4. queue[N].p # c.p => queue[N].left = 0
        BY <1>6, <2>3, <4>1
      <4>. QED  BY <4>1, <4>2, <4>3, <4>4 DEF Follows
    <3>3. k \in 1 .. N - 1 \/ k = N
      BY <1>N
    <3>. QED  BY <3>1, <3>2, <3>3
  <2>7. ASSUME NEW j \in 1 .. N + 1, NEW k \in 1 .. N + 1, j < k, queue'[j].p = queue'[k].p
        PROVE  queue'[k].left < queue'[j].left /\ queue'[k - 1].p = queue'[k].p
    <3>1. j \in 1 .. N /\ k - 1 \in 1 .. N /\ queue'[j] = queue[j] /\ queue'[k - 1] = queue[k - 1]
      BY <1>7, <2>7
    <3>2. CASE k \in 1 .. N
      <4>1. queue'[k] = queue[k] /\ Together(j, k)
        BY <1>7, <3>1, <3>2 DEF DataInv, QueueInv
      <4>. QED  BY <2>7, <3>1, <4>1 DEF Together
    <3>3. CASE k = N + 1
      <4>1. queue'[k] = c /\ queue[j].p = p /\ k - 1 = N
        BY <1>6, <1>7, <2>7, <3>1, <3>3
      <4>2. queue[j].left >= n /\ queue[N].p = p
        BY <1>4, <1>7, <3>1, <4>1
      <4>3. queue[j].left \in Nat
        BY <1>N, <3>1, BioOfQueue DEF QueuedBio
      <4>. QED  BY <1>2, <1>6, <3>1, <4>1, <4>2, <4>3
    <3>. QED  BY <1>7, <3>2, <3>3
  <2>8. MoreToCome(queue[Len(queue)])'
    <3>1. queue'[Len(queue')] = c
      BY <1>7
    <3>2. ASSUME c.left # 0
          PROVE  Stage(c.p)' = "submitting" /\ c.left = Len(work'.biolist)
                 /\ work'.biolist[1].next = c.last + 1
      <4>1. n > 1 /\ rest # <<>>
        BY <1>n, <1>3, <1>6, <3>2
      <4>2. work'.biolist = rest /\ Stage(p)' = "submitting"
        BY <1>1, <1>2, <1>8, <4>1
      <4>3. 1 \in 1 .. n - 1 /\ rest[1] = bios[1 + 1] /\ bios[1 + 1].next = bios[1].last + 1
        BY <1>n, <1>3, <1>4, <4>1
      <4>. QED  BY <1>3, <1>6, <4>2, <4>3
    <3>. QED  BY <3>1, <3>2 DEF MoreToCome
  <2>. QED
    <3>1. \A k \in DOMAIN queue' : Queued(k)'
      <4>1. \A k \in DOMAIN queue' : k \in 1 .. N \/ k = N + 1
        BY <1>N
      <4>. QED  BY <2>4, <2>5, <4>1
    <3>2. \A j, k \in DOMAIN queue' : Together(j, k)'
      BY <1>7, <2>7 DEF Together
    <3>3. \A k \in 1 .. Len(queue') - 1 : Follows(queue'[k], queue'[k + 1])
      BY <1>7, <2>6
    <3>. QED  BY <2>8, <3>1, <3>2, <3>3 DEF QueueInv
<1>15. DoneInv'
  <2>1. \A q \in Pending : Stage(q)' \notin {"claimed", "mapped"}
    BY <1>1, <1>2, <1>8 DEF Dispatched
  <2>. QED  BY <1>1, <2>1 DEF DataInv, DoneInv
<1>. QED  BY <1>9, <1>10, <1>11, <1>12, <1>13, <1>14, <1>15 DEF DataInv

-----------------------------------------------------------------------------
(* The device *)

\* The bio the device is at.
LEMMA HeadBio ==
  ASSUME DataInv, queue # <<>>, NEW b, b = queue[1]
  PROVE  /\ b \in QueuedBio /\ b.p \in Pending /\ b.next \in Nat /\ b.last \in Nat /\ b.left \in Nat
         /\ 1 \in DOMAIN queue
         /\ Stage(b.p) \in {"submitting", "io"} /\ pend[b.p].status = 0
         /\ pend[b.p].req \in Request /\ req[pend[b.p].req].st = "taken"
         /\ Geom(b.p) \in Geometry /\ BioIn(b, Geom(b.p)) /\ b.dir = Geom(b.p).dir
         /\ b.next \in 1 .. b.last /\ b.next \in 1 .. Len(Geom(b.p).segs)
         /\ (b.left = 0 => b.last = Len(Geom(b.p).segs))
         /\ rq_pos = Geom(b.p).pos + Before(Geom(b.p).segs, b.next)
         /\ pend[b.p].pendcnt = b.left + 1
         /\ MovedTo(moved[pend[b.p].req], Geom(b.p), b.next)
<1>1. 1 \in DOMAIN queue
  BY DEF DataInv, TypeOK
<1>2. /\ b \in QueuedBio /\ b.p \in Pending /\ Queued(1)
      /\ Stage(b.p) \in {"submitting", "io"}
      /\ pend[b.p].req \in Request /\ Geom(b.p) \in Geometry
  BY <1>1, BioOfQueue
<1>3. b.next \in Nat /\ b.last \in Nat /\ b.left \in Nat
  BY <1>2 DEF QueuedBio
<1>4. Serves(b.p)
  BY <1>2 DEF DataInv, PendInv
<1>5. BioIn(b, Geom(b.p)) /\ b.segs = Geom(b.p).segs /\ b.next \in 1 .. b.last /\ b.last \in 1 .. Len(Geom(b.p).segs)
  BY <1>2 DEF Queued, BioIn
<1>6. Len(Geom(b.p).segs) \in Nat
  BY <1>2, GeometryShape
<1>7. b.next \in 1 .. Len(Geom(b.p).segs)
  BY <1>5, <1>6
<1>8. Counted(b) /\ rq_pos = Geom(b.p).pos + Before(Geom(b.p).segs, b.next) /\ b.dir = pend[b.p].operation
      /\ (b.left = 0 => b.last = Len(Geom(b.p).segs))
  BY <1>2, <1>5 DEF Queued, First
<1>. QED  BY <1>1, <1>2, <1>3, <1>4, <1>5, <1>7, <1>8 DEF Serves, Counted

\* A transfer in the words of the bio it is for.
LEMMA TransferOf ==
  ASSUME DataInv, Transfer, NEW b, b = queue[1]
  PROVE  /\ queue # <<>> /\ queue' = Rest /\ rq_pos' = NextPos(Nsec(Geom(b.p).segs[b.next]))
         /\ IF b.next = b.last THEN EndBio(b.p) ELSE UNCHANGED <<pend, mapped, handle, req>>
         /\ UNCHANGED <<block, grant, work>>
         /\ moved' \in [Request -> Seq(Move)]
         /\ MovedTo(moved'[pend[b.p].req], Geom(b.p), b.next + 1)
         /\ \A s \in Request : s # pend[b.p].req => moved'[s] = moved[s]
<1>. DEFINE g == Geom(b.p)  r == pend[b.p].req  seg == g.segs[b.next]
            t == ChunkOf(g, b.next, rq_pos)
<1>1. queue # <<>> /\ Head(queue) = b
  <2>1. queue # <<>>
    BY Zenon DEF Transfer
  <2>2. queue \in Seq(QueuedBio)
    BY DEF DataInv, TypeOK
  <2>. QED  BY <2>1, <2>2
<1>2. /\ b.segs = g.segs /\ b.dir = g.dir /\ r \in Request /\ g \in Geometry
      /\ b.next \in 1 .. Len(g.segs) /\ rq_pos = g.pos + Before(g.segs, b.next)
      /\ MovedTo(moved[r], g, b.next)
  BY <1>1, HeadBio DEF BioIn
<1>3. rq_pos \in Int /\ moved \in [Request -> Seq(Move)] /\ moved[r] \in Seq(Move)
  BY <1>2 DEF DataInv, TypeOK
<1>4. /\ moved' = [moved EXCEPT ![r] = @ \o
            [k \in 1 .. Nsec(b.segs[b.next]) |->
               [sector |-> rq_pos + k - 1, i |-> b.next,
                at |-> b.segs[b.next].first + k - 1, dir |-> b.dir]]]
      /\ queue' = Rest /\ rq_pos' = NextPos(Nsec(b.segs[b.next]))
      /\ IF b.next = b.last THEN EndBio(b.p) ELSE UNCHANGED <<pend, mapped, handle, req>>
      /\ UNCHANGED <<block, grant, work>>
  BY <1>1, Zenon DEF Transfer
<1>5. moved' = [moved EXCEPT ![r] = moved[r] \o t]
  BY <1>2, <1>4 DEF ChunkOf
<1>. HIDE DEF t
<1>6. moved[r] \o t \in Seq(Move) /\ MovedTo(moved[r] \o t, g, b.next + 1)
  BY <1>2, <1>3, MovedOn DEF t
<1>7. moved'[r] = moved[r] \o t /\ moved' \in [Request -> Seq(Move)]
      /\ \A s \in Request : s # r => moved'[s] = moved[s]
  BY <1>2, <1>3, <1>5, <1>6
<1>. QED  BY <1>1, <1>2, <1>4, <1>6, <1>7

\* Who else is served has another request; and the device moves nothing for it.
LEMMA Others ==
  ASSUME DataInv, NEW p \in Pending, Stage(p) # "free", NEW q \in Pending, Stage(q) # "free", q # p
  PROVE  pend[q].req \in Request /\ pend[q].req # pend[p].req
BY InUse DEF DataInv, PendInv

\* A chunk is done that is not the last of its bio.
LEMMA ChunkKeeps ==
  ASSUME DataInv, Transfer, queue[1].next # queue[1].last
  PROVE  DataInv'
<1>0. PICK b : b = queue[1]
  OBVIOUS
<1>. DEFINE p == b.p  r == pend[b.p].req  g == Geom(b.p)
<1>1. /\ queue # <<>> /\ queue' = Rest /\ rq_pos' = NextPos(Nsec(g.segs[b.next]))
      /\ UNCHANGED <<pend, mapped, handle, req, block, grant, work>>
      /\ moved' \in [Request -> Seq(Move)] /\ MovedTo(moved'[r], g, b.next + 1)
      /\ \A s \in Request : s # r => moved'[s] = moved[s]
  BY <1>0, TransferOf
<1>2. /\ b \in QueuedBio /\ p \in Pending /\ b.next \in Nat /\ b.last \in Nat /\ 1 \in DOMAIN queue
      /\ Stage(p) \in {"submitting", "io"} /\ r \in Request /\ req[r].st = "taken"
      /\ g \in Geometry /\ BioIn(b, g)
      /\ b.next \in 1 .. b.last /\ b.next \in 1 .. Len(g.segs)
      /\ rq_pos = g.pos + Before(g.segs, b.next)
      /\ pend[p].pendcnt = b.left + 1
  BY <1>0, <1>1, HeadBio
<1>3. b.next < b.last
  BY <1>0, <1>2
<1>4. PICK c : c = [b EXCEPT !.next = b.next + 1]
  OBVIOUS
<1>5. /\ c \in QueuedBio /\ c.next = b.next + 1 /\ c.p = b.p /\ c.pos = b.pos /\ c.segs = b.segs
      /\ c.last = b.last /\ c.sectors = b.sectors /\ c.dir = b.dir /\ c.joined = b.joined
      /\ c.left = b.left
  <2>1. b.next + 1 \in Nat
    BY <1>2
  <2>. QED  BY <1>2, <1>4, <2>1 DEF QueuedBio
<1>6. PICK N \in Nat : N = Len(queue)
  BY DEF DataInv, TypeOK
<1>7. /\ DOMAIN queue = 1 .. N /\ N # 0 /\ queue \in Seq(QueuedBio)
      /\ queue' \in Seq(QueuedBio) /\ Len(queue') = N /\ DOMAIN queue' = 1 .. N
      /\ queue'[1] = c /\ \A k \in 1 .. N : k # 1 => queue'[k] = queue[k]
  <2>1. queue \in Seq(QueuedBio) /\ DOMAIN queue = 1 .. N /\ N # 0 /\ 1 \in 1 .. Len(queue)
    BY <1>1, <1>2, <1>6 DEF DataInv, TypeOK
  <2>2. Head(queue) = b
    BY <1>0, <1>1
  <2>3. queue' = [queue EXCEPT ![1] = c]
    BY <1>0, <1>1, <1>3, <1>4, <2>2 DEF Rest
  <2>4. /\ queue' \in Seq(QueuedBio) /\ Len(queue') = Len(queue)
        /\ \A k \in 1 .. Len(queue) : queue'[k] = IF k = 1 THEN c ELSE queue[k]
    BY <1>5, <2>1, <2>3, ExceptSeq
  <2>. QED  BY <1>6, <2>1, <2>4
<1>8. \A k \in 1 .. N : queue'[k].p = queue[k].p /\ queue'[k].left = queue[k].left
                        /\ queue'[k].last = queue[k].last
  BY <1>0, <1>5, <1>7
<1>9. rq_pos' = g.pos + Before(g.segs, b.next + 1) /\ rq_pos' \in Int
  <2>1. rq_pos' = rq_pos + Nsec(g.segs[b.next])
    <3>1. Head(queue) = b
      BY <1>0, <1>1
    <3>. QED  BY <1>1, <1>3, <3>1 DEF NextPos
  <2>2. /\ Before(g.segs, b.next + 1) = Before(g.segs, b.next) + Nsec(g.segs[b.next])
        /\ Before(g.segs, b.next) \in Nat /\ Nsec(g.segs[b.next]) \in Nat /\ g.pos \in Nat
    BY <1>2, BeforeCounts, SegmentShape, GeometryShape
  <2>. QED  BY <1>2, <2>1, <2>2
<1>10. TypeOK'
  BY <1>1, <1>7, <1>9 DEF DataInv, TypeOK
<1>11. \A q \in Pending : Stage(q)' = Stage(q) /\ Geom(q)' = Geom(q)
  BY <1>1 DEF Stage, Geom
<1>12. \A q \in Pending : q # p /\ Stage(q) # "free" => moved'[pend[q].req] = moved[pend[q].req]
  BY <1>1, <1>2, Others
<1>13. PendInv'
  <2>1. \A q \in Pending : Stage(q)' # "free" => Serves(q)'
    BY <1>1, <1>11, ServesKept
  <2>. QED  BY <1>1, <1>11, <2>1 DEF DataInv, PendInv
<1>14. GrantInv'
  BY <1>1, GrantKept
<1>15. MapInv'
  BY <1>1, <1>11, MapKept
<1>16. WorkInv'
  <2>1. ASSUME NEW q \in Pending, InHand(q) PROVE InHand(q)'
    BY <1>1, <1>11, <2>1 DEF InHand, BioIn, StartsIn
  <2>2. ASSUME NEW q \in Pending, Building(q) PROVE Building(q)'
    BY <1>1, <1>11, <2>2 DEF Building
  <2>3. ASSUME NEW q \in Pending, Handing(q), Stage(q) = "submitting" PROVE Handing(q)'
    <3>1. work.biolist # <<>> /\ work.i = pend[q].nr_pages + 1
      BY <2>3 DEF Handing
    <3>2. \A k \in DOMAIN queue' : queue'[k].p = q =>
            queue'[k].left >= Len(work.biolist) /\ queue'[Len(queue')].p = q
      BY <1>6, <1>7, <1>8, <2>3 DEF Handing
    <3>3. ASSUME queue' = <<>> \/ queue'[Len(queue')].p # q
          PROVE  pend[q].pendcnt = Len(work.biolist)
                 /\ MovedTo(moved'[pend[q].req], Geom(q), work.biolist[1].next)
      <4>1. queue[N].p # q
        BY <1>7, <1>8, <3>3
      <4>2. q # p
        BY <1>0, <1>2, <1>6, <2>3, <4>1 DEF Handing
      <4>. QED  BY <1>6, <1>12, <2>3, <4>1, <4>2 DEF Handing
    <3>. QED  BY <1>1, <1>11, <3>1, <3>2, <3>3 DEF Handing
  <2>. QED  BY <1>1, <1>11, <2>1, <2>2, <2>3 DEF DataInv, WorkInv
<1>17. QueueInv'
  <2>1. Queued(1)'
    <3>1. queue'[1] = c /\ Queued(1)
      BY <1>7, BioOfQueue
    <3>2. BioIn(c, g)
      <4>1. b.next + 1 \in 1 .. b.last
        BY <1>2, <1>3
      <4>. QED  BY <1>2, <1>5, <4>1 DEF BioIn
    <3>3. c.dir = pend[p].operation /\ (c.left = 0 => c.last = Len(g.segs))
      BY <1>0, <1>5, <3>1 DEF Queued
    <3>4. rq_pos' = g.pos + Before(c.segs, c.next)
      BY <1>2, <1>5, <1>9 DEF BioIn
    <3>5. pend[p].pendcnt = c.left + 1 /\ MovedTo(moved'[r], g, c.next)
      BY <1>1, <1>2, <1>5
    <3>. QED  BY <1>1, <1>2, <1>5, <1>11, <3>1, <3>2, <3>3, <3>4, <3>5 DEF Queued, BioIn, Counted
  <2>2. ASSUME NEW k \in 1 .. N, k # 1 PROVE Queued(k)'
    <3>1. /\ Queued(k) /\ queue[k].p \in Pending /\ Stage(queue[k].p) \in {"submitting", "io"}
          /\ queue'[k] = queue[k]
      BY <1>7, <2>2, BioOfQueue
    <3>2. First(k)' <=> First(k)
      <4>1. k - 1 \in 1 .. N
        BY <2>2
      <4>. QED  BY <1>8, <2>2, <4>1 DEF First
    <3>3. First(k) => queue[k].p # p
      <4>1. queue[k].p = p => Together(1, k) /\ 1 < k
        BY <1>7, <2>2 DEF DataInv, QueueInv
      <4>. QED  BY <1>0, <2>2, <4>1 DEF Together, First
    <3>4. First(k) => moved'[pend[queue[k].p].req] = moved[pend[queue[k].p].req]
      BY <1>12, <3>1, <3>3
    <3>. QED  BY <1>1, <1>11, <2>2, <3>1, <3>2, <3>4 DEF Queued, BioIn, StartsIn, Counted
  <2>3. ASSUME NEW k \in 1 .. N - 1 PROVE Follows(queue'[k], queue'[k + 1])
    <3>1. Follows(queue[k], queue[k + 1])
      BY <1>6 DEF DataInv, QueueInv
    <3>2. k \in 1 .. N /\ k + 1 \in 1 .. N /\ k + 1 # 1
      BY <1>6
    <3>3. queue'[k + 1] = queue[k + 1]
      BY <1>7, <3>2
    <3>4. /\ queue'[k].p = queue[k].p /\ queue'[k].pos = queue[k].pos /\ queue'[k].left = queue[k].left
          /\ queue'[k].last = queue[k].last /\ queue'[k].sectors = queue[k].sectors
      BY <1>0, <1>5, <1>7, <3>2
    <3>. QED  BY <3>1, <3>3, <3>4 DEF Follows
  <2>4. ASSUME NEW j \in 1 .. N, NEW k \in 1 .. N PROVE Together(j, k)'
    <3>1. Together(j, k)
      BY <1>7 DEF DataInv, QueueInv
    <3>2. j < k => k - 1 \in 1 .. N
      OBVIOUS
    <3>. QED  BY <1>8, <3>1, <3>2 DEF Together
  <2>5. MoreToCome(queue[Len(queue)])'
    <3>1. MoreToCome(queue[N]) /\ N \in 1 .. N /\ queue[N].p \in Pending
      BY <1>1, <1>6, <1>7, BioOfQueue DEF DataInv, QueueInv
    <3>. QED  BY <1>1, <1>7, <1>8, <1>11, <3>1 DEF MoreToCome
  <2>. QED  BY <1>7, <2>1, <2>2, <2>3, <2>4, <2>5 DEF QueueInv
<1>18. DoneInv'
  <2>1. ASSUME NEW s \in Request
        PROVE  /\ Answered(req[s], 0) => MovedTo(moved'[s], req[s].g, Len(req[s].g.segs) + 1)
               /\ req[s].st \in {"new", "sent"} \/ Answered(req[s], -1) => moved'[s] = <<>>
    <3>1. CASE s = r
      BY <1>2, <3>1 DEF Answered
    <3>2. CASE s # r
      BY <1>1, <3>2 DEF DataInv, DoneInv
    <3>. QED  BY <3>1, <3>2
  <2>2. ASSUME NEW q \in Pending, Stage(q) \in {"claimed", "mapped"} PROVE moved'[pend[q].req] = <<>>
    BY <1>2, <1>12, <2>2 DEF DataInv, DoneInv
  <2>. QED  BY <1>1, <1>11, <2>1, <2>2 DEF DoneInv
<1>. QED  BY <1>10, <1>13, <1>14, <1>15, <1>16, <1>17, <1>18 DEF DataInv

\* The first bio of the queue is done: either its structure has one bio less to
\* wait for, or it was the last one of its structure.
LEMMA BioDone ==
  ASSUME DataInv, queue # <<>>, NEW b, b = queue[1], b.next = b.last,
         queue' = Tail(queue), rq_pos' = NextPos(Nsec(Geom(b.p).segs[b.next])),
         UNCHANGED <<block, work>>,
         MovedTo(moved'[pend[b.p].req], Geom(b.p), b.next + 1),
         \A q \in Pending : q # b.p =>
           /\ pend'[q] = pend[q]
           /\ Stage(q) # "free" => Geom(q)' = Geom(q) /\ moved'[pend[q].req] = moved[pend[q].req],
         \/ /\ Stage(b.p)' = Stage(b.p) /\ Geom(b.p)' = Geom(b.p)
            /\ pend'[b.p].req = pend[b.p].req /\ pend'[b.p].nr_pages = pend[b.p].nr_pages
            /\ pend'[b.p].operation = pend[b.p].operation
            /\ pend'[b.p].pendcnt = pend[b.p].pendcnt - 1
         \/ Stage(b.p)' = "free" /\ \A n \in DOMAIN queue : n # 1 => queue[n].p # b.p
  PROVE  QueueInv' /\ WorkInv'
<1>. DEFINE p == b.p  g == Geom(b.p)
            Less == /\ Stage(b.p)' = Stage(b.p) /\ Geom(b.p)' = Geom(b.p)
                    /\ pend'[b.p].req = pend[b.p].req /\ pend'[b.p].nr_pages = pend[b.p].nr_pages
                    /\ pend'[b.p].operation = pend[b.p].operation
                    /\ pend'[b.p].pendcnt = pend[b.p].pendcnt - 1
<1>1. /\ p \in Pending /\ b.next \in Nat /\ b.last \in Nat /\ b.left \in Nat
      /\ Stage(p) \in {"submitting", "io"} /\ g \in Geometry /\ BioIn(b, g)
      /\ b.next \in 1 .. Len(g.segs)
      /\ rq_pos = g.pos + Before(g.segs, b.next)
      /\ pend[p].pendcnt = b.left + 1
  BY HeadBio
<1>2. PICK N \in Nat : N = Len(queue)
  BY DEF DataInv, TypeOK
<1>3. /\ queue \in Seq(QueuedBio) /\ DOMAIN queue = 1 .. N /\ N # 0
      /\ Len(queue') = N - 1 /\ DOMAIN queue' = 1 .. N - 1
      /\ \A k \in 1 .. N - 1 : queue'[k] = queue[k + 1]
  BY <1>2 DEF DataInv, TypeOK
<1>4. pend[p].pendcnt - 1 = b.left
  BY <1>1
\* Who else has a bio in the queue, or is at work.
<1>5. \A q \in Pending : q # p => Stage(q)' = Stage(q)
  BY DEF Stage
<1>6. ASSUME NEW k \in 1 .. N - 1, NEW d, d = queue[k + 1]
      PROVE  /\ k + 1 \in 1 .. N /\ k + 1 # 1 /\ (k + 1) - 1 = k /\ k \in 1 .. N
             /\ Queued(k + 1) /\ d.p \in Pending
             /\ Stage(d.p) \in {"submitting", "io"}
             /\ (d.p = p => Less)
             /\ Stage(d.p)' = Stage(d.p) /\ Geom(d.p)' = Geom(d.p)
             /\ pend'[d.p].operation = pend[d.p].operation
  <2>1. k + 1 \in 1 .. N /\ k + 1 # 1 /\ (k + 1) - 1 = k /\ k \in 1 .. N
    OBVIOUS
  <2>2. Queued(k + 1) /\ d.p \in Pending /\ Stage(d.p) \in {"submitting", "io"}
    BY <1>3, <1>6, <2>1, BioOfQueue
  <2>3. d.p = p => Less
    BY <1>3, <1>6, <2>1
  <2>4. d.p # p => Stage(d.p)' = Stage(d.p) /\ Geom(d.p)' = Geom(d.p)
                   /\ pend'[d.p].operation = pend[d.p].operation
    BY <1>5, <2>2
  <2>. QED  BY <2>1, <2>2, <2>3, <2>4
<1>. HIDE DEF Less
\* The bios not done are where they were, one place further up.
<1>7. ASSUME NEW k \in 1 .. N - 1 PROVE Queued(k)'
  <2>1. PICK d : d = queue[k + 1]
    OBVIOUS
  <2>2. /\ queue'[k] = d /\ Queued(k + 1) /\ d.p \in Pending
        /\ Stage(d.p)' = Stage(d.p) /\ Geom(d.p)' = Geom(d.p)
        /\ pend'[d.p].operation = pend[d.p].operation
        /\ k \in 1 .. N /\ k + 1 \in 1 .. N /\ k + 1 # 1 /\ (k + 1) - 1 = k
    BY <1>3, <1>6, <2>1
  <2>3. BioIn(d, Geom(d.p)) /\ StartsIn(d, Geom(d.p)) /\ Stage(d.p) \in {"submitting", "io"}
        /\ d.dir = pend[d.p].operation /\ (d.left = 0 => d.last = Len(Geom(d.p).segs))
    BY <2>1, <2>2 DEF Queued
  <2>4. k = 1 => rq_pos' = Geom(d.p).pos + Before(d.segs, d.next)
    <3>. SUFFICES ASSUME k = 1 PROVE rq_pos' = Geom(d.p).pos + Before(d.segs, d.next)
      OBVIOUS
    <3>1. d = queue[2] /\ N # 1
      BY <1>2, <2>1
    <3>2. d.pos = Geom(d.p).pos + Before(d.segs, d.next)
      BY <2>3 DEF StartsIn, BioIn
    <3>3. d.joined => rq_pos + Nsec(g.segs[b.next]) = d.pos
      <4>1. Follows(b, d)
        <5>1. Follows(queue[1], queue[1 + 1])
          BY <1>2, <3>1 DEF DataInv, QueueInv
        <5>. QED  BY <2>1, <5>1
      <4>2. /\ Before(g.segs, b.next + 1) = Before(g.segs, b.next) + Nsec(g.segs[b.next])
            /\ Before(g.segs, b.next) \in Nat /\ Nsec(g.segs[b.next]) \in Nat /\ g.pos \in Nat
        BY <1>1, BeforeCounts, SegmentShape, GeometryShape
      <4>3. b.pos + b.sectors = g.pos + Before(g.segs, b.next + 1)
        BY <1>1 DEF BioIn
      <4>4. rq_pos + Nsec(g.segs[b.next]) = g.pos + Before(g.segs, b.next + 1)
        BY <1>1, <4>2
      <4>. QED  BY <4>1, <4>3, <4>4, Zenon DEF Follows
    <3>4. rq_pos' = IF d.joined THEN rq_pos + Nsec(g.segs[b.next]) ELSE d.pos
      <4>1. Head(queue) = b /\ ~(b.next < b.last) /\ Len(queue) # 1
        BY <1>1, <1>2, <1>3, <3>1
      <4>. QED  BY <3>1, <4>1, Zenon DEF NextPos
    <3>. QED  BY <3>2, <3>3, <3>4, Zenon
  <2>5. First(k)' => pend'[d.p].pendcnt = d.left + 1 /\ MovedTo(moved'[pend'[d.p].req], Geom(d.p), d.next)
    <3>1. CASE d.p = p
      <4>1. Less
        BY <1>6, <2>1, <3>1
      <4>2. queue[k].p = d.p /\ (k # 1 => queue'[k - 1].p = queue'[k].p)
        <5>1. Together(1, k + 1)
          BY <1>3, <2>2 DEF DataInv, QueueInv
        <5>2. queue[k].p = d.p
          BY <2>1, <2>2, <3>1, <5>1 DEF Together
        <5>3. k # 1 => k - 1 \in 1 .. N - 1 /\ (k - 1) + 1 = k
          OBVIOUS
        <5>. QED  BY <1>3, <2>2, <5>2, <5>3
      <4>3. First(k)' => k = 1
        BY <4>2 DEF First
      <4>4. k = 1 => d.next = b.next + 1 /\ b.left = d.left + 1
        <5>1. k = 1 => Follows(queue[1], queue[1 + 1])
          BY <1>2 DEF DataInv, QueueInv
        <5>. QED  BY <2>1, <3>1, <5>1 DEF Follows
      <4>5. /\ pend'[p].pendcnt = b.left /\ pend'[p].req = pend[p].req
        BY <1>4, <4>1 DEF Less
      <4>. QED  BY <3>1, <4>3, <4>4, <4>5
    <3>2. CASE d.p # p
      <4>1. First(k)' => First(k + 1)
        <5>1. CASE k = 1
          BY <2>1, <2>2, <3>2, <5>1 DEF First
        <5>2. CASE k # 1
          <6>1. k - 1 \in 1 .. N - 1 /\ (k - 1) + 1 = k
            BY <5>2
          <6>2. queue'[k - 1] = queue[k]
            BY <1>3, <6>1
          <6>. QED  BY <2>1, <2>2, <5>2, <6>2 DEF First
        <5>. QED  BY <5>1, <5>2
      <4>2. First(k + 1) => pend[d.p].pendcnt = d.left + 1 /\ MovedTo(moved[pend[d.p].req], Geom(d.p), d.next)
        BY <2>1, <2>2 DEF Queued, Counted
      <4>3. pend'[d.p] = pend[d.p] /\ moved'[pend[d.p].req] = moved[pend[d.p].req]
        BY <2>2, <2>3, <3>2
      <4>. QED  BY <4>1, <4>2, <4>3
    <3>. QED  BY <3>1, <3>2
  <2>6. BioIn(d, Geom(d.p))' /\ StartsIn(d, Geom(d.p))'
    BY <2>2, <2>3 DEF BioIn, StartsIn
  <2>. QED  BY <2>2, <2>3, <2>4, <2>5, <2>6 DEF Queued, BioIn, StartsIn, Counted
<1>8. ASSUME NEW k \in 1 .. (N - 1) - 1 PROVE Follows(queue'[k], queue'[k + 1])
  <2>1. k + 1 \in 1 .. N - 1 /\ k \in 1 .. N - 1
    OBVIOUS
  <2>2. Follows(queue[k + 1], queue[(k + 1) + 1])
    BY <1>2, <2>1 DEF DataInv, QueueInv
  <2>. QED  BY <1>3, <2>1, <2>2
<1>9. ASSUME NEW j \in 1 .. N - 1, NEW k \in 1 .. N - 1 PROVE Together(j, k)'
  <2>1. Together(j + 1, k + 1)
    BY <1>3, <1>6 DEF DataInv, QueueInv
  <2>2. j < k => j + 1 < k + 1 /\ k - 1 \in 1 .. N - 1 /\ (k - 1) + 1 = k /\ (k + 1) - 1 = k
    OBVIOUS
  <2>3. queue'[j] = queue[j + 1] /\ queue'[k] = queue[k + 1] /\ (j < k => queue'[k - 1] = queue[k])
    BY <1>3, <2>2
  <2>. QED  BY <2>1, <2>2, <2>3 DEF Together
<1>10. N # 1 => /\ N - 1 \in 1 .. N - 1 /\ (N - 1) + 1 = N /\ queue'[N - 1] = queue[N]
                /\ queue' # <<>> /\ queue'[Len(queue')] = queue[N]
  <2>1. N # 1 => N - 1 \in 1 .. N - 1 /\ (N - 1) + 1 = N /\ N - 1 # 0
    BY <1>3
  <2>2. Len(<<>>) = 0
    OBVIOUS
  <2>3. N # 1 => queue' # <<>>
    BY <1>3, <2>1, <2>2, Zenon
  <2>4. N # 1 => queue'[N - 1] = queue[N]
    BY <1>3, <2>1, Zenon
  <2>. QED  BY <1>3, <2>1, <2>3, <2>4, Zenon
<1>11. QueueInv'
  <2>1. queue' # <<>> => MoreToCome(queue[Len(queue)])'
    <3>. SUFFICES ASSUME queue' # <<>> PROVE MoreToCome(queue[Len(queue)])'
      OBVIOUS
    <3>1. N # 1
      BY <1>3
    <3>2. MoreToCome(queue[N])
      BY <1>2 DEF DataInv, QueueInv
    <3>3. PICK d : d = queue[N]
      OBVIOUS
    <3>4. Stage(d.p)' = Stage(d.p)
      BY <1>6, <1>10, <3>1, <3>3
    <3>5. Len(queue') = N - 1 /\ queue'[N - 1] = d
      BY <1>3, <1>10, <3>1, <3>3
    <3>. QED  BY <3>2, <3>3, <3>4, <3>5 DEF MoreToCome
  <2>. QED  BY <1>3, <1>7, <1>8, <1>9, <2>1 DEF QueueInv
\* What the request thread has in hand is as it was.
<1>12. ASSUME NEW q \in Pending, Stage(q)' \in Dispatched
       PROVE  /\ Stage(q)' = Stage(q) /\ Geom(q)' = Geom(q)
              /\ pend'[q].nr_pages = pend[q].nr_pages /\ pend'[q].req = pend[q].req
              /\ q # p => pend'[q] = pend[q] /\ moved'[pend[q].req] = moved[pend[q].req]
              /\ q = p => pend'[q].pendcnt = b.left
  <2>1. CASE q # p
    BY <1>5, <1>12, <2>1 DEF Dispatched
  <2>2. CASE q = p
    <3>1. Less
      BY <1>12, <2>2 DEF Less, Dispatched
    <3>. QED  BY <1>4, <2>2, <3>1 DEF Less
  <2>. QED  BY <2>1, <2>2
<1>13. ASSUME NEW q \in Pending, Stage(q)' = "submitting" PROVE Handing(q)'
  <2>1. Handing(q)
    BY <1>12, <1>13 DEF DataInv, WorkInv, Dispatched
  <2>2. ASSUME NEW k \in DOMAIN queue', queue'[k].p = q
        PROVE  queue'[k].left >= Len(work.biolist) /\ queue'[Len(queue')].p = q
    <3>1. k + 1 \in DOMAIN queue /\ queue[k + 1].p = q /\ queue'[k].left = queue[k + 1].left
      BY <1>3, <1>6, <2>2
    <3>2. queue[k + 1].left >= Len(work.biolist) /\ queue[N].p = q
      BY <1>2, <2>1, <3>1 DEF Handing
    <3>3. N # 1
      BY <1>3, <2>2
    <3>. QED  BY <1>3, <1>10, <3>1, <3>2, <3>3
  <2>3. ASSUME queue' = <<>> \/ queue'[Len(queue')].p # q
        PROVE  /\ pend'[q].pendcnt = Len(work.biolist)
               /\ MovedTo(moved'[pend'[q].req], Geom(q), work.biolist[1].next)
    <3>1. CASE q = p
      <4>1. queue[N].p = q
        BY <1>2, <1>3, <2>1, <3>1 DEF Handing
      <4>2. N = 1
        BY <1>10, <2>3, <4>1
      <4>3. b.left >= Len(work.biolist) /\ work.biolist # <<>>
        BY <1>3, <2>1, <3>1 DEF Handing
      <4>4. Len(work.biolist) \in Nat /\ Len(work.biolist) # 0
        BY <4>3 DEF DataInv, TypeOK
      <4>5. b.left # 0
        BY <1>1, <4>3, <4>4
      <4>6. MoreToCome(b)
        BY <1>2, <4>2 DEF DataInv, QueueInv
      <4>7. b.left = Len(work.biolist) /\ work.biolist[1].next = b.next + 1
        BY <4>5, <4>6 DEF MoreToCome
      <4>8. pend'[q].pendcnt = b.left /\ pend'[q].req = pend[p].req
        BY <1>12, <1>13, <3>1 DEF Dispatched
      <4>. QED  BY <3>1, <4>7, <4>8
    <3>2. CASE q # p
      <4>1. queue[N].p # q
        <5>1. CASE N = 1
          BY <3>2, <5>1
        <5>2. CASE N # 1
          BY <1>10, <2>3, <5>2
        <5>. QED  BY <5>1, <5>2
      <4>2. /\ pend[q].pendcnt = Len(work.biolist)
            /\ MovedTo(moved[pend[q].req], Geom(q), work.biolist[1].next)
        BY <1>2, <2>1, <4>1 DEF Handing
      <4>3. pend'[q] = pend[q] /\ moved'[pend[q].req] = moved[pend[q].req]
        BY <1>12, <1>13, <3>2 DEF Dispatched
      <4>. QED  BY <4>2, <4>3
    <3>. QED  BY <3>1, <3>2
  <2>4. work.biolist # <<>> /\ work.i = pend'[q].nr_pages + 1 /\ Geom(q)' = Geom(q)
    BY <1>12, <1>13, <2>1 DEF Handing, Dispatched
  <2>. QED  BY <2>2, <2>3, <2>4 DEF Handing
<1>14. WorkInv'
  <2>1. ASSUME NEW q \in Pending, Stage(q)' \in Dispatched, InHand(q) PROVE InHand(q)'
    BY <1>12, <2>1 DEF InHand, BioIn, StartsIn
  <2>2. ASSUME NEW q \in Pending, Stage(q)' \in Dispatched, Building(q) PROVE Building(q)'
    BY <1>12, <2>2 DEF Building
  <2>3. ASSUME NEW q \in Pending, Stage(q)' \in Dispatched
        PROVE  /\ Stage(q)' = "claimed" => work' = [NoWork EXCEPT !.sector = Geom(q)'.pos]
               /\ Stage(q)' \in {"mapped", "submitting"} => InHand(q)'
               /\ Stage(q)' = "mapped" => Building(q)'
    BY <1>12, <2>1, <2>2, <2>3 DEF DataInv, WorkInv
  <2>. QED  BY <1>13, <2>3 DEF WorkInv, Dispatched
<1>. QED  BY <1>11, <1>14

\* The queue when a bio of it is done.
LEMMA Ended ==
  ASSUME DataInv, queue # <<>>, NEW b, b = queue[1], b.next = b.last, queue' = Rest,
         rq_pos' = NextPos(Nsec(Geom(b.p).segs[b.next]))
  PROVE  queue \in Seq(QueuedBio) /\ Head(queue) = b /\ queue' = Tail(queue)
         /\ queue' \in Seq(QueuedBio) /\ rq_pos' \in Int
<1>1. queue \in Seq(QueuedBio) /\ Head(queue) = b /\ Tail(queue) \in Seq(QueuedBio)
  BY DEF DataInv, TypeOK
<1>2. b.next \in Nat /\ ~(b.next < b.last)
  BY HeadBio
<1>3. queue' = Tail(queue)
  BY <1>1, <1>2, Zenon DEF Rest
<1>4. rq_pos' \in Int
  <2>1. rq_pos \in Int /\ Nsec(Geom(b.p).segs[b.next]) \in Nat
    BY HeadBio, SegmentShape DEF DataInv, TypeOK
  <2>2. Len(queue) # 1 => queue[2].pos \in Int
    <3>1. PICK N \in Nat : N = Len(queue)
      BY <1>1
    <3>2. N # 0 /\ (N # 1 => 2 \in 1 .. N)
      <4>1. N # 0
        BY <1>1, <3>1
      <4>2. N # 0 /\ N # 1 => 1 <= 2 /\ 2 <= N
        OBVIOUS
      <4>. QED  BY <4>1, <4>2
    <3>3. Len(queue) # 1 => queue[2] \in QueuedBio
      BY <1>1, <3>1, <3>2
    <3>. QED  BY <3>3 DEF QueuedBio
  <2>3. rq_pos + Nsec(Geom(b.p).segs[b.next]) \in Int
    BY <2>1
  <2>. QED  BY <2>2, <2>3, Zenon DEF NextPos
<1>. QED  BY <1>1, <1>3, <1>4

LEMMA OneLess ==
  ASSUME NEW x \in PendingReq
  PROVE  LET y == [x EXCEPT !.pendcnt = @ - 1] IN
         /\ y \in PendingReq /\ y.pendcnt = x.pendcnt - 1 /\ y.stage = x.stage /\ y.req = x.req
         /\ y.nr_pages = x.nr_pages /\ y.operation = x.operation /\ y.status = x.status
<1>1. x.pendcnt - 1 \in Int
  BY DEF PendingReq
<1>. QED  BY <1>1 DEF PendingReq

\* end_block_io_op for a bio that is not the last to be done of its structure.
LEMMA OneBioLess ==
  ASSUME DataInv, Transfer, queue[1].next = queue[1].last, pend[queue[1].p].pendcnt # 1
  PROVE  DataInv'
<1>0. PICK b : b = queue[1]
  OBVIOUS
<1>. DEFINE p == b.p  r == pend[b.p].req  g == Geom(b.p)
<1>1. /\ queue # <<>> /\ queue' = Rest /\ rq_pos' = NextPos(Nsec(g.segs[b.next]))
      /\ EndBio(p) /\ b.next = b.last
      /\ UNCHANGED <<block, grant, work>>
      /\ moved' \in [Request -> Seq(Move)] /\ MovedTo(moved'[r], g, b.next + 1)
      /\ \A s \in Request : s # r => moved'[s] = moved[s]
  BY <1>0, TransferOf
<1>2. /\ p \in Pending /\ b.next \in Nat /\ b.last \in Nat
      /\ Stage(p) \in {"submitting", "io"} /\ r \in Request /\ req[r].st = "taken"
      /\ g \in Geometry /\ b.next \in 1 .. Len(g.segs) /\ rq_pos = g.pos + Before(g.segs, b.next)
  BY <1>0, <1>1, HeadBio
<1>3. pend' = [pend EXCEPT ![p].pendcnt = @ - 1] /\ UNCHANGED <<mapped, handle, req>>
  BY <1>0, <1>1 DEF EndBio
<1>4. queue \in Seq(QueuedBio) /\ Head(queue) = b /\ queue' = Tail(queue)
      /\ queue' \in Seq(QueuedBio) /\ rq_pos' \in Int
  BY <1>0, <1>1, Ended
<1>5. /\ pend' \in [Pending -> PendingReq]
      /\ \A q \in Pending : /\ pend'[q].req = pend[q].req /\ pend'[q].nr_pages = pend[q].nr_pages
                            /\ pend'[q].operation = pend[q].operation
                            /\ pend'[q].status = pend[q].status /\ pend'[q].stage = pend[q].stage
                            /\ q # p => pend'[q] = pend[q]
      /\ pend'[p].pendcnt = pend[p].pendcnt - 1
  <2>. DEFINE y == [pend[p] EXCEPT !.pendcnt = @ - 1]
  <2>1. pend \in [Pending -> PendingReq] /\ pend' = [pend EXCEPT ![p] = y]
    BY <1>3 DEF DataInv, TypeOK
  <2>2. /\ y \in PendingReq /\ y.pendcnt = pend[p].pendcnt - 1 /\ y.stage = pend[p].stage
        /\ y.req = pend[p].req /\ y.nr_pages = pend[p].nr_pages
        /\ y.operation = pend[p].operation /\ y.status = pend[p].status
    BY <1>2, <2>1, OneLess, Zenon
  <2>. HIDE DEF y
  <2>. QED  BY <1>2, <2>1, <2>2
<1>6. \A q \in Pending : Stage(q)' = Stage(q) /\ Geom(q)' = Geom(q)
  BY <1>3, <1>5 DEF Stage, Geom
<1>7. \A q \in Pending : q # p /\ Stage(q) # "free" => moved'[pend[q].req] = moved[pend[q].req]
  BY <1>1, <1>2, Others
<1>8. TypeOK'
  BY <1>1, <1>3, <1>4, <1>5 DEF DataInv, TypeOK
<1>9. PendInv'
  <2>1. \A q \in Pending : Stage(q)' # "free" => Serves(q)'
    <3>1. \A q \in Pending : Stage(q) # "free" => Serves(q)
      BY DEF DataInv, PendInv
    <3>. QED  BY <1>1, <1>3, <1>5, <1>6, <3>1 DEF Serves, WellFormed
  <2>. QED  BY <1>5, <1>6, <2>1 DEF DataInv, PendInv
<1>10. GrantInv'
  BY <1>1, <1>3, GrantKept
<1>11. MapInv'
  BY <1>3, <1>5, <1>6, MapKept
<1>12. QueueInv' /\ WorkInv'
  BY <1>0, <1>1, <1>2, <1>4, <1>5, <1>6, <1>7, BioDone
<1>13. DoneInv'
  <2>1. ASSUME NEW s \in Request
        PROVE  /\ Answered(req[s], 0) => MovedTo(moved'[s], req[s].g, Len(req[s].g.segs) + 1)
               /\ req[s].st \in {"new", "sent"} \/ Answered(req[s], -1) => moved'[s] = <<>>
    <3>1. CASE s = r
      BY <1>2, <3>1 DEF Answered
    <3>2. CASE s # r
      BY <1>1, <3>2 DEF DataInv, DoneInv
    <3>. QED  BY <3>1, <3>2
  <2>2. ASSUME NEW q \in Pending, Stage(q) \in {"claimed", "mapped"} PROVE moved'[pend[q].req] = <<>>
    BY <1>2, <1>7, <2>2 DEF DataInv, DoneInv
  <2>3. \A q \in Pending : Stage(q)' \in {"claimed", "mapped"} => moved'[pend'[q].req] = <<>>
    BY <1>5, <1>6, <2>2
  <2>. QED  BY <1>3, <2>1, <2>3 DEF DoneInv
<1>. QED  BY <1>8, <1>9, <1>10, <1>11, <1>12, <1>13 DEF DataInv

\* end_block_io_op for the last bio of a structure: pages unmapped, request
\* answered, structure free.
LEMMA LastBioDone ==
  ASSUME DataInv, Transfer, queue[1].next = queue[1].last, pend[queue[1].p].pendcnt = 1
  PROVE  DataInv'
<1>0. PICK b : b = queue[1]
  OBVIOUS
<1>. DEFINE p == b.p  r == pend[b.p].req  g == Geom(b.p)
<1>1. /\ queue # <<>> /\ queue' = Rest /\ rq_pos' = NextPos(Nsec(g.segs[b.next]))
      /\ EndBio(p) /\ b.next = b.last
      /\ UNCHANGED <<block, grant, work>>
      /\ moved' \in [Request -> Seq(Move)] /\ MovedTo(moved'[r], g, b.next + 1)
      /\ \A s \in Request : s # r => moved'[s] = moved[s]
  BY <1>0, TransferOf
<1>2. /\ p \in Pending /\ b.next \in Nat /\ b.last \in Nat /\ b.left \in Nat
      /\ Stage(p) \in {"submitting", "io"} /\ r \in Request /\ req[r].st = "taken"
      /\ g \in Geometry /\ pend[p].status = 0
      /\ b.left = 0 /\ b.last = Len(g.segs)
  <2>1. /\ p \in Pending /\ b.next \in Nat /\ b.last \in Nat /\ b.left \in Nat
        /\ Stage(p) \in {"submitting", "io"} /\ r \in Request /\ req[r].st = "taken"
        /\ g \in Geometry /\ pend[p].status = 0
        /\ (b.left = 0 => b.last = Len(g.segs)) /\ pend[p].pendcnt = b.left + 1
    BY <1>0, <1>1, HeadBio
  <2>2. b.left = 0
    BY <1>0, <2>1
  <2>. QED  BY <2>1, <2>2
<1>3. /\ UnmapPages(p, mapped, handle) /\ Answer(r, 0) /\ pend' = [pend EXCEPT ![p] = FreePend]
  BY <1>0, <1>1, <1>2 DEF EndBio
<1>4. queue \in Seq(QueuedBio) /\ Head(queue) = b /\ queue' = Tail(queue)
      /\ queue' \in Seq(QueuedBio) /\ rq_pos' \in Int
  BY <1>0, <1>1, Ended
\* No other bio of the structure is in the queue, and none is to come.
<1>5. \A n \in DOMAIN queue : n # 1 => queue[n].p # p
  <2>. SUFFICES ASSUME NEW n \in DOMAIN queue, n # 1, queue[n].p = p PROVE FALSE
    OBVIOUS
  <2>1. n \in 1 .. Len(queue) /\ queue[n] \in QueuedBio /\ 1 \in DOMAIN queue /\ 1 < n
    BY <1>4
  <2>2. Together(1, n)
    BY <2>1 DEF DataInv, QueueInv
  <2>3. queue[n].left < b.left /\ queue[n].left \in Nat
    BY <1>0, <2>1, <2>2 DEF Together, QueuedBio
  <2>. QED  BY <1>2, <2>3
<1>6. Stage(p) = "io"
  <2>1. Stage(p) # "submitting"
    <3>. SUFFICES ASSUME Stage(p) = "submitting" PROVE FALSE
      OBVIOUS
    <3>1. Handing(p) /\ work.biolist \in Seq(Bio) /\ 1 \in DOMAIN queue
      BY <1>2, <1>4, <1>1 DEF DataInv, WorkInv, TypeOK
    <3>2. b.left >= Len(work.biolist) /\ Len(work.biolist) \in Nat /\ Len(work.biolist) # 0
      BY <1>0, <3>1 DEF Handing
    <3>. QED  BY <1>2, <3>2
  <2>. QED  BY <1>2, <2>1
<1>7. /\ pend' \in [Pending -> PendingReq] /\ Stage(p)' = "free"
      /\ \A q \in Pending : q # p => pend'[q] = pend[q] /\ Stage(q)' = Stage(q)
  BY <1>2, <1>3 DEF DataInv, TypeOK, FreePend, PendingReq, Stages, READ, Stage
<1>8. /\ req' \in [Request -> [st : States, g : Geometry \cup {NoGeometry}, res : {0, -1}]]
      /\ req'[r].st = "answered" /\ req'[r].res = 0
      /\ \A q \in Request : req'[q].g = req[q].g /\ (q # r => req'[q] = req[q])
  <2>1. req' = [req EXCEPT ![r].st = "answered", ![r].res = 0]
    BY <1>3 DEF Answer
  <2>. QED  BY <1>2, <2>1 DEF DataInv, TypeOK, States
<1>9. \A q \in Pending : Stage(q) # "free" /\ q # p =>
        /\ pend[q].req \in Request /\ pend[q].req # r
        /\ pend'[q] = pend[q] /\ req'[pend[q].req] = req[pend[q].req]
        /\ Geom(q)' = Geom(q) /\ moved'[pend[q].req] = moved[pend[q].req]
  BY <1>1, <1>2, <1>7, <1>8, Others DEF Geom
<1>10. /\ handle' \in [Pending -> [1 .. MaxSegs -> (Request \X (1 .. MaxSegs)) \cup {INVALID}]]
       /\ \A i \in 1 .. MaxSegs : handle'[p][i] = INVALID
       /\ \A q \in Pending : q # p => handle'[q] = handle[q]
  <2>. DEFINE row == [i \in 1 .. MaxSegs |-> INVALID]
  <2>1. /\ handle \in [Pending -> [1 .. MaxSegs -> (Request \X (1 .. MaxSegs)) \cup {INVALID}]]
        /\ \A i \in 1 .. MaxSegs : i > pend[p].nr_pages => handle[p][i] = INVALID
        /\ pend[p].nr_pages \in 1 .. MaxSegs
    <3>1. pend[p].nr_pages \in 1 .. MaxSegs /\ MaxSegs \in Nat
      BY <1>2, InUse, DataPathAssumption
    <3>2. \A i \in 1 .. MaxSegs : i > pend[p].nr_pages => ~(i <= pend[p].nr_pages)
      BY <3>1
    <3>3. \A i \in 1 .. MaxSegs : ~(i <= pend[p].nr_pages) => handle[p][i] = INVALID
      BY <1>2 DEF DataInv, MapInv
    <3>. QED  BY <3>1, <3>2, <3>3 DEF DataInv, TypeOK
  <2>2. [i \in DOMAIN handle[p] |-> IF i <= pend[p].nr_pages THEN INVALID ELSE handle[p][i]] = row
    <3>1. DOMAIN handle[p] = 1 .. MaxSegs
      BY <1>2, <2>1
    <3>2. ASSUME NEW i \in 1 .. MaxSegs
          PROVE  (IF i <= pend[p].nr_pages THEN INVALID ELSE handle[p][i]) = INVALID
      BY <2>1, DataPathAssumption
    <3>. QED  BY <3>1, <3>2
  <2>3. handle' = [handle EXCEPT ![p] = row]
    BY <1>3, <2>2 DEF UnmapPages
  <2>. QED  BY <1>2, <2>1, <2>3
<1>11. mapped' = {m \in mapped : m.p # p}
  <2>1. mapped' = mapped \ {m \in mapped : /\ m.p = p /\ m.i \in 1 .. pend[p].nr_pages
                                           /\ m.ref = handle[p][m.i]}
    BY <1>3 DEF UnmapPages
  <2>2. ASSUME NEW m \in mapped, m.p = p
        PROVE  m.i \in 1 .. pend[p].nr_pages /\ m.ref = handle[p][m.i]
    <3>1. PICK q \in Pending : /\ Stage(q) \in Holding
                               /\ \E i \in 1 .. pend[q].nr_pages : m = Entry(q, i)
      BY DEF DataInv, MapInv
    <3>2. PICK i \in 1 .. pend[q].nr_pages : m = Entry(q, i)
      BY <3>1
    <3>3. q = p /\ m.i = i /\ m.ref = <<r, i>>
      BY <2>2, <3>2 DEF Entry
    <3>4. i \in 1 .. MaxSegs /\ i <= pend[p].nr_pages /\ Stage(p) \in Holding
      BY <1>2, <3>1, <3>3, InUse, DataPathAssumption
    <3>5. handle[p][i] = <<r, i>>
      BY <1>2, <3>4 DEF DataInv, MapInv
    <3>. QED  BY <3>3, <3>5
  <2>. QED  BY <2>1, <2>2
<1>12. TypeOK'
  <2>1. req'[r].g \in Geometry
    BY <1>2, <1>8 DEF Geom
  <2>. QED  BY <1>1, <1>4, <1>7, <1>8, <1>10, <2>1 DEF DataInv, TypeOK
<1>13. PendInv'
  <2>1. \A q \in Pending : Stage(q)' # "free" => q # p /\ Stage(q) # "free" /\ Serves(q)'
    BY <1>1, <1>7, <1>9, ServesKept
  <2>. QED  BY <1>7, <2>1 DEF DataInv, PendInv, Dispatched
<1>14. GrantInv'
  <2>1. \A q \in Request : req'[q].st \in Open => req[q].st \in Open
    BY <1>2, <1>8 DEF Open
  <2>. QED  BY <1>1, <1>8, <2>1, GrantKept
<1>15. MapInv'
  <2>1. ASSUME NEW q \in Pending, NEW i \in 1 .. MaxSegs
        PROVE  handle'[q][i] = IF Stage(q)' \in Holding /\ i <= pend'[q].nr_pages
                               THEN <<pend'[q].req, i>> ELSE INVALID
    <3>1. CASE q = p
      BY <1>7, <1>10, <3>1 DEF Holding
    <3>2. CASE q # p
      BY <1>7, <1>10, <3>2 DEF DataInv, MapInv
    <3>. QED  BY <3>1, <3>2
  <2>2. ASSUME NEW q \in Pending, Stage(q)' \in Holding, NEW i \in 1 .. pend'[q].nr_pages
        PROVE  Entry(q, i)' \in mapped'
    <3>1. q # p /\ pend'[q] = pend[q] /\ Stage(q) \in Holding
      BY <1>7, <2>2 DEF Holding
    <3>2. Entry(q, i) \in mapped /\ Entry(q, i).p = q /\ Entry(q, i)' = Entry(q, i)
      BY <2>2, <3>1 DEF DataInv, MapInv, Entry
    <3>. QED  BY <1>11, <3>1, <3>2, Zenon
  <2>3. ASSUME NEW m \in mapped'
        PROVE  \E q \in Pending : /\ Stage(q)' \in Holding
                                  /\ \E i \in 1 .. pend'[q].nr_pages : m = Entry(q, i)'
    <3>1. m \in mapped /\ m.p # p
      BY <1>11
    <3>2. PICK q \in Pending : /\ Stage(q) \in Holding
                               /\ \E i \in 1 .. pend[q].nr_pages : m = Entry(q, i)
      BY <3>1 DEF DataInv, MapInv
    <3>3. q # p
      BY <3>1, <3>2 DEF Entry
    <3>. QED  BY <1>7, <3>2, <3>3 DEF Entry
  <2>. QED  BY <2>1, <2>2, <2>3 DEF MapInv
<1>16. QueueInv' /\ WorkInv'
  BY <1>0, <1>1, <1>4, <1>5, <1>7, <1>9, BioDone
<1>17. DoneInv'
  <2>1. ASSUME NEW s \in Request
        PROVE  /\ Answered(req'[s], 0) => MovedTo(moved'[s], req'[s].g, Len(req'[s].g.segs) + 1)
               /\ req'[s].st \in {"new", "sent"} \/ Answered(req'[s], -1) => moved'[s] = <<>>
    <3>1. CASE s = r
      <4>1. req'[r].g = g /\ b.next = Len(g.segs)
        BY <1>1, <1>2, <1>8 DEF Geom
      <4>. QED  BY <1>1, <1>8, <3>1, <4>1 DEF Answered
    <3>2. CASE s # r
      BY <1>1, <1>8, <3>2 DEF DataInv, DoneInv
    <3>. QED  BY <3>1, <3>2
  <2>2. ASSUME NEW q \in Pending, Stage(q)' \in {"claimed", "mapped"} PROVE moved'[pend'[q].req] = <<>>
    BY <1>7, <1>9, <2>2 DEF DataInv, DoneInv
  <2>. QED  BY <2>1, <2>2 DEF DoneInv
<1>. QED  BY <1>12, <1>13, <1>14, <1>15, <1>16, <1>17 DEF DataInv

LEMMA TransferKeeps == ASSUME DataInv, Transfer PROVE DataInv'
BY ChunkKeeps, OneBioLess, LastBioDone

LEMMA RejectKeeps == ASSUME DataInv, NEW p \in Pending, Reject(p) PROVE DataInv'
BY GivenUp DEF Reject, Stage

-----------------------------------------------------------------------------
(* All steps *)

LEMMA NothingChanges == ASSUME DataInv, UNCHANGED vars PROVE DataInv'
<1>. USE DEF vars
<1>1. \A p \in Pending : Stage(p)' = Stage(p) /\ Geom(p)' = Geom(p) /\ pend'[p] = pend[p]
  BY DEF Stage, Geom
<1>2. TypeOK' /\ DoneInv'
  BY DEF DataInv, TypeOK, DoneInv, Stage
<1>3. PendInv'
  BY <1>1, ServesKept DEF DataInv, PendInv
<1>4. GrantInv' /\ MapInv'
  BY <1>1, GrantKept, MapKept
<1>5. WorkInv' /\ QueueInv'
  BY <1>1, WorkKept, QueueKept DEF Geom
<1>. QED  BY <1>2, <1>3, <1>4, <1>5 DEF DataInv

LEMMA DataStep == DataInv /\ [Next]_vars => DataInv'
<1>. SUFFICES ASSUME DataInv, [Next]_vars PROVE DataInv'
  OBVIOUS
<1>1. CASE \E r \in Request : \E g \in Geometry : QueueRequest(r, g)
  BY <1>1, QueueRequestKeeps
<1>2. CASE \E r \in Request : \E p \in Pending : Claim(p, r)
  BY <1>2, ClaimKeeps
<1>3. CASE \E r \in Request : Complete(r)
  BY <1>3, CompleteKeeps
<1>4. CASE \E p \in Pending : Reject(p)
  BY <1>4, RejectKeeps
<1>5. CASE \E p \in Pending : NoBio(p)
  BY <1>5, NoBioKeeps
<1>6. CASE \E p \in Pending : \E bad \in SUBSET (1 .. MaxSegs) : MapPages(p, bad)
  BY <1>6, MapPagesKeeps
<1>7. CASE \E p \in Pending : \E fits \in BOOLEAN : AddPage(p, fits)
  BY <1>7, AddPageKeeps
<1>8. CASE \E p \in Pending : CountBios(p)
  BY <1>8, CountBiosKeeps
<1>9. CASE \E p \in Pending : \E merge \in BOOLEAN : SubmitBio(p, merge)
  BY <1>9, SubmitBioKeeps
<1>10. CASE Transfer
  BY <1>10, TransferKeeps
<1>11. CASE UNCHANGED vars
  BY <1>11, NothingChanges
<1>. QED
  BY <1>1, <1>2, <1>3, <1>4, <1>5, <1>6, <1>7, <1>8, <1>9, <1>10, <1>11, Zenon DEF Next

-----------------------------------------------------------------------------
(* Why a request is answered -1 *)

\* The hypervisor refuses no page: the front end has granted it for what the
\* request does.
LEMMA NoPageRefused ==
  ASSUME DataInv, NEW p \in Pending, Stage(p) = "claimed", NEW i \in 1 .. pend[p].nr_pages
  PROVE  ~Refused(p, i)
<1>. DEFINE r == pend[p].req
            ro == Readonly(req[r].g.dir)
            e == [ref |-> <<r, i>>, ro |-> ro]
<1>1. /\ r \in Request /\ req[r].st = "taken" /\ Geom(p) \in Geometry
      /\ pend[p].operation = Geom(p).dir /\ pend[p].nr_pages = Len(Geom(p).segs)
  BY InUse
<1>2. i \in DOMAIN req[r].g.segs
  BY <1>1, GeometryShape DEF Geom
<1>3. e \in grant
  BY <1>1, <1>2 DEF DataInv, GrantInv, Open
<1>4. e.ref = <<r, i>> /\ (e.ro => pend[p].operation # READ)
  <2>1. pend[p].operation = req[r].g.dir
    BY <1>1 DEF Geom
  <2>2. ro => pend[p].operation # READ
    BY <2>1 DEF Readonly, READ, WRITE
  <2>. HIDE DEF ro
  <2>3. e.ref = <<r, i>> /\ e.ro = ro
    OBVIOUS
  <2>. QED  BY <2>2, <2>3
<1>. HIDE DEF e
<1>. QED  BY <1>3, <1>4 DEF Refused

\* end_block_io_op answers 0.
LEMMA DeviceAnswersZero ==
  ASSUME DataInv, Transfer, NEW s \in Request
  PROVE  req'[s] = req[s] \/ req'[s].res = 0
<1>. DEFINE b == queue[1]  p == b.p  r == pend[p].req
<1>1. queue # <<>> /\ IF b.next = b.last THEN EndBio(p) ELSE UNCHANGED <<pend, mapped, handle, req>>
  BY TransferOf
<1>2. r \in Request /\ pend[p].status = 0
  BY <1>1, HeadBio
<1>3. UNCHANGED req \/ Answer(r, 0)
  BY <1>1, <1>2 DEF EndBio
<1>4. CASE Answer(r, 0)
  <2>1. req' = [req EXCEPT ![r].st = "answered", ![r].res = 0]
    BY <1>4 DEF Answer
  <2>2. req \in [Request -> [st : States, g : Geometry \cup {NoGeometry}, res : {0, -1}]]
    BY DEF DataInv, TypeOK
  <2>. HIDE DEF r
  <2>. QED  BY <1>2, <2>1, <2>2
<1>. QED  BY <1>3, <1>4

\* Only these steps answer -1.
LEMMA FailStep == DataInv /\ FailInv /\ [Next]_vars => FailInv'
<1>. SUFFICES ASSUME DataInv, FailInv, [Next]_vars, NEW s \in Request,
                     Answered(req[s], -1)', WellFormed(req[s].g)'
              PROVE  "map" \in Faults
  BY DEF FailInv
<1>0. req \in [Request -> [st : States, g : Geometry \cup {NoGeometry}, res : {0, -1}]]
  BY DEF DataInv, TypeOK
\* Nothing new: the request was answered before, or is still on its way.
<1>1. ASSUME block' = block, Answered(req[s], -1), req'[s].g = req[s].g PROVE "map" \in Faults
  BY <1>1 DEF FailInv, WellFormed
<1>2. ASSUME block' = block, req'[s] = req[s] PROVE "map" \in Faults
  BY <1>1, <1>2
<1>3. ASSUME NEW r \in Request, NEW g \in Geometry, QueueRequest(r, g) PROVE "map" \in Faults
  <2>1. block' = block /\ req' = [req EXCEPT ![r] = [st |-> "sent", g |-> g, res |-> 0]]
    BY <1>3 DEF QueueRequest
  <2>2. s # r
    BY <1>0, <2>1 DEF Answered
  <2>. QED  BY <1>0, <1>2, <2>1, <2>2
<1>4. ASSUME NEW r \in Request, NEW p \in Pending, Claim(p, r) PROVE "map" \in Faults
  <2>1. block' = block /\ req' = [req EXCEPT ![r].st = "taken"]
    BY <1>4 DEF Claim
  <2>2. s # r
    BY <1>0, <2>1 DEF Answered
  <2>. QED  BY <1>0, <1>2, <2>1, <2>2
<1>5. ASSUME NEW r \in Request, Complete(r) PROVE "map" \in Faults
  <2>1. block' = block /\ req' = [req EXCEPT ![r].st = "ended"] /\ req[r].st = "answered"
    BY <1>5 DEF Complete, EndRequestAll
  <2>2. CASE s = r
    BY <1>0, <1>1, <2>1, <2>2 DEF Answered
  <2>3. CASE s # r
    BY <1>0, <1>2, <2>1, <2>3
  <2>. QED  BY <2>2, <2>3
<1>6. ASSUME NEW p \in Pending, Reject(p) PROVE "map" \in Faults
  <2>. DEFINE r == pend[p].req
  <2>1. /\ block' = block /\ req' = [req EXCEPT ![r].st = "answered", ![r].res = -1]
        /\ Stage(p) = "claimed" /\ ~WellFormed(Geom(p))
    BY <1>6 DEF Reject, Answer, Stage
  <2>2. r \in Request
    BY <2>1, InUse
  <2>3. s # r
    <3>. SUFFICES ASSUME s = r PROVE FALSE
      OBVIOUS
    <3>1. req'[s].g = Geom(p)
      BY <1>0, <2>1, <2>2 DEF Geom
    <3>. QED  BY <2>1, <3>1 DEF WellFormed
  <2>. HIDE DEF r
  <2>. QED  BY <1>0, <1>2, <2>1, <2>2, <2>3
<1>7. ASSUME NEW p \in Pending, NEW bad \in SUBSET (1 .. MaxSegs), MapPages(p, bad)
      PROVE  "map" \in Faults
  <2>. DEFINE r == pend[p].req
              good == {i \in 1 .. pend[p].nr_pages : i \notin bad /\ ~Refused(p, i)}
  <2>1. /\ block' = block /\ Stage(p) = "claimed" /\ (bad # {} => "map" \in Faults)
        /\ good = 1 .. pend[p].nr_pages => UNCHANGED req
    BY <1>7 DEF MapPages, Stage
  <2>2. CASE bad = {}
    <3>1. good = 1 .. pend[p].nr_pages
      BY <2>1, <2>2, NoPageRefused
    <3>. QED  BY <1>2, <2>1, <3>1
  <2>. QED  BY <2>1, <2>2
<1>8. CASE Transfer
  <2>1. block' = block
    BY <1>8 DEF Transfer
  <2>2. req'[s] = req[s] \/ req'[s].res = 0
    BY <1>8, DeviceAnswersZero
  <2>. QED  BY <1>2, <2>1, <2>2 DEF Answered
\* The other steps answer nothing.
<1>9. ASSUME NEW p \in Pending,
             \/ NoBio(p) \/ CountBios(p)
             \/ \E fits \in BOOLEAN : AddPage(p, fits)
             \/ \E merge \in BOOLEAN : SubmitBio(p, merge)
      PROVE  "map" \in Faults
  <2>1. UNCHANGED <<block, req>>
    BY <1>9 DEF NoBio, CountBios, AddPage, SubmitBio
  <2>. QED  BY <1>2, <2>1
<1>10. CASE UNCHANGED vars
  BY <1>2, <1>10 DEF vars
<1>. QED
  BY <1>3, <1>4, <1>5, <1>6, <1>7, <1>8, <1>9, <1>10 DEF Next

LEMMA FailInit == Init => FailInv
BY DEF Init, FailInv, Answered

-----------------------------------------------------------------------------
(* The theorems *)

\* The invariants hold of every behaviour of the data path.
THEOREM DataInvariance == Spec => []DataInv
BY DataInit, DataStep, PTL DEF Spec

\* Whatever fails, no page is mapped any more when the front end ends the access to
\* it, and a pending_req in the pool has no handle left with which its next user
\* could unmap a page of another request (unmap_pages of end_block_io_op and of
\* map_pages_to_req in backend.c against idd_completion of frontend.c).
THEOREM PagesUnmappedInTime == Spec => []NoStaleMapping
BY DataInvariance, MappingsFollow, PTL

\* The device finds every page of every bio in its queue mapped for the request of
\* the bio and granted for what the bio does, although pages are unmapped when the
\* count of bios reaches 0 and bios end while later ones are being submitted
\* (dispatch_rw_block_io and end_block_io_op of backend.c).
THEOREM DeviceFindsPages == Spec => []PagesMappedDuringIo
BY DataInvariance, BiosHavePages, PTL

\* A request is answered -1 only if the message does not keep to the blocks of the
\* device or one of its pages could not be mapped (fail_response of
\* dispatch_rw_block_io): the hypervisor refuses no page the front end has granted,
\* and the device answers 0.
LEMMA FailInvariance == Spec => []FailInv
BY FailInit, FailStep, DataInvariance, PTL DEF Spec

\* idd_read_response and do_idd_request of frontend.c end a request sent as a
\* success.  It has moved each of its sectors once, between the right sector of the
\* disk and the right place of the right page, whatever its segments, wherever
\* bio_add_page cut it into bios, and whichever of these the block layer merged with
\* bios of other requests, if the back end answered 0.  If it answered -1 the block
\* layer is told of a success that moved nothing, and this happens only to a request
\* that does not keep to the blocks of the device or whose pages could not all be
\* mapped.  And every bio starts on a block of the device.
THEOREM DataLandsAlways == Spec => []DataLands
BY DataInvariance, FailInvariance, MovedIsWanted, PTL

=============================================================================
