-------------------------- MODULE Functions_proofs --------------------------
(***************************************************************************)
(* Theorems about the pure algorithms, for every input: the size of a      *)
(* ring, the global clock of xdd, its plan of requests, and its reader     *)
(* behind a writer.  The invariants of the model checked over small inputs *)
(* follow from them.                                                       *)
(***************************************************************************)
EXTENDS MCFunctions, FiniteSetTheorems, WellFoundedInduction, TLAPS

-----------------------------------------------------------------------------
(* The size of a ring.  The macros of ring.h round every 32-bit number but 0 *)
(* down to a power of two.  Each level of the tree is proved from the one    *)
(* below: if r is the power of two at or below x \div k, then k * r is the   *)
(* one at or below x.                                                        *)

\* The powers of two below 2^2, 2^4, 2^8, 2^16 and 2^32.
Powers2 == {1, 2}
Powers4 == Powers2 \cup {4, 8}
Powers8 == Powers4 \cup {16, 32, 64, 128}
Powers16 == Powers8 \cup {256, 512, 1024, 2048, 4096, 8192, 16384, 32768}
Powers32 == Powers16 \cup
    {65536, 131072, 262144, 524288, 1048576, 2097152, 4194304, 8388608,
     16777216, 33554432, 67108864, 134217728, 268435456, 536870912,
     1073741824, 2147483648}

\* r is x rounded down to a power of two of the set S.
Rounded(r, x, S) == r \in S /\ r <= x /\ x < 2 * r

LEMMA Rounds2 ==
  ASSUME NEW x \in Nat, 0 < x, x < 4
  PROVE  Rounded(RD2(x), x, Powers2)
  BY DEF RD2, Rounded, Powers2

\* What is rounded down at one level is, scaled by its shift, rounded down at
\* the next.
LEMMA Scale4 ==
  ASSUME NEW x \in Nat, NEW r, Rounded(r, x \div 4, Powers2)
  PROVE  Rounded(4 * r, x, Powers4)
<1>1. r \in Nat /\ 4 * r \in Powers4
  BY DEF Rounded, Powers2, Powers4
<1>2. r <= x \div 4 /\ x \div 4 < 2 * r
  BY DEF Rounded
<1>3. 4 * r <= x /\ x < 2 * (4 * r)
  BY <1>1, <1>2
<1> QED BY <1>1, <1>3 DEF Rounded

LEMMA Scale8 ==
  ASSUME NEW x \in Nat, NEW r, Rounded(r, x \div 16, Powers4)
  PROVE  Rounded(16 * r, x, Powers8)
<1>1. r \in Nat /\ 16 * r \in Powers8
  BY DEF Rounded, Powers2, Powers4, Powers8
<1>2. r <= x \div 16 /\ x \div 16 < 2 * r
  BY DEF Rounded
<1>3. 16 * r <= x /\ x < 2 * (16 * r)
  BY <1>1, <1>2
<1> QED BY <1>1, <1>3 DEF Rounded

LEMMA Scale16 ==
  ASSUME NEW x \in Nat, NEW r, Rounded(r, x \div 256, Powers8)
  PROVE  Rounded(256 * r, x, Powers16)
<1>1. r \in Nat /\ 256 * r \in Powers16
  <2>1. CASE r \in Powers4
    BY <2>1 DEF Powers2, Powers4, Powers8, Powers16
  <2>2. CASE r \notin Powers4
    BY <2>2 DEF Rounded, Powers8, Powers16
  <2> QED BY <2>1, <2>2
<1>2. r <= x \div 256 /\ x \div 256 < 2 * r
  BY DEF Rounded
<1>3. 256 * r <= x /\ x < 2 * (256 * r)
  BY <1>1, <1>2
<1> QED BY <1>1, <1>3 DEF Rounded

LEMMA Scale32 ==
  ASSUME NEW x \in Nat, NEW r, Rounded(r, x \div 65536, Powers16)
  PROVE  Rounded(65536 * r, x, Powers32)
<1>1. r \in Nat /\ 65536 * r \in Powers32
  <2>1. CASE r \in Powers8
    BY <2>1 DEF Powers2, Powers4, Powers8, Powers16, Powers32
  <2>2. CASE r \notin Powers8
    BY <2>2 DEF Rounded, Powers16, Powers32
  <2> QED BY <2>1, <2>2
<1>2. r <= x \div 65536 /\ x \div 65536 < 2 * r
  BY DEF Rounded
<1>3. 65536 * r <= x /\ x < 2 * (65536 * r)
  BY <1>1, <1>2
<1> QED BY <1>1, <1>3 DEF Rounded

LEMMA Rounds4 ==
  ASSUME NEW x \in Nat, 0 < x, x < 16
  PROVE  Rounded(RD4(x), x, Powers4)
<1>1. CASE x < 4
  <2>1. x \in Nat /\ 0 < x /\ x < 4 /\ (x \div 4) % 4 = 0
    BY <1>1
  <2>2. RD4(x) = RD2(x)
    BY <2>1 DEF RD4
  <2>3. Rounded(RD2(x), x, Powers2)
    BY <2>1, Rounds2
  <2> QED BY <2>2, <2>3 DEF Rounded, Powers4
<1>2. CASE x >= 4
  <2> DEFINE y == x \div 4
  <2>1. y \in Nat /\ 0 < y /\ y < 4 /\ y % 4 # 0
    BY <1>2
  <2>2. Rounded(RD2(y), y, Powers2)
    BY <2>1, Rounds2
  <2>3. RD4(x) = 4 * RD2(y)
    BY <2>1 DEF RD4
  <2>4. Rounded(4 * RD2(y), x, Powers4)
    BY <2>2, Scale4
  <2> QED BY <2>3, <2>4
<1> QED BY <1>1, <1>2

LEMMA Rounds8 ==
  ASSUME NEW x \in Nat, 0 < x, x < 256
  PROVE  Rounded(RD8(x), x, Powers8)
<1>1. CASE x < 16
  <2>1. x \in Nat /\ 0 < x /\ x < 16 /\ (x \div 16) % 16 = 0
    BY <1>1
  <2>2. RD8(x) = RD4(x)
    BY <2>1 DEF RD8
  <2>3. Rounded(RD4(x), x, Powers4)
    BY <2>1, Rounds4
  <2> QED BY <2>2, <2>3 DEF Rounded, Powers8
<1>2. CASE x >= 16
  <2> DEFINE y == x \div 16
  <2>1. y \in Nat /\ 0 < y /\ y < 16 /\ y % 16 # 0
    BY <1>2
  <2>2. Rounded(RD4(y), y, Powers4)
    BY <2>1, Rounds4
  <2>3. RD8(x) = 16 * RD4(y)
    BY <2>1 DEF RD8
  <2>4. Rounded(16 * RD4(y), x, Powers8)
    BY <2>2, Scale8
  <2> QED BY <2>3, <2>4
<1> QED BY <1>1, <1>2

LEMMA Rounds16 ==
  ASSUME NEW x \in Nat, 0 < x, x < 65536
  PROVE  Rounded(RD16(x), x, Powers16)
<1>1. CASE x < 256
  <2>1. x \in Nat /\ 0 < x /\ x < 256 /\ (x \div 256) % 256 = 0
    BY <1>1
  <2>2. RD16(x) = RD8(x)
    BY <2>1 DEF RD16
  <2>3. Rounded(RD8(x), x, Powers8)
    BY <2>1, Rounds8
  <2> QED BY <2>2, <2>3 DEF Rounded, Powers16
<1>2. CASE x >= 256
  <2> DEFINE y == x \div 256
  <2>1. y \in Nat /\ 0 < y /\ y < 256 /\ y % 256 # 0
    BY <1>2
  <2>2. Rounded(RD8(y), y, Powers8)
    BY <2>1, Rounds8
  <2>3. RD16(x) = 256 * RD8(y)
    BY <2>1 DEF RD16
  <2>4. Rounded(256 * RD8(y), x, Powers16)
    BY <2>2, Scale16
  <2> QED BY <2>3, <2>4
<1> QED BY <1>1, <1>2

\* Every 32-bit number but 0 is rounded down to the power of two at or below
\* it, and no further: the ring wastes less than half of what fits.
THEOREM RoundsDown ==
  ASSUME NEW x \in Nat, 0 < x, x < 4294967296
  PROVE  Rounded(RD32(x), x, Powers32)
<1>1. CASE x < 65536
  <2>1. x \in Nat /\ 0 < x /\ x < 65536 /\ x \div 65536 = 0
    BY <1>1
  <2>2. RD32(x) = RD16(x)
    BY <2>1 DEF RD32
  <2>3. Rounded(RD16(x), x, Powers16)
    BY <2>1, Rounds16
  <2> QED BY <2>2, <2>3 DEF Rounded, Powers32
<1>2. CASE x >= 65536
  <2> DEFINE y == x \div 65536
  <2>1. y \in Nat /\ 0 < y /\ y < 65536 /\ y # 0
    BY <1>2
  <2>2. Rounded(RD16(y), y, Powers16)
    BY <2>1, Rounds16
  <2>3. RD32(x) = 65536 * RD16(y)
    BY <2>1 DEF RD32
  <2>4. Rounded(65536 * RD16(y), x, Powers32)
    BY <2>2, Scale32
  <2> QED BY <2>3, <2>4
<1> QED BY <1>1, <1>2

\* A ring has a power of two of entries, each of which divides the 2^32 values
\* of RING_IDX, and all its entries fit: what the ring's model assumes of its
\* constants, so that an index which wraps to 0 goes on to the next slot.
THEOREM RingSizeIsPower ==
  ASSUME NEW bytes \in Nat, NEW header \in Nat, NEW entry \in Nat \ {0},
         (bytes - header) \div entry \in Nat,
         0 < (bytes - header) \div entry,
         (bytes - header) \div entry < 4294967296
  PROVE  /\ RingSizeOf(bytes, header, entry) \in Powers32
         /\ RingSizeOf(bytes, header, entry) <= (bytes - header) \div entry
<1>1. Rounded(RingSizeOf(bytes, header, entry), (bytes - header) \div entry, Powers32)
  BY RoundsDown DEF RingSizeOf
<1> QED BY <1>1 DEF Rounded

-----------------------------------------------------------------------------
(* Loops.  The loops of these algorithms are recursive functions: Iterates   *)
(* makes one of a step with a type, from least elements, and InductionUpTo   *)
(* goes along it.                                                            *)

\* Every set of naturals that is not empty has a least element.
LEMMA LeastNat ==
  ASSUME NEW T \in SUBSET Nat, T # {}
  PROVE  \E x \in T : \A y \in T : x <= y
<1>1. \E x \in T : \A y \in T : ~(<<y, x>> \in OpToRel(<, Nat))
  BY NatLessThanWellFounded, WFMin, Zenon
<1>2. \A x \in Nat, y \in Nat : <<y, x>> \in OpToRel(<, Nat) <=> y < x
  BY Zenon DEF OpToRel
<1>3. PICK x \in T : \A y \in T : ~(y < x)
  BY <1>1, <1>2, Zenon
<1> QED BY <1>3

\* A set that contains 0 and, up to n, with each number the next.
LEMMA InductionUpTo ==
  ASSUME NEW n \in Nat, NEW T, 0 \in T, \A k \in 0 .. n - 1 : k \in T => k + 1 \in T
  PROVE  0 .. n \subseteq T
<1> SUFFICES ASSUME (0 .. n) \ T # {} PROVE FALSE
  OBVIOUS
<1>1. PICK x \in (0 .. n) \ T : \A y \in (0 .. n) \ T : x <= y
  <2> (0 .. n) \ T \in SUBSET Nat
    OBVIOUS
  <2> QED BY LeastNat
<1>2. x # 0 /\ x - 1 \in 0 .. n - 1
  BY <1>1
<1>3. x - 1 \in T
  BY <1>1, <1>2
<1>4. (x - 1) + 1 = x
  BY <1>1
<1> QED BY <1>1, <1>2, <1>3, <1>4

\* A loop of n turns that carries a value of V from one to the next.
Carries(f, n, V, v, next) ==
  f \in [0..n -> V] /\ f[0] = v /\ \A i \in 1..n : f[i] = next[<<f[i - 1], i>>]

LEMMA Iterates ==
  ASSUME NEW n \in Nat, NEW V, NEW v \in V, NEW next \in [V \X (1..n) -> V]
  PROVE  \E f : Carries(f, n, V, v, next)
<1>. DEFINE Upto(m, f) == f \in [0..m -> V] /\ f[0] = v /\ \A i \in 1..m : f[i] = next[<<f[i - 1], i>>]
            Done == {m \in 0..n : \E f : Upto(m, f)}
<1>1. 0 \in Done
  <2>1. Upto(0, [i \in 0..0 |-> v])
    OBVIOUS
  <2>. HIDE DEF Upto
  <2>. QED  BY <2>1
<1>2. ASSUME NEW k \in 0..n - 1, k \in Done PROVE k + 1 \in Done
  <2>1. PICK f : Upto(k, f)
    BY <1>2
  <2>. DEFINE g == [i \in 0..(k + 1) |-> IF i = k + 1 THEN next[<<f[k], k + 1>>] ELSE f[i]]
  <2>2. f[k] \in V /\ next[<<f[k], k + 1>>] \in V
    <3>1. k \in 0..k /\ k + 1 \in 1..n
      OBVIOUS
    <3>2. f[k] \in V
      BY <2>1, <3>1
    <3>. QED  BY <3>1, <3>2
  <2>3. g \in [0..(k + 1) -> V] /\ g[0] = v
    BY <2>1, <2>2
  <2>4. ASSUME NEW i \in 1..(k + 1) PROVE g[i] = next[<<g[i - 1], i>>]
    <3>1. CASE i = k + 1
      <4>1. i - 1 = k /\ k # k + 1 /\ k \in 0..(k + 1)
        BY <3>1
      <4>2. g[i - 1] = f[k] /\ g[i] = next[<<f[k], k + 1>>]
        BY <3>1, <4>1
      <4>. HIDE DEF g
      <4>. QED  BY <3>1, <4>2
    <3>2. CASE i # k + 1
      <4>1. i \in 1..k /\ i - 1 \in 0..(k + 1) /\ i - 1 # k + 1
        BY <3>2
      <4>2. g[i] = f[i] /\ g[i - 1] = f[i - 1]
        BY <3>2, <4>1
      <4>. HIDE DEF g
      <4>. QED  BY <2>1, <4>1, <4>2
    <3>. QED  BY <3>1, <3>2
  <2>5. Upto(k + 1, g)
    <3>. HIDE DEF g
    <3>. QED  BY <2>3, <2>4
  <2>6. k + 1 \in 0..n
    OBVIOUS
  <2>. HIDE DEF g, Upto
  <2>. QED  BY <2>5, <2>6
<1>3. n \in Done
  <2>. HIDE DEF Done
  <2>1. 0..n \subseteq Done
    BY <1>1, <1>2, InductionUpTo
  <2>. QED  BY <2>1
<1>. QED  BY <1>3 DEF Carries

-----------------------------------------------------------------------------
(* The global clock.  Each answer of the time server keeps the client's      *)
(* clock at or behind the server's, whatever the delays of the network are.  *)

\* A bounce of a network that takes its time.
IsBounce(b) == b.sent \in Int /\ b.out \in Nat /\ b.back \in Nat

\* The estimate of a bounce is behind the true offset, by the way back and
\* half of the round trip (the code subtracts where Cristian's method adds).
THEOREM EstimateBehind ==
  ASSUME NEW b, IsBounce(b), NEW offset \in Int
  PROVE  LET e == Estimate(RemoteClock(b, offset), Now(b), Now(b) - b.sent)
         IN  /\ e \in Int
             /\ e = offset - b.back - ((b.out + b.back) \div 2)
             /\ e <= offset
<1> DEFINE half == (b.out + b.back) \div 2
<1>1. Now(b) - b.sent = b.out + b.back
  BY DEF Now, IsBounce
<1>2. half \in Nat
  BY DEF IsBounce
<1>3. Estimate(RemoteClock(b, offset), Now(b), Now(b) - b.sent)
        = (b.sent + b.out + offset) - ((b.sent + b.out + b.back) + half)
  BY <1>1 DEF Estimate, RemoteClock, Now
<1> HIDE DEF half
<1>4. (b.sent + b.out + offset) - ((b.sent + b.out + b.back) + half)
        = offset - b.back - half
  BY <1>2 DEF IsBounce
<1>5. offset - b.back - half \in Int /\ offset - b.back - half <= offset
  BY <1>2 DEF IsBounce
<1> QED BY <1>3, <1>4, <1>5 DEF half

\* Refining never moves the clock back or past the server's, and leaves it
\* behind by no more than the answer took to come back: threads start at the
\* global time they were given or after it, never before.
THEOREM RefineBehind ==
  ASSUME NEW b, IsBounce(b), NEW offset \in Int,
         NEW delta \in Int, delta <= offset
  PROVE  LET d == Refine(delta, RemoteClock(b, offset), Now(b))
         IN d \in Int /\ delta <= d /\ d <= offset /\ offset - d <= b.back
  BY DEF Refine, RemoteClock, Now, IsBounce

\* The bounces the loops go through.
Bounce == [sent : Int, out : Nat, back : Nat]

\* What a bounce is made of.
LEMMA BounceFields ==
  ASSUME NEW b \in Bounce
  PROVE  IsBounce(b) /\ Now(b) \in Int /\ b.sent \in Int
<1>1. b.sent \in Int /\ b.out \in Nat /\ b.back \in Nat
  BY DEF Bounce
<1>. QED  BY <1>1 DEF IsBounce, Now

\* The two loops go through their bounces one by one.
LEMMA RefinementSteps ==
  ASSUME NEW delta \in Int, NEW bounces \in Seq(Bounce), NEW offset \in Int
  PROVE  LET d == Refinements(delta, bounces, offset)
         IN  /\ d[0] = delta
             /\ \A i \in 1..Len(bounces) :
                  d[i] = Refine(d[i - 1], RemoteClock(bounces[i], offset), Now(bounces[i]))
<1>. DEFINE n == Len(bounces)
            After(x, i) == Refine(x, RemoteClock(bounces[i], offset), Now(bounces[i]))
            next == [p \in Int \X (1..n) |-> After(p[1], p[2])]
            Loop(f) == f = [i \in 0..n |-> IF i = 0 THEN delta ELSE After(f[i - 1], i)]
            d == Refinements(delta, bounces, offset)
<1>1. n \in Nat
  OBVIOUS
<1>2. next \in [Int \X (1..n) -> Int]
  <2>1. ASSUME NEW x \in Int, NEW i \in 1..n PROVE After(x, i) \in Int
    <3>. DEFINE b == bounces[i]
    <3>0. b \in Bounce
      OBVIOUS
    <3>. HIDE DEF b
    <3>1. Now(b) \in Int /\ RemoteClock(b, offset) \in Int
      BY <3>0, BounceFields DEF IsBounce, RemoteClock
    <3>2. Refine(x, RemoteClock(b, offset), Now(b)) \in Int
      BY <3>1 DEF Refine
    <3>. QED  BY <3>2 DEF b
  <2>. HIDE DEF After, n
  <2>. QED  BY <2>1
<1>. HIDE DEF n, After
<1>3. PICK f : Carries(f, n, Int, delta, next)
  <2>. HIDE DEF next
  <2>1. delta \in Int
    OBVIOUS
  <2>. QED  BY <1>1, <1>2, <2>1, Iterates, Zenon
<1>4. \A i \in 0..n : f[i] = IF i = 0 THEN delta ELSE After(f[i - 1], i)
  <2>. SUFFICES ASSUME NEW i \in 1..n PROVE f[i] = After(f[i - 1], i)
    BY <1>1, <1>3 DEF Carries
  <2>1. f[i - 1] \in Int
    BY <1>1, <1>3 DEF Carries
  <2>. QED  BY <1>3, <2>1 DEF Carries
<1>5. Loop(f)
  <2>1. f = [i \in 0..n |-> f[i]]
    BY <1>3 DEF Carries
  <2>. QED  BY <1>4, <2>1
<1>6. d = CHOOSE g : Loop(g)
  BY DEF Refinements, n, After
<1>7. Loop(d)
  <2>. HIDE DEF Loop, d
  <2>. QED  BY <1>5, <1>6
<1>8. d[0] = delta /\ \A i \in 1..n : d[i] = After(d[i - 1], i)
  <2>. HIDE DEF d
  <2>1. \A i \in 0..n : d[i] = IF i = 0 THEN delta ELSE After(d[i - 1], i)
    BY <1>7
  <2>. QED  BY <1>1, <2>1
<1>. QED  BY <1>8 DEF n, After

\* The quickest bounce so far, and its estimate.
Best == [min : Nat, delta : Int]
Better(x, b, offset) ==
  IF Now(b) - b.sent < x.min
    THEN [min |-> Now(b) - b.sent, delta |-> Estimate(RemoteClock(b, offset), Now(b), Now(b) - b.sent)]
    ELSE x

LEMMA EstimateSteps ==
  ASSUME NEW bounces \in Seq(Bounce), NEW offset \in Int
  PROVE  LET best == Estimates(bounces, offset)
         IN  /\ best[0] = [min |-> Never, delta |-> 0]
             /\ \A i \in 1..Len(bounces) : best[i] = Better(best[i - 1], bounces[i], offset)
<1>. DEFINE n == Len(bounces)
            start == [min |-> Never, delta |-> 0]
            next == [p \in Best \X (1..n) |-> Better(p[1], bounces[p[2]], offset)]
            Loop(f) == f = [i \in 0..n |-> IF i = 0 THEN start ELSE Better(f[i - 1], bounces[i], offset)]
            best == Estimates(bounces, offset)
<1>1. n \in Nat /\ start \in Best
  BY DEF Best, Never
<1>2. next \in [Best \X (1..n) -> Best]
  <2>1. ASSUME NEW x \in Best, NEW i \in 1..n PROVE Better(x, bounces[i], offset) \in Best
    <3>. DEFINE b == bounces[i]
    <3>0. b \in Bounce
      OBVIOUS
    <3>. HIDE DEF b
    <3>1. b.sent \in Int /\ b.out \in Nat /\ b.back \in Nat
      BY <3>0 DEF Bounce
    <3>2. Now(b) - b.sent \in Nat /\ Now(b) \in Int /\ RemoteClock(b, offset) \in Int
      <4>1. Now(b) = b.sent + b.out + b.back /\ RemoteClock(b, offset) = b.sent + b.out + offset
        BY DEF Now, RemoteClock
      <4>. QED  BY <3>1, <4>1
    <3>3. Estimate(RemoteClock(b, offset), Now(b), Now(b) - b.sent) \in Int
      BY <3>2 DEF Estimate
    <3>4. Better(x, b, offset) \in Best
      BY <3>2, <3>3 DEF Better, Best
    <3>. QED  BY <3>4 DEF b
  <2>. HIDE DEF n
  <2>. QED  BY <2>1
<1>. HIDE DEF n, start
<1>3. PICK f : Carries(f, n, Best, start, next)
  <2>. HIDE DEF next
  <2>. QED  BY <1>1, <1>2, Iterates, Zenon
<1>4. \A i \in 0..n : f[i] = IF i = 0 THEN start ELSE Better(f[i - 1], bounces[i], offset)
  <2>. SUFFICES ASSUME NEW i \in 1..n PROVE f[i] = Better(f[i - 1], bounces[i], offset)
    BY <1>1, <1>3 DEF Carries
  <2>1. f[i - 1] \in Best
    BY <1>1, <1>3 DEF Carries
  <2>. QED  BY <1>3, <2>1 DEF Carries
<1>5. Loop(f)
  <2>1. f = [i \in 0..n |-> f[i]]
    BY <1>3 DEF Carries
  <2>. QED  BY <1>4, <2>1
<1>6. best = CHOOSE g : Loop(g)
  BY DEF Estimates, n, start, Better
<1>7. Loop(best)
  <2>. HIDE DEF Loop, best
  <2>. QED  BY <1>5, <1>6
<1>8. best[0] = start /\ \A i \in 1..n : best[i] = Better(best[i - 1], bounces[i], offset)
  <2>. HIDE DEF best
  <2>1. \A i \in 0..n : best[i] = IF i = 0 THEN start ELSE Better(best[i - 1], bounces[i], offset)
    BY <1>7
  <2>. QED  BY <1>1, <2>1
<1>. QED  BY <1>8 DEF n, start

\* The first loop ends behind the true offset, if any bounce was counted at all.
LEMMA QuickestBehind ==
  ASSUME NEW bounces \in Seq(Bounce), NEW offset \in Int,
         \E i \in 1..Len(bounces) : Now(bounces[i]) - bounces[i].sent < Never
  PROVE  Quickest(bounces, offset) \in Int /\ Quickest(bounces, offset) <= offset
<1>. DEFINE n == Len(bounces)
            best == Estimates(bounces, offset)
            trip(i) == Now(bounces[i]) - bounces[i].sent
            Good == {i \in 0..n : /\ best[i].min \in Nat /\ best[i].delta \in Int
                                  /\ best[i].min < Never => best[i].delta <= offset
                                  /\ \A j \in 1..i : best[i].min <= trip(j)}
<1>1. n \in Nat
  OBVIOUS
<1>2. best[0] = [min |-> Never, delta |-> 0]
      /\ \A i \in 1..n : best[i] = Better(best[i - 1], bounces[i], offset)
  BY EstimateSteps
<1>. HIDE DEF n, best
<1>3. 0 \in Good
  BY <1>1, <1>2 DEF Never
<1>4. ASSUME NEW k \in 0..n - 1, k \in Good PROVE k + 1 \in Good
  <2>. DEFINE b == bounces[k + 1]  x == best[k]  y == best[k + 1]
              e == Estimate(RemoteClock(b, offset), Now(b), Now(b) - b.sent)
  <2>1. k \in Nat /\ k + 1 \in 1..n /\ (k + 1) - 1 = k
    BY <1>1
  <2>2. b \in Bounce
    BY <2>1 DEF n
  <2>3. IsBounce(b)
    BY <2>2 DEF Bounce, IsBounce
  <2>4. e \in Int /\ e <= offset
    BY <2>3, EstimateBehind
  <2>5. trip(k + 1) = b.out + b.back /\ trip(k + 1) \in Nat
    <3>1. Now(b) = b.sent + b.out + b.back
      BY DEF Now
    <3>2. trip(k + 1) = Now(b) - b.sent
      OBVIOUS
    <3>. HIDE DEF b, trip
    <3>. QED  BY <2>3, <3>1, <3>2 DEF IsBounce
  <2>6. y = IF trip(k + 1) < x.min THEN [min |-> trip(k + 1), delta |-> e] ELSE x
    <3>. HIDE DEF b, x, y
    <3>1. y = Better(x, b, offset)
      BY <1>2, <2>1 DEF b, x, y
    <3>. QED  BY <3>1 DEF Better, b
  <2>7. /\ x.min \in Nat /\ x.delta \in Int /\ (x.min < Never => x.delta <= offset)
        /\ \A j \in 1..k : x.min <= trip(j)
    BY <1>4
  <2>8. \A j \in 1..k : trip(j) \in Int
    <3>. SUFFICES ASSUME NEW j \in 1..k PROVE trip(j) \in Int
      OBVIOUS
    <3>1. bounces[j] \in Bounce
      BY <2>1 DEF n
    <3>2. Now(bounces[j]) \in Int /\ bounces[j].sent \in Int
      BY <3>1, BounceFields
    <3>. QED  BY <3>2
  <2>. HIDE DEF x, y, e, b, trip
  <2>9. /\ y.min \in Nat /\ y.delta \in Int /\ (y.min < Never => y.delta <= offset)
        /\ y.min <= x.min /\ y.min <= trip(k + 1)
    <3>1. CASE trip(k + 1) < x.min
      <4>1. y.min = trip(k + 1) /\ y.delta = e
        BY <2>6, <3>1
      <4>. QED  BY <2>4, <2>5, <2>7, <3>1, <4>1
    <3>2. CASE ~(trip(k + 1) < x.min)
      <4>1. y = x
        BY <2>6, <3>2
      <4>. QED  BY <2>5, <2>7, <3>2, <4>1
    <3>. QED  BY <3>1, <3>2
  <2>10. \A j \in 1..(k + 1) : y.min <= trip(j)
    BY <2>1, <2>7, <2>8, <2>9
  <2>11. k + 1 \in 0..n
    BY <1>1
  <2>. QED  BY <2>9, <2>10, <2>11 DEF y
<1>5. n \in Good
  <2>. HIDE DEF Good
  <2>1. 0..n \subseteq Good
    BY <1>1, <1>3, <1>4, InductionUpTo
  <2>. QED  BY <1>1, <2>1
<1>6. PICK i \in 1..n : trip(i) < Never
  BY DEF n
<1>7. trip(i) \in Int
  <2>1. bounces[i] \in Bounce
    BY DEF n
  <2>2. Now(bounces[i]) \in Int /\ bounces[i].sent \in Int
    BY <2>1, BounceFields
  <2>. QED  BY <2>2
<1>. HIDE DEF trip
<1>8. best[n].delta \in Int /\ best[n].delta <= offset
  BY <1>5, <1>6, <1>7 DEF Never
<1>. QED  BY <1>8 DEF Quickest, best, n

\* The second loop stays behind, and gets within the way back of each of its bounces.
LEMMA RefinedBehind ==
  ASSUME NEW delta \in Int, NEW bounces \in Seq(Bounce), NEW offset \in Int, delta <= offset
  PROVE  LET r == Refined(delta, bounces, offset)
         IN  r \in Int /\ r <= offset /\ \A i \in 1..Len(bounces) : offset - r <= bounces[i].back
<1>. DEFINE n == Len(bounces)
            d == Refinements(delta, bounces, offset)
            Good == {i \in 0..n : /\ d[i] \in Int /\ d[i] <= offset
                                  /\ \A j \in 1..i : offset - d[i] <= bounces[j].back}
<1>1. n \in Nat
  OBVIOUS
<1>2. d[0] = delta
      /\ \A i \in 1..n : d[i] = Refine(d[i - 1], RemoteClock(bounces[i], offset), Now(bounces[i]))
  BY RefinementSteps
<1>. HIDE DEF n, d
<1>3. 0 \in Good
  BY <1>1, <1>2
<1>4. ASSUME NEW k \in 0..n - 1, k \in Good PROVE k + 1 \in Good
  <2>1. k \in Nat /\ k + 1 \in 1..n /\ (k + 1) - 1 = k /\ k + 1 \in 0..n
    BY <1>1
  <2>2. bounces[k + 1] \in Bounce /\ \A j \in 1..k : bounces[j] \in Bounce
    BY <2>1 DEF n
  <2>3. IsBounce(bounces[k + 1])
    BY <2>2 DEF Bounce, IsBounce
  <2>4. d[k] \in Int /\ d[k] <= offset /\ \A j \in 1..k : offset - d[k] <= bounces[j].back
    BY <1>4
  <2>5. d[k + 1] = Refine(d[k], RemoteClock(bounces[k + 1], offset), Now(bounces[k + 1]))
    BY <1>2, <2>1
  <2>6. d[k + 1] \in Int /\ d[k] <= d[k + 1] /\ d[k + 1] <= offset
        /\ offset - d[k + 1] <= bounces[k + 1].back
    BY <2>3, <2>4, <2>5, RefineBehind
  <2>7. \A j \in 1..k : bounces[j].back \in Int
    BY <2>2, BounceFields DEF IsBounce
  <2>8. \A j \in 1..(k + 1) : offset - d[k + 1] <= bounces[j].back
    <3>1. ASSUME NEW j \in 1..k PROVE offset - d[k + 1] <= bounces[j].back
      BY <2>4, <2>6, <2>7
    <3>. QED  BY <2>1, <2>6, <3>1
  <2>. QED  BY <2>1, <2>6, <2>8
<1>5. n \in Good
  <2>. HIDE DEF Good
  <2>1. 0..n \subseteq Good
    BY <1>1, <1>3, <1>4, InductionUpTo
  <2>. QED  BY <1>1, <2>1
<1>. QED  BY <1>5 DEF Refined, d, n

\* For any bounces of any delays: the thread starts at the global time or after it, and late
\* by no more than the quickest way back of the second loop.
THEOREM ClockNeverEarly ==
  ASSUME NEW first \in Seq(Bounce), NEW second \in Seq(Bounce), NEW offset \in Int, NEW gts \in Int,
         \E i \in 1..Len(first) : Now(first[i]) - first[i].sent < Never
  PROVE  StartsOnTime(first, second, offset, gts)
<1>. DEFINE delta == clk_delta(first, second, offset)
<1>1. /\ delta \in Int /\ delta <= offset
      /\ \A i \in 1..Len(second) : offset - delta <= second[i].back
  BY QuickestBehind, RefinedBehind DEF clk_delta
<1>. HIDE DEF delta
<1>2. ActualLocalStartTime(gts, delta) - (gts - offset) = offset - delta
  BY <1>1 DEF ActualLocalStartTime
<1>3. offset - delta >= 0
  BY <1>1
<1>. QED  BY <1>1, <1>2, <1>3 DEF StartsOnTime, delta

-----------------------------------------------------------------------------
(* The plan of requests.  Blocks, requests and turns of the queue threads    *)
(* are numbered by division with remainder: block x belongs to request       *)
(* x \div req, and request j is turn j \div depth of thread j % depth.       *)

\* A step from a to b is at least one c.
LEMMA OneMore ==
  ASSUME NEW a \in Nat, NEW b \in Nat, NEW c \in Nat, a < b
  PROVE  (a * c) + c <= b * c /\ a * c \in Nat /\ b * c \in Nat
<1>1. PICK e \in Nat : b = (a + 1) + e
  <2>1. b - (a + 1) \in Nat /\ b = (a + 1) + (b - (a + 1))
    OBVIOUS
  <2> QED BY <2>1
<1>2. b * c = ((a * c) + c) + (e * c) /\ e * c \in Nat /\ a * c \in Nat
  BY <1>1, Z3
<1> QED BY <1>2

\* Division with remainder, which is determined by the number.
LEMMA Divided ==
  ASSUME NEW x \in Nat, NEW m \in Nat \ {0}
  PROVE  /\ x \div m \in Nat /\ x % m \in 0..m - 1
         /\ x = ((x \div m) * m) + (x % m)
  BY Z3

LEMMA DividedBySmaller ==
  ASSUME NEW x \in Nat, NEW m \in Nat, x < m
  PROVE  x \div m = 0 /\ x % m = x
  BY Z3

LEMMA DividedOnce ==
  ASSUME NEW m \in Nat \ {0}, NEW a \in Nat, NEW b \in Nat, NEW r \in 0..m - 1, NEW s \in 0..m - 1,
         (a * m) + r = (b * m) + s
  PROVE  a = b /\ r = s
<1>1. ~(a < b)
  <2> SUFFICES ASSUME a < b PROVE FALSE
    OBVIOUS
  <2>1. (a * m) + m <= b * m /\ a * m \in Nat /\ b * m \in Nat
    BY OneMore
  <2> QED BY <2>1
<1>2. ~(b < a)
  <2> SUFFICES ASSUME b < a PROVE FALSE
    OBVIOUS
  <2>1. (b * m) + m <= a * m /\ a * m \in Nat /\ b * m \in Nat
    BY OneMore
  <2> QED BY <2>1
<1>3. a = b
  BY <1>1, <1>2
<1>4. a * m \in Nat
  BY Z3
<1> QED BY <1>3, <1>4

\* A thread has its turn k if there is a request of that number.
LEMMA TurnsOfThread ==
  ASSUME NEW n \in Nat, NEW d \in Nat \ {0}, NEW q \in 0..(Depth(n, d) - 1), NEW k \in Nat
  PROVE  k < QueueRequests(n, d, q) <=> (k * Depth(n, d)) + q < n
<1>1. CASE n > 0 /\ n < d
  <2>1. Depth(n, d) = n /\ QueueRequests(n, d, q) = 1
    BY <1>1 DEF Depth, QueueRequests, Residual
  <2>2. CASE k = 0
    BY <2>1, <2>2
  <2>3. CASE k > 0
    <3>1. (0 * n) + n <= k * n /\ k * n \in Nat
      BY <2>3, OneMore
    <3> QED BY <2>1, <2>3, <3>1
  <2> QED BY <2>2, <2>3
<1>2. CASE ~(n > 0 /\ n < d)
  <2> DEFINE a == n \div d  r == n % d
  <2>1. a \in Nat /\ r \in 0..d - 1 /\ n = (a * d) + r
    BY Divided
  <2>2. Depth(n, d) = d /\ QueueRequests(n, d, q) = a + (IF q < r THEN 1 ELSE 0)
    BY <1>2 DEF Depth, QueueRequests, Residual
  <2> HIDE DEF a, r
  <2>3. a * d \in Nat /\ k * d \in Nat
    BY <2>1, Z3
  <2>4. CASE k < a
    <3>1. (k * d) + d <= a * d
      BY <2>1, <2>4, OneMore
    <3> QED BY <2>1, <2>2, <2>3, <2>4, <3>1
  <2>5. CASE k = a
    BY <2>1, <2>2, <2>3, <2>5
  <2>6. CASE k > a
    <3>1. (a * d) + d <= k * d
      BY <2>1, <2>6, OneMore
    <3> QED BY <2>1, <2>2, <2>3, <2>6, <3>1
  <2> QED BY <2>1, <2>4, <2>5, <2>6
<1> QED BY <1>1, <1>2

\* Where the requests of a thread lie.
LEMMA BlockIsRequest ==
  ASSUME NEW n \in Nat, NEW d \in Nat \ {0}, NEW req \in Nat \ {0},
         NEW q \in 0..(Depth(n, d) - 1), NEW k \in Nat
  PROVE  /\ Depth(n, d) \in Nat \ {0} /\ QueueRequests(n, d, q) \in Nat
         /\ (k * Depth(n, d)) + q \in Nat
         /\ Location(0, q, Depth(n, d), req, 0, k) = ((k * Depth(n, d)) + q) * req
<1> DEFINE w == Depth(n, d)
<1>1. w \in Nat \ {0}
  BY DEF Depth
<1>2. QueueRequests(n, d, q) \in Nat
  <2>1. n \div d \in Nat
    BY Divided
  <2> QED BY <2>1 DEF QueueRequests
<1> HIDE DEF w
<1>3. q \in 0..w - 1
  BY DEF w
<1>4. k * w \in Nat
  BY <1>1, Z3
<1>5. IF w > 1 THEN q % w = q ELSE q = 0
  BY <1>1, <1>3
<1>6. Location(0, q, w, req, 0, k) = (q * req) + (k * (req * w))
  <2>1. k * ((req * w) + 0) = k * (req * w) /\ q * req \in Nat /\ k * (req * w) \in Nat
    BY <1>1, <1>3, Z3
  <2>2. 0 * req = 0
    OBVIOUS
  <2> QED BY <1>1, <1>5, <2>1, <2>2 DEF Location
<1>7. ((k * w) + q) * req = (q * req) + (k * (req * w))
  BY <1>1, <1>3, Z3
<1> QED BY <1>1, <1>2, <1>3, <1>4, <1>6, <1>7 DEF w

\* However many requests, threads and blocks a request: every block of the target
\* is in exactly one request of one thread.
THEOREM BlocksDealtOut ==
  ASSUME NEW n \in Nat, NEW d \in Nat \ {0}, NEW req \in Nat \ {0}
  PROVE  EachBlockOnce(n, d, req)
<1> DEFINE w == Depth(n, d)
           threads == 0..(w - 1)
           number(q, k) == (k * w) + q
<1>1. w \in Nat \ {0}
  BY DEF Depth
<1>2. ASSUME NEW q \in threads, NEW x \in BlocksOf(n, d, req, q)
      PROVE  \E k \in Nat, b \in 0..(req - 1) :
                /\ number(q, k) \in Nat /\ number(q, k) < n /\ x = (number(q, k) * req) + b
  <2>0. QueueRequests(n, d, q) \in Nat
    BY BlockIsRequest
  <2>1. PICK k \in 0..(QueueRequests(n, d, q) - 1), b \in 0..(req - 1) :
            x = Location(0, q, w, req, 0, k) + b
    BY DEF BlocksOf
  <2>2. k \in Nat /\ k < QueueRequests(n, d, q)
    BY <2>0
  <2>3. number(q, k) \in Nat /\ Location(0, q, w, req, 0, k) = number(q, k) * req
    BY <2>2, BlockIsRequest
  <2>4. number(q, k) < n
    BY <2>2, TurnsOfThread
  <2> HIDE DEF number
  <2> QED BY <2>1, <2>2, <2>3, <2>4
<1>3. ASSUME NEW x \in 0..(n * req - 1) PROVE \E q \in threads : x \in BlocksOf(n, d, req, q)
  <2> DEFINE j == x \div req  b == x % req  k == j \div w  q == j % w
  <2>0. x \in Nat
    BY Z3
  <2>1. j \in Nat /\ b \in 0..req - 1 /\ x = (j * req) + b
    BY <2>0, Divided
  <2>2. n * req \in Nat /\ j * req \in Nat
    BY <2>1, Z3
  <2> HIDE DEF j, b
  <2>3. j < n
    <3> SUFFICES ASSUME n <= j PROVE FALSE
      BY <2>1
    <3>1. CASE n = j
      BY <2>1, <2>2, <3>1
    <3>2. CASE n < j
      <4>1. (n * req) + req <= j * req
        BY <2>1, <3>2, OneMore
      <4> QED BY <2>1, <2>2, <4>1
    <3> QED BY <2>1, <3>1, <3>2
  <2>4. k \in Nat /\ q \in threads /\ j = (k * w) + q
    BY <1>1, <2>1, Divided
  <2> HIDE DEF k, q
  <2>5. k < QueueRequests(n, d, q) /\ QueueRequests(n, d, q) \in Nat
    BY <2>3, <2>4, TurnsOfThread, BlockIsRequest
  <2>6. x = Location(0, q, w, req, 0, k) + b
    BY <2>1, <2>4, BlockIsRequest
  <2>7. k \in 0..(QueueRequests(n, d, q) - 1)
    BY <2>4, <2>5
  <2>8. x \in BlocksOf(n, d, req, q)
    BY <2>1, <2>6, <2>7 DEF BlocksOf
  <2> HIDE DEF threads
  <2> QED BY <2>4, <2>8
<1>4. ASSUME NEW q \in threads, NEW x \in BlocksOf(n, d, req, q) PROVE x \in 0..(n * req - 1)
  <2>1. PICK k \in Nat, b \in 0..(req - 1) :
            number(q, k) \in Nat /\ number(q, k) < n /\ x = (number(q, k) * req) + b
    BY <1>2
  <2> HIDE DEF number
  <2>2. (number(q, k) * req) + req <= n * req /\ number(q, k) * req \in Nat /\ n * req \in Nat
    BY <2>1, OneMore
  <2> QED BY <2>1, <2>2
<1>5. ASSUME NEW q \in threads, NEW r \in threads, NEW x \in BlocksOf(n, d, req, q),
             x \in BlocksOf(n, d, req, r)
      PROVE  q = r
  <2>1. PICK k \in Nat, b \in 0..(req - 1) :
            number(q, k) \in Nat /\ x = (number(q, k) * req) + b
    BY <1>2
  <2>2. PICK l \in Nat, c \in 0..(req - 1) :
            number(r, l) \in Nat /\ x = (number(r, l) * req) + c
    BY <1>2, <1>5
  <2>3. number(q, k) = number(r, l)
    <3> HIDE DEF number
    <3> QED BY <2>1, <2>2, DividedOnce
  <2> HIDE DEF w
  <2> QED BY <1>1, <2>3, DividedOnce
<1>6. UNION {BlocksOf(n, d, req, q) : q \in threads} = 0..(n * req - 1)
  <2> HIDE DEF threads
  <2> QED BY <1>3, <1>4, Zenon
<1>7. \A q, r \in threads : q # r => BlocksOf(n, d, req, q) \cap BlocksOf(n, d, req, r) = {}
  <2> HIDE DEF threads
  <2> QED BY <1>5, Zenon
<1> QED BY <1>6, <1>7 DEF EachBlockOnce

\* What the first k operations of a pass transfer: whole requests, up to the
\* amount of the pass.
LEMMA TransferredIs ==
  ASSUME NEW bytes \in Nat, NEW iosize \in Nat \ {0}, NEW k \in Nat
  PROVE  Transferred(bytes, iosize, k) = Smaller(k * iosize, bytes)
<1> DEFINE whole(i) == Smaller(i * iosize, bytes)
           After(x) == x + actual_iosize(bytes, x, iosize)
           Loop(f) == f = [i \in 0..k |-> IF i = 0 THEN 0 ELSE After(f[i - 1])]
           done == CHOOSE f : Loop(f)
           g == [i \in 0..k |-> whole(i)]
<1>1. whole(0) = 0
  <2>1. 0 * iosize = 0
    BY Z3
  <2> QED BY <2>1 DEF Smaller
<1>2. ASSUME NEW i \in Nat \ {0} PROVE whole(i) = After(whole(i - 1))
  <2>1. /\ i * iosize = ((i - 1) * iosize) + iosize
        /\ (i - 1) * iosize \in Nat /\ i * iosize \in Nat
    BY Z3
  <2> DEFINE x == (i - 1) * iosize  y == i * iosize
  <2> HIDE DEF x, y
  <2>2. Smaller(y, bytes) = Smaller(x, bytes) + Smaller(iosize, bytes - Smaller(x, bytes))
    BY <2>1 DEF x, y, Smaller
  <2> QED BY <2>2 DEF x, y, actual_iosize
<1> HIDE DEF whole, After
<1>3. Loop(g)
  <2>1. ASSUME NEW i \in 0..k PROVE g[i] = IF i = 0 THEN 0 ELSE After(g[i - 1])
    <3>1. CASE i = 0
      BY <1>1, <3>1
    <3>2. CASE i # 0
      <4>1. i \in Nat \ {0} /\ i - 1 \in 0..k
        BY <3>2
      <4>2. g[i] = whole(i) /\ g[i - 1] = whole(i - 1)
        BY <4>1
      <4> HIDE DEF g
      <4> QED BY <1>2, <3>2, <4>1, <4>2
    <3> QED BY <3>1, <3>2
  <2>2. g = [i \in 0..k |-> g[i]]
    OBVIOUS
  <2> HIDE DEF g
  <2> QED BY <2>1, <2>2
<1>4. Loop(done)
  <2> HIDE DEF Loop, g
  <2> QED BY <1>3
<1> DEFINE Alike == {i \in 0..k : done[i] = whole(i)}
<1>5. \A i \in 0..k : done[i] = IF i = 0 THEN 0 ELSE After(done[i - 1])
  <2> HIDE DEF done
  <2> QED BY <1>4
<1> HIDE DEF done, Loop
<1>6. 0 \in Alike
  BY <1>1, <1>5
<1>7. ASSUME NEW i \in 0..k - 1, i \in Alike PROVE i + 1 \in Alike
  <2>1. i + 1 \in 0..k /\ i + 1 # 0 /\ (i + 1) - 1 = i /\ i + 1 \in Nat \ {0}
    OBVIOUS
  <2>2. done[i + 1] = After(done[i])
    BY <1>5, <2>1
  <2>3. whole(i + 1) = After(whole(i))
    BY <1>2, <2>1
  <2>4. done[i] = whole(i)
    BY <1>7
  <2> QED BY <2>1, <2>2, <2>3, <2>4
<1>8. k \in Alike
  <2> HIDE DEF Alike
  <2>1. 0..k \subseteq Alike
    BY <1>6, <1>7, InductionUpTo
  <2> QED BY <2>1
<1>9. Transferred(bytes, iosize, k) = done[k]
  BY DEF Transferred, done, Loop, After
<1> QED BY <1>8, <1>9 DEF whole

\* A pass of any amount in requests of any length: all of it is transferred, the
\* last operation is the short one, and none is empty.
THEOREM AllOfItTransferred ==
  ASSUME NEW bytes \in Nat, NEW iosize \in Nat \ {0}
  PROVE  AllBytesMoved(bytes, iosize)
<1> DEFINE a == bytes \div iosize  r == bytes % iosize
           total == total_ops(bytes, iosize)
<1>1. a \in Nat /\ r \in 0..iosize - 1 /\ bytes = (a * iosize) + r
  BY Divided
<1>2. total = a + (IF r # 0 THEN 1 ELSE 0)
  BY DEF total_ops
<1> HIDE DEF a, r, total
<1>3. total \in Nat /\ a * iosize \in Nat /\ (a + 1) * iosize = (a * iosize) + iosize
  BY <1>1, <1>2, Z3
<1>4. total * iosize >= bytes /\ total * iosize \in Nat
  <2>1. CASE r = 0
    BY <1>1, <1>2, <1>3, <2>1
  <2>2. CASE r # 0
    <3>1. total = a + 1
      BY <1>2, <2>2
    <3> QED BY <1>1, <1>3, <3>1
  <2> QED BY <2>1, <2>2
<1>5. Transferred(bytes, iosize, total) = bytes
  <2>1. Transferred(bytes, iosize, total) = Smaller(total * iosize, bytes)
    BY <1>3, TransferredIs
  <2> QED BY <1>4, <2>1 DEF Smaller
<1>6. ASSUME NEW k \in 1..total
      PROVE  Transferred(bytes, iosize, k) > Transferred(bytes, iosize, k - 1)
  <2>1. k \in Nat /\ k - 1 \in Nat /\ k - 1 < k /\ k - 1 <= a /\ (k - 1 = a => r # 0)
    BY <1>1, <1>2, <1>3
  <2>2. /\ ((k - 1) * iosize) + iosize <= k * iosize
        /\ (k - 1) * iosize \in Nat /\ k * iosize \in Nat
    BY <2>1, OneMore
  <2>3. (k - 1) * iosize < bytes
    <3>1. CASE k - 1 = a
      BY <1>1, <1>3, <2>1, <3>1
    <3>2. CASE k - 1 < a
      <4>1. ((k - 1) * iosize) + iosize <= a * iosize
        BY <1>1, <2>1, <3>2, OneMore
      <4> QED BY <1>1, <1>3, <2>2, <4>1
    <3> QED BY <1>1, <2>1, <3>1, <3>2
  <2>4. /\ Transferred(bytes, iosize, k) = Smaller(k * iosize, bytes)
        /\ Transferred(bytes, iosize, k - 1) = Smaller((k - 1) * iosize, bytes)
    BY <2>1, TransferredIs
  <2> QED BY <2>2, <2>3, <2>4 DEF Smaller
<1> QED BY <1>5, <1>6 DEF AllBytesMoved, total

\* An amount of one request or more: a thread makes whole requests of its share,
\* and these are the requests dealt out to it.
LEMMA WholeRequests ==
  ASSUME NEW bytes \in Nat, NEW iosize \in Nat \ {0}, NEW d \in Nat \ {0}, bytes >= iosize,
         NEW q \in 0..(Depth(RequestsOf(bytes, iosize), d) - 1)
  PROVE  /\ RequestsOf(bytes, iosize) \in Nat
         /\ Share(bytes, iosize, d, q) \in Nat
         /\ BytesOf(bytes, iosize, d, q) = BlocksOf(RequestsOf(bytes, iosize), d, iosize, q)
<1> DEFINE n == RequestsOf(bytes, iosize)
           w == Depth(n, d)
           m == QueueRequests(n, d, q)
           share == m * iosize
           At(k) == Location(0, q, w, iosize, 0, k)
           Length(k) == actual_iosize(share, Transferred(share, iosize, k), iosize)
<1>1. n \in Nat /\ n > 0
  <2> DEFINE a == bytes \div iosize  r == bytes % iosize
  <2>1. a \in Nat /\ r \in 0..iosize - 1 /\ bytes = (a * iosize) + r
    BY Divided
  <2> HIDE DEF a, r
  <2>2. a # 0
    <3> SUFFICES ASSUME a = 0 PROVE FALSE
      OBVIOUS
    <3>1. a * iosize = 0
      BY Z3
    <3> QED BY <2>1, <3>1
  <2>3. n = a
    BY DEF RequestsOf, a
  <2> QED BY <2>1, <2>2, <2>3
<1> HIDE DEF n
<1>2. w \in 1..n /\ q \in 0..(w - 1)
  BY <1>1 DEF Depth, n
<1>3. m \in Nat
  BY <1>1, <1>2, BlockIsRequest
<1>4. m > 0
  <2>1. 0 < m <=> (0 * w) + q < n
    BY <1>1, <1>2, TurnsOfThread
  <2>2. (0 * w) + q = q
    BY <1>2, Z3
  <2> HIDE DEF m, w
  <2> QED BY <1>1, <1>2, <1>3, <2>1, <2>2
<1> HIDE DEF m
<1>5. share \in Nat
  BY <1>3, Z3
<1>6. Share(bytes, iosize, d, q) = share
  BY <1>4 DEF Share, bytestoxfer, m, n
<1> HIDE DEF share
<1>7. total_ops(share, iosize) = m
  <2> DEFINE a == share \div iosize  r == share % iosize
  <2>1. a \in Nat /\ r \in 0..iosize - 1 /\ share = (a * iosize) + r
    BY <1>5, Divided
  <2>2. total_ops(share, iosize) = a + (IF r # 0 THEN 1 ELSE 0)
    BY DEF total_ops
  <2> HIDE DEF a, r
  <2>3. (m * iosize) + 0 = (a * iosize) + r
    BY <1>5, <2>1 DEF share
  <2>4. a = m /\ r = 0
    BY <1>3, <2>1, <2>3, DividedOnce
  <2> QED BY <1>3, <2>2, <2>4
<1>8. ASSUME NEW k \in 0..(m - 1) PROVE Length(k) = iosize
  <2>1. (k * iosize) + iosize <= share /\ k * iosize \in Nat
    BY <1>3, OneMore DEF share
  <2>2. Transferred(share, iosize, k) = k * iosize
    <3>1. Transferred(share, iosize, k) = Smaller(k * iosize, share)
      BY <1>3, <1>5, TransferredIs
    <3> QED BY <1>5, <2>1, <3>1 DEF Smaller
  <2> QED BY <1>5, <2>1, <2>2 DEF actual_iosize, Smaller
<1> HIDE DEF At, Length
<1>9. \A x : x \in BytesOf(bytes, iosize, d, q)
               <=> \E k \in 0..(m - 1) : \E b \in 0..(Length(k) - 1) : x = At(k) + b
  <2> DEFINE s == Share(bytes, iosize, d, q)
             L(k) == actual_iosize(s, Transferred(s, iosize, k), iosize)
             all == 0..(total_ops(s, iosize) - 1)
  <2>1. BytesOf(bytes, iosize, d, q) = UNION {{At(k) + b : b \in 0..(L(k) - 1)} : k \in all}
    BY Zenon DEF BytesOf, At, w, n
  <2>2. s = share
    BY <1>6
  <2>3. all = 0..(m - 1)
    BY <1>7, <2>2
  <2>4. \A k : L(k) = Length(k)
    BY <2>2 DEF Length
  <2> HIDE DEF s, L, all
  <2>5. \A x : x \in BytesOf(bytes, iosize, d, q) <=> \E k \in all : \E b \in 0..(L(k) - 1) : x = At(k) + b
    BY <2>1
  <2> QED BY <2>3, <2>4, <2>5, Zenon
<1>10. \A x : x \in BytesOf(bytes, iosize, d, q)
                <=> \E k \in 0..(m - 1), b \in 0..(iosize - 1) : x = At(k) + b
  BY <1>8, <1>9, Zenon
<1>11. BlocksOf(n, d, iosize, q) = {At(k) + b : k \in 0..(m - 1), b \in 0..(iosize - 1)}
  BY DEF BlocksOf, At, m, w
<1>12. BytesOf(bytes, iosize, d, q) = BlocksOf(n, d, iosize, q)
  BY <1>9, <1>10, <1>11
<1> QED BY <1>1, <1>5, <1>6, <1>12 DEF n

\* An amount of less than one request: every thread moves it, at its own place.
LEMMA LessThanRequest ==
  ASSUME NEW bytes \in Nat \ {0}, NEW iosize \in Nat \ {0}, NEW d \in Nat \ {0}, bytes < iosize,
         NEW q \in 0..(Depth(RequestsOf(bytes, iosize), d) - 1)
  PROVE  /\ Share(bytes, iosize, d, q) = bytes
         /\ BytesOf(bytes, iosize, d, q) = AmountAt(bytes, iosize, q)
<1> DEFINE w == Depth(RequestsOf(bytes, iosize), d)
           At(k) == Location(0, q, w, iosize, 0, k)
           Length(k) == actual_iosize(bytes, Transferred(bytes, iosize, k), iosize)
<1>1. bytes \div iosize = 0 /\ bytes % iosize = bytes
  BY DividedBySmaller
<1>2. RequestsOf(bytes, iosize) = 0
  BY <1>1 DEF RequestsOf
<1>3. w = d
  BY <1>2 DEF Depth
<1>4. QueueRequests(0, d, q) = 0
  <2>1. 0 \div d = 0 /\ 0 % d = 0
    BY DividedBySmaller
  <2> QED BY <1>2, <1>3, <2>1 DEF QueueRequests, Residual
<1>5. Share(bytes, iosize, d, q) = bytes
  BY <1>2, <1>4 DEF Share, bytestoxfer
<1>6. total_ops(bytes, iosize) = 1
  BY <1>1 DEF total_ops
<1>7. Length(0) = bytes
  <2>1. Transferred(bytes, iosize, 0) = Smaller(0 * iosize, bytes) /\ 0 * iosize = 0
    BY TransferredIs, Z3
  <2> QED BY <2>1 DEF Smaller, actual_iosize
<1>8. At(0) = q * iosize
  <2>1. At(0) = ((0 * d) + q) * iosize
    <3>1. d = Depth(0, d) /\ q \in 0..(Depth(0, d) - 1)
      BY <1>2, <1>3
    <3>2. Location(0, q, Depth(0, d), iosize, 0, 0) = ((0 * Depth(0, d)) + q) * iosize
      BY <3>1, BlockIsRequest
    <3> QED BY <1>3, <3>1, <3>2
  <2>2. (0 * d) + q = q
    BY <1>3, Z3
  <2> QED BY <2>1, <2>2
<1> HIDE DEF At, Length
<1>9. BytesOf(bytes, iosize, d, q) = UNION {{At(k) + b : b \in 0..(Length(k) - 1)} : k \in 0..(1 - 1)}
  BY <1>5, <1>6, Zenon DEF BytesOf, At, Length, w
<1>10. BytesOf(bytes, iosize, d, q) = {At(0) + b : b \in 0..(Length(0) - 1)}
  <2>1. \A k : k \in 0..(1 - 1) <=> k = 0
    OBVIOUS
  <2> QED BY <1>9, <2>1
<1> QED BY <1>5, <1>7, <1>8, <1>10 DEF AmountAt

\* Whatever the amount, the length of a request and the depth of the queue: the
\* threads move the whole requests of the amount, each byte once, or the amount
\* each if it is less than one request.
THEOREM AmountDealtOut ==
  ASSUME NEW bytes \in Nat \ {0}, NEW iosize \in Nat \ {0}, NEW d \in Nat \ {0}
  PROVE  AmountMoved(bytes, iosize, d)
<1> DEFINE n == RequestsOf(bytes, iosize)
           threads == 0..(Depth(n, d) - 1)
           B(q) == BytesOf(bytes, iosize, d, q)
<1>1. CASE bytes >= iosize
  <2>1. n \in Nat
    BY Divided DEF RequestsOf
  <2>2. \A q \in threads : /\ AllBytesMoved(Share(bytes, iosize, d, q), iosize)
                           /\ B(q) = BlocksOf(n, d, iosize, q)
    BY <1>1, WholeRequests, AllOfItTransferred
  <2>3. /\ UNION {BlocksOf(n, d, iosize, q) : q \in threads} = 0..(n * iosize - 1)
        /\ \A q, r \in threads :
             q # r => BlocksOf(n, d, iosize, q) \cap BlocksOf(n, d, iosize, r) = {}
    BY <2>1, BlocksDealtOut DEF EachBlockOnce
  <2>4. n * iosize - 1 = bytes - (bytes % iosize) - 1
    <3>1. /\ n = bytes \div iosize /\ bytes % iosize \in Nat
          /\ bytes = ((bytes \div iosize) * iosize) + (bytes % iosize)
      BY Divided DEF RequestsOf
    <3> DEFINE x == n * iosize
    <3>2. x \in Nat
      BY <2>1, Z3
    <3>3. bytes = x + (bytes % iosize)
      BY <3>1
    <3> HIDE DEF x
    <3>4. x - 1 = bytes - (bytes % iosize) - 1
      BY <3>1, <3>2, <3>3
    <3> QED BY <3>4 DEF x
  <2>5. UNION {B(q) : q \in threads} = 0..(bytes - (bytes % iosize) - 1)
    <3> HIDE DEF B, threads
    <3>1. {B(q) : q \in threads} = {BlocksOf(n, d, iosize, q) : q \in threads}
      BY <2>2
    <3> QED BY <2>3, <2>4, <3>1
  <2>6. \A q, r \in threads : q # r => B(q) \cap B(r) = {}
    BY <2>2, <2>3
  <2> QED BY <1>1, <2>2, <2>5, <2>6 DEF AmountMoved
<1>2. CASE bytes < iosize
  <2>1. ASSUME NEW q \in threads
        PROVE  /\ AllBytesMoved(Share(bytes, iosize, d, q), iosize)
               /\ B(q) = AmountAt(bytes, iosize, q)
    <3>1. AllBytesMoved(bytes, iosize)
      BY AllOfItTransferred
    <3>2. q \in 0..(Depth(RequestsOf(bytes, iosize), d) - 1)
      OBVIOUS
    <3>3. Share(bytes, iosize, d, q) = bytes
      BY <1>2, <3>2, LessThanRequest
    <3>4. BytesOf(bytes, iosize, d, q) = AmountAt(bytes, iosize, q)
      BY <1>2, <3>2, LessThanRequest
    <3> QED BY <3>1, <3>3, <3>4, Zenon
  <2>2. ASSUME NEW q \in threads, NEW r \in threads, NEW x \in B(q), x \in B(r) PROVE q = r
    <3>1. PICK b \in 0..(bytes - 1) : x = (q * iosize) + b
      BY <2>1 DEF AmountAt
    <3>2. PICK c \in 0..(bytes - 1) : x = (r * iosize) + c
      BY <2>1, <2>2 DEF AmountAt
    <3>3. b \in 0..(iosize - 1) /\ c \in 0..(iosize - 1) /\ q \in Nat /\ r \in Nat
      BY <1>2
    <3> QED BY <3>1, <3>2, <3>3, DividedOnce
  <2>3. \A q, r \in threads : q # r => B(q) \cap B(r) = {}
    <3> HIDE DEF B, threads
    <3> QED BY <2>2, Zenon
  <2>4. UNION {B(q) : q \in threads} = UNION {AmountAt(bytes, iosize, q) : q \in threads}
    <3> HIDE DEF B, threads
    <3> QED BY <2>1
  <2>5. ~(bytes >= iosize)
    BY <1>2
  <2> QED BY <2>1, <2>3, <2>4, <2>5 DEF AmountMoved
<1> QED BY <1>1, <1>2

\* A staggered list stays in its range with the last request of it left free,
\* and its requests do not overlap.
THEOREM StaggerStaysInRange ==
  ASSUME NEW range \in Nat, NEW req \in Nat, NEW ops \in Nat
  PROVE  StaggerInRange(range, req, ops)
<1> SUFFICES ASSUME ops > 1, (ops + 1) * req <= range, NEW k \in 0..(ops - 1)
             PROVE  LET at == Location(0, 0, 1, req, Gap(range, req, ops), k)
                    IN  at >= k * req /\ at + req <= range - req
  BY DEF StaggerInRange
<1> DEFINE spare == (range - req) - ops * req
           gap == Gap(range, req, ops)
           last == ops - 1
<1>1. /\ ops * req \in Nat /\ last * req \in Nat /\ ops * req = (last * req) + req
      /\ (ops + 1) * req = (ops * req) + req
  BY Z3
<1>2. spare \in Nat /\ last \in Nat \ {0}
  BY <1>1
<1>3. gap = spare \div last /\ gap \in Nat /\ gap * last <= spare
  <2>1. gap = spare \div last
    BY <1>2 DEF Gap, Truncated
  <2>2. spare \div last \in Nat /\ spare % last \in 0..last - 1
        /\ spare = ((spare \div last) * last) + (spare % last)
    BY <1>2, Divided
  <2> HIDE DEF spare, last, gap
  <2>3. gap * last \in Nat
    BY <1>2, <2>1, <2>2, Z3
  <2> QED BY <1>2, <2>1, <2>2, <2>3
<1>4. Location(0, 0, 1, req, gap, k) = k * (req + gap)
  <2>1. (req * 1) + gap = req + gap
    BY <1>3
  <2>2. k * (req + gap) \in Nat
    BY <1>3, Z3
  <2> HIDE DEF gap
  <2> QED BY <2>1, <2>2 DEF Location
<1>5. k <= last /\ k \in Nat
  BY <1>2
<1>6. spare = range - (req + (ops * req)) /\ range \in Nat /\ req \in Nat
  BY <1>1
<1> HIDE DEF spare, gap, last
<1>7. k * (req + gap) = (k * req) + (k * gap) /\ k * gap \in Nat /\ k * req \in Nat
  BY <1>3, <1>5, Z3
<1>8. k * (req + gap) <= (last * req) + (gap * last) /\ gap * last \in Nat
  <2>1. CASE k = last
    BY <1>2, <1>3, <2>1, Z3
  <2>2. CASE k < last
    <3>1. (k * (req + gap)) + (req + gap) <= last * (req + gap) /\ k * (req + gap) \in Nat
      BY <1>2, <1>3, <1>5, <2>2, OneMore
    <3>2. last * (req + gap) = (last * req) + (gap * last) /\ gap * last \in Nat
      BY <1>2, <1>3, Z3
    <3> QED BY <1>1, <1>3, <3>1, <3>2
  <2> QED BY <1>2, <1>5, <2>1, <2>2
<1>9. (k * (req + gap)) + req <= range - req
  BY <1>1, <1>3, <1>6, <1>7, <1>8, <1>2
<1> QED BY <1>4, <1>7, <1>9 DEF gap

\* The reads among the first n operations of a list.
ReadsOf(ratio, n) == {k \in 0..(n - 1) : IsRead(ratio, k)}

\* Each operation adds a read when the tenths pass a whole one; the first one
\* of a list with more reads than writes is a read on top of them.
LEMMA ReadsCounted ==
  ASSUME NEW ratio \in 0..10, NEW n \in Nat
  PROVE  /\ IsFiniteSet(ReadsOf(ratio, n + 1))
         /\ Cardinality(ReadsOf(ratio, n + 1)) = percent_op(ratio, n) + (IF ratio >= 5 THEN 1 ELSE 0)
<1> DEFINE extra == IF ratio >= 5 THEN 1 ELSE 0
           Counted == {m \in 0..n : /\ IsFiniteSet(ReadsOf(ratio, m + 1))
                                    /\ Cardinality(ReadsOf(ratio, m + 1)) = percent_op(ratio, m) + extra}
<1>1. 0 \in Counted
  <2>1. percent_op(ratio, 0) = 0
    BY DEF percent_op
  <2>2. IsRead(ratio, 0) <=> ratio >= 5
    BY <2>1 DEF IsRead, previous_percent_op
  <2>3. ReadsOf(ratio, 0 + 1) = IF ratio >= 5 THEN {0} ELSE {}
    BY <2>2 DEF ReadsOf
  <2>4. /\ IsFiniteSet({}) /\ Cardinality({}) = 0
        /\ IsFiniteSet({0}) /\ Cardinality({0}) = 1
    BY FS_EmptySet, FS_Singleton
  <2> QED BY <2>1, <2>3, <2>4
<1>2. ASSUME NEW m \in 0..n - 1, m \in Counted PROVE m + 1 \in Counted
  <2> DEFINE A == ReadsOf(ratio, m + 1)  B == ReadsOf(ratio, (m + 1) + 1)
             x == ratio * m  p == percent_op(ratio, m)  p1 == percent_op(ratio, m + 1)
  <2>1. m \in Nat /\ m + 1 \in 0..n /\ m + 1 > 0 /\ (m + 1) - 1 = m
    OBVIOUS
  <2>2. x \in Nat /\ ratio * (m + 1) = x + ratio
    BY <2>1, Z3
  <2>3. p = x \div 10 /\ p1 = (x + ratio) \div 10
    BY <2>2 DEF percent_op
  <2> HIDE DEF x, p, p1
  <2>4. p \in Nat /\ p1 \in Nat /\ (p1 = p \/ p1 = p + 1)
    BY <2>2, <2>3
  <2>5. IsRead(ratio, m + 1) <=> p1 > p
    BY <2>1 DEF IsRead, previous_percent_op, p, p1
  <2>6. B = IF p1 > p THEN A \cup {m + 1} ELSE A
    <3>1. B = {k \in 0..(m + 1) : IsRead(ratio, k)} /\ A = {k \in 0..m : IsRead(ratio, k)}
      BY <2>1 DEF ReadsOf
    <3>2. 0..(m + 1) = (0..m) \cup {m + 1}
      BY <2>1
    <3> QED BY <2>5, <3>1, <3>2, Zenon
  <2>7. m + 1 \notin A
    BY <2>1 DEF ReadsOf
  <2>8. IsFiniteSet(A) /\ Cardinality(A) = p + extra
    BY <1>2 DEF p
  <2> HIDE DEF A, B
  <2>9. IsFiniteSet(A \cup {m + 1}) /\ Cardinality(A \cup {m + 1}) = Cardinality(A) + 1
    BY <2>7, <2>8, FS_AddElement
  <2>10. IsFiniteSet(B) /\ Cardinality(B) = p1 + extra
    <3>1. CASE p1 = p
      <4>1. B = A
        BY <2>4, <2>6, <3>1
      <4> QED BY <2>8, <3>1, <4>1
    <3>2. CASE p1 = p + 1
      <4>1. B = A \cup {m + 1}
        BY <2>4, <2>6, <3>2
      <4>2. Cardinality(B) = (p + extra) + 1
        BY <2>8, <2>9, <4>1
      <4> QED BY <2>4, <2>9, <3>2, <4>1, <4>2
    <3> QED BY <2>4, <3>1, <3>2
  <2> QED BY <2>1, <2>10 DEF B, p1
<1>3. n \in Counted
  <2> HIDE DEF Counted
  <2>1. 0..n \subseteq Counted
    BY <1>1, <1>2, InductionUpTo
  <2> QED BY <2>1
<1> QED BY <1>3

\* A list of any length and any ratio has the reads asked for.
THEOREM ReadsAsAsked ==
  ASSUME NEW ratio \in 0..10, NEW ops \in Nat
  PROVE  ReadShare(ratio, ops)
<1> DEFINE reads == Cardinality(ReadsOf(ratio, ops))
<1>1. CASE ops = 0
  <2>1. ReadsOf(ratio, ops) = {}
    BY <1>1 DEF ReadsOf
  <2>2. reads = 0 /\ ratio * ops = 0
    BY <1>1, <2>1, FS_EmptySet, Z3
  <2> QED BY <1>1, <2>2 DEF ReadShare, ReadsOf
<1>2. CASE ops # 0
  <2> DEFINE n == ops - 1  x == ratio * n
  <2>1. n \in Nat /\ n + 1 = ops
    BY <1>2
  <2>2. x \in Nat /\ ratio * ops = x + ratio
    BY <2>1, Z3
  <2>3. reads = (x \div 10) + (IF ratio >= 5 THEN 1 ELSE 0)
    BY <2>1, ReadsCounted DEF percent_op
  <2>4. ratio = 10 => x = 10 * n
    BY <2>1
  <2>5. ratio = 0 => x = 0
    BY <2>1
  <2> HIDE DEF reads, x, n
  <2>6. (10 * reads) - (x + ratio) \in -13..5
    BY <2>2, <2>3
  <2>7. ratio = 10 => reads = ops
    BY <2>1, <2>3, <2>4
  <2>8. ratio = 0 => reads = 0
    BY <2>3, <2>5
  <2> QED BY <2>2, <2>6, <2>7, <2>8 DEF ReadShare, reads, ReadsOf
<1> QED BY <1>1, <1>2

-----------------------------------------------------------------------------
(* The reader behind a writer.  What the reader has read and what it takes   *)
(* for ready add up to no more than what the writer has reported, although   *)
(* the account of a short write is put right only by the next message.       *)

RawMessage == [loc : Int, len : Int]
RawReader == [seq : Nat, prev_loc : Int, prev_len : Int, data_ready : Int, ops : Nat]

\* The bytes a reader has accounted for: those it has read and those ready.
Accounted(r, iosize) == (r.ops * iosize) + r.data_ready

\* One message of a reader that has not read everything.
Told(r, m, iosize, total) ==
  IF r.ops = total THEN r ELSE ReadOn(Received(r, m), iosize, total)

LEMMA ReceivedFields ==
  ASSUME NEW r \in RawReader, NEW m \in RawMessage, r.seq > 0 => m.loc > r.prev_loc
  PROVE  LET z == Received(r, m)
             from == IF r.seq = 0 THEN m.loc ELSE r.prev_loc + r.prev_len
             length == (m.loc + m.len) - from
         IN  /\ z \in RawReader
             /\ z.seq = r.seq + 1 /\ z.prev_loc = m.loc /\ z.prev_len = length
             /\ z.data_ready = r.data_ready + length /\ z.ops = r.ops
<1> DEFINE from == IF r.seq = 0 THEN m.loc ELSE r.prev_loc + r.prev_len
           length == (m.loc + m.len) - from
<1>1. /\ r.seq \in Nat /\ r.prev_loc \in Int /\ r.prev_len \in Int
      /\ r.data_ready \in Int /\ r.ops \in Nat
  BY DEF RawReader
<1>2. m.loc \in Int /\ m.len \in Int
  BY DEF RawMessage
<1>3. length \in Int /\ r.seq + 1 \in Nat /\ r.data_ready + length \in Int
  BY <1>1, <1>2
<1>4. ~(r.seq > 0 /\ m.loc <= r.prev_loc)
  BY <1>1, <1>2
<1>5. Received(r, m) = [r EXCEPT !.seq = @ + 1, !.prev_loc = m.loc, !.prev_len = length,
                                 !.data_ready = @ + length]
  BY <1>4, Zenon DEF Received
<1> HIDE DEF length
<1>6. /\ Received(r, m) \in RawReader
      /\ Received(r, m).seq = r.seq + 1 /\ Received(r, m).prev_loc = m.loc
      /\ Received(r, m).prev_len = length
      /\ Received(r, m).data_ready = r.data_ready + length /\ Received(r, m).ops = r.ops
  BY <1>2, <1>3, <1>5 DEF RawReader
<1> QED BY <1>6 DEF length

\* Reading moves bytes from those ready to those read, whole requests of them.
LEMMA ReadOnFields ==
  ASSUME NEW z \in RawReader, NEW iosize \in Nat \ {0}, NEW total \in Nat, z.ops <= total
  PROVE  LET y == ReadOn(z, iosize, total)
             n == Least(IF z.data_ready > 0 THEN z.data_ready \div iosize ELSE 0, total - z.ops)
         IN  /\ y \in RawReader /\ n \in Nat
             /\ y.seq = z.seq /\ y.prev_loc = z.prev_loc /\ y.prev_len = z.prev_len
             /\ y.ops = z.ops + n /\ y.ops <= total /\ y.data_ready = z.data_ready - n * iosize
             /\ Accounted(y, iosize) = Accounted(z, iosize)
             /\ n > 0 => y.data_ready >= 0
<1> DEFINE ready == IF z.data_ready > 0 THEN z.data_ready \div iosize ELSE 0
           n == Least(ready, total - z.ops)
           y == ReadOn(z, iosize, total)
<1>1. z.data_ready \in Int /\ z.ops \in Nat
  BY DEF RawReader
<1>2. ready \in Nat /\ (ready > 0 => ready * iosize <= z.data_ready) /\ ready * iosize \in Nat
  <2>1. CASE z.data_ready > 0
    <3>0. z.data_ready \in Nat
      BY <1>1, <2>1
    <3>1. /\ z.data_ready \div iosize \in Nat /\ z.data_ready % iosize \in 0..iosize - 1
          /\ z.data_ready = ((z.data_ready \div iosize) * iosize) + (z.data_ready % iosize)
      BY <3>0, Divided
    <3>2. (z.data_ready \div iosize) * iosize \in Nat
      BY <3>1, Z3
    <3> QED BY <1>1, <2>1, <3>1, <3>2
  <2>2. CASE ~(z.data_ready > 0)
    BY <2>2
  <2> QED BY <2>1, <2>2
<1> HIDE DEF ready
<1>3. n \in Nat /\ n <= ready /\ z.ops + n <= total
  BY <1>1, <1>2 DEF Least
<1> HIDE DEF n
<1>4. y = [z EXCEPT !.ops = @ + n, !.data_ready = @ - n * iosize]
  BY DEF ReadOn, n, ready
<1> HIDE DEF y
<1>5. n * iosize \in Nat /\ n * iosize <= ready * iosize
  BY <1>2, <1>3, Z3
<1>6. /\ y \in RawReader
      /\ y.seq = z.seq /\ y.prev_loc = z.prev_loc /\ y.prev_len = z.prev_len
      /\ y.ops = z.ops + n /\ y.data_ready = z.data_ready - n * iosize
  <2>1. z.ops + n \in Nat /\ z.data_ready - n * iosize \in Int
    BY <1>1, <1>3, <1>5
  <2> QED BY <1>4, <2>1 DEF RawReader
<1>7. (z.ops + n) * iosize = (z.ops * iosize) + (n * iosize) /\ z.ops * iosize \in Nat
  BY <1>1, <1>3, Z3
<1>8. Accounted(y, iosize) = Accounted(z, iosize)
  BY <1>1, <1>5, <1>6, <1>7 DEF Accounted
<1>9. n > 0 => y.data_ready >= 0
  BY <1>1, <1>2, <1>3, <1>5, <1>6
<1> QED BY <1>3, <1>6, <1>8, <1>9 DEF n, y, ready

\* The reader goes through its messages one by one.
LEMMA ReaderSteps ==
  ASSUME NEW ms \in Seq(RawMessage), NEW iosize \in Nat \ {0}, NEW total \in Nat
  PROVE  LET r == ReaderStates(ms, iosize, total)
         IN  /\ r[0] = ReaderInit
             /\ \A i \in 1..Len(ms) : r[i] = Told(r[i - 1], ms[i], iosize, total)
<1> DEFINE n == Len(ms)
           Some == {x \in RawReader : x.ops <= total}
           next == [p \in Some \X (1..n) |-> Told(p[1], ms[p[2]], iosize, total)]
           Loop(f) == f = [i \in 0..n |-> IF i = 0 THEN ReaderInit
                                          ELSE Told(f[i - 1], ms[i], iosize, total)]
           r == ReaderStates(ms, iosize, total)
<1>1. n \in Nat
  OBVIOUS
<1>2. ReaderInit \in Some
  BY DEF ReaderInit, RawReader
<1>3. next \in [Some \X (1..n) -> Some]
  <2>1. ASSUME NEW x \in Some, NEW i \in 1..n PROVE Told(x, ms[i], iosize, total) \in Some
    <3> DEFINE m == ms[i]
    <3>1. m \in RawMessage
      OBVIOUS
    <3> HIDE DEF m
    <3>2. Received(x, m) \in Some
      <4>1. CASE x.seq > 0 /\ m.loc <= x.prev_loc
        <5>1. Received(x, m) = x
          BY <4>1, Zenon DEF Received
        <5> QED BY <5>1
      <4>2. CASE ~(x.seq > 0 /\ m.loc <= x.prev_loc)
        <5>1. x.seq > 0 => m.loc > x.prev_loc
          <6>1. m.loc \in Int /\ x.prev_loc \in Int
            BY <3>1 DEF RawMessage, RawReader
          <6> QED BY <4>2, <6>1
        <5> QED BY <3>1, <5>1, ReceivedFields
      <4> QED BY <4>1, <4>2
    <3>3. ReadOn(Received(x, m), iosize, total) \in Some
      BY <3>2, ReadOnFields
    <3> QED BY <3>3 DEF Told, m
  <2> HIDE DEF Some, n
  <2> QED BY <2>1
<1> HIDE DEF n, Some
<1>4. PICK f : Carries(f, n, Some, ReaderInit, next)
  <2> HIDE DEF next
  <2> QED BY <1>1, <1>2, <1>3, Iterates, Zenon
<1>5. \A i \in 0..n : f[i] = IF i = 0 THEN ReaderInit ELSE Told(f[i - 1], ms[i], iosize, total)
  <2> SUFFICES ASSUME NEW i \in 1..n PROVE f[i] = Told(f[i - 1], ms[i], iosize, total)
    BY <1>1, <1>4 DEF Carries
  <2>1. f[i - 1] \in Some
    BY <1>1, <1>4 DEF Carries
  <2> QED BY <1>4, <2>1 DEF Carries
<1>6. Loop(f)
  <2>1. f = [i \in 0..n |-> f[i]]
    BY <1>4 DEF Carries
  <2> QED BY <1>5, <2>1
<1>7. r = CHOOSE g : Loop(g)
  BY DEF ReaderStates, n, Told
<1>8. Loop(r)
  <2> HIDE DEF Loop, r
  <2> QED BY <1>6, <1>7
<1>9. r[0] = ReaderInit /\ \A i \in 1..n : r[i] = Told(r[i - 1], ms[i], iosize, total)
  <2> HIDE DEF r
  <2>1. \A i \in 0..n : r[i] = IF i = 0 THEN ReaderInit ELSE Told(r[i - 1], ms[i], iosize, total)
    BY <1>8
  <2> QED BY <1>1, <2>1
<1> QED BY <1>9 DEF n

\* The first n messages of a writer.
LEMMA FirstMessages ==
  ASSUME NEW iosize \in Nat \ {0}, NEW lens \in Seq(0..iosize), NEW n \in 1..Len(lens)
  PROVE  LET ms == SubSeq(WriterMessages(lens, iosize), 1, n)
         IN  /\ ms \in Seq(RawMessage) /\ Len(ms) = n
             /\ \A i \in 1..n : ms[i] = [loc |-> (i - 1) * iosize, len |-> lens[i]]
<1> DEFINE all == WriterMessages(lens, iosize)
           message(i) == [loc |-> (i - 1) * iosize, len |-> lens[i]]
<1>1. Len(lens) \in Nat /\ n \in Nat
  OBVIOUS
<1>2. \A i \in 1..Len(lens) : message(i) \in RawMessage
  <2> SUFFICES ASSUME NEW i \in 1..Len(lens) PROVE message(i) \in RawMessage
    OBVIOUS
  <2>1. i - 1 \in Nat /\ lens[i] \in Int
    OBVIOUS
  <2>2. (i - 1) * iosize \in Int
    BY <2>1, Z3
  <2> QED BY <2>1, <2>2 DEF RawMessage
<1>3. all = [i \in 1..Len(lens) |-> message(i)]
  BY DEF WriterMessages
<1> HIDE DEF message
<1>4. all \in Seq(RawMessage) /\ Len(all) = Len(lens)
  BY <1>1, <1>2, <1>3
<1>5. \A i \in 1..n : all[i] = message(i)
  BY <1>1, <1>3
<1> HIDE DEF all
<1>6. /\ SubSeq(all, 1, n) \in Seq(RawMessage) /\ Len(SubSeq(all, 1, n)) = n
      /\ \A i \in 1..n : SubSeq(all, 1, n)[i] = all[i]
  BY <1>1, <1>4
<1> QED BY <1>5, <1>6 DEF all, message

\* The reader has taken note of i messages, at 0, iosize and so on.
Noted(r, i, iosize) ==
  /\ r.seq = i
  /\ IF i = 0 THEN r.prev_loc = 0 /\ r.prev_len = 0 ELSE r.prev_loc = (i - 1) * iosize

\* After i messages of which the last one ends at e: the reader has read no
\* further, and as long as it listens, what it has accounted for ends neither
\* beyond e nor beyond the place from which it will count the next one.
Behind(r, i, e, iosize, total) ==
  /\ r \in RawReader /\ r.ops <= total /\ r.ops * iosize <= e
  /\ r.ops # total =>
       /\ Noted(r, i, iosize)
       /\ Accounted(r, iosize) <= e
       /\ Accounted(r, iosize) <= r.prev_loc + r.prev_len

\* The reader after a message it listens to, before it reads on.
LEMMA NextMessage ==
  ASSUME NEW r \in RawReader, NEW iosize \in Nat \ {0}, NEW i \in Nat, NEW l \in Int,
         Noted(r, i, iosize)
  PROVE  LET z == Received(r, [loc |-> i * iosize, len |-> l])
             length == ((i * iosize) + l) - (r.prev_loc + r.prev_len)
         IN  /\ z \in RawReader /\ i * iosize \in Nat
             /\ z.seq = i + 1 /\ z.prev_loc = i * iosize /\ z.prev_len = length
             /\ z.data_ready = r.data_ready + length /\ z.ops = r.ops
<1> DEFINE m == [loc |-> i * iosize, len |-> l]
           from == IF r.seq = 0 THEN m.loc ELSE r.prev_loc + r.prev_len
           length == (m.loc + m.len) - from
           z == Received(r, m)
<1>1. /\ r.seq \in Nat /\ r.prev_loc \in Int /\ r.prev_len \in Int /\ r.seq = i
      /\ IF i = 0 THEN r.prev_loc = 0 /\ r.prev_len = 0 ELSE r.prev_loc = (i - 1) * iosize
  BY DEF RawReader, Noted
<1>2. i * iosize \in Nat
  BY Z3
<1>3. m \in RawMessage /\ m.loc = i * iosize /\ m.len = l
  BY <1>2 DEF RawMessage
<1>4. r.seq > 0 => m.loc > r.prev_loc
  <2> SUFFICES ASSUME i > 0 PROVE i * iosize > (i - 1) * iosize
    BY <1>1, <1>3
  <2>1. i - 1 \in Nat /\ i - 1 < i
    OBVIOUS
  <2>2. ((i - 1) * iosize) + iosize <= i * iosize /\ (i - 1) * iosize \in Nat
    BY <2>1, OneMore
  <2> QED BY <1>2, <2>2
<1>5. from = r.prev_loc + r.prev_len
  <2>1. CASE i = 0
    <3>1. i * iosize = 0
      BY <2>1
    <3> QED BY <1>1, <1>3, <2>1, <3>1
  <2>2. CASE i # 0
    BY <1>1, <2>2
  <2> QED BY <2>1, <2>2
<1> HIDE DEF m
<1>6. /\ z \in RawReader
      /\ z.seq = r.seq + 1 /\ z.prev_loc = m.loc /\ z.prev_len = length
      /\ z.data_ready = r.data_ready + length /\ z.ops = r.ops
  BY <1>3, <1>4, ReceivedFields
<1>7. length = ((i * iosize) + l) - (r.prev_loc + r.prev_len)
  BY <1>3, <1>5
<1> HIDE DEF length
<1> QED BY <1>1, <1>2, <1>3, <1>6, <1>7 DEF m

LEMMA BehindStep ==
  ASSUME NEW iosize \in Nat \ {0}, NEW total \in Nat, NEW i \in Nat, NEW l \in 0..iosize,
         NEW e \in Int, e <= i * iosize, NEW r, Behind(r, i, e, iosize, total)
  PROVE  Behind(Told(r, [loc |-> i * iosize, len |-> l], iosize, total), i + 1,
                (i * iosize) + l, iosize, total)
<1> DEFINE m == [loc |-> i * iosize, len |-> l]
           end == (i * iosize) + l
           z == Received(r, m)
           y == ReadOn(z, iosize, total)
<1>1. i * iosize \in Nat
  BY Z3
<1>2. /\ r \in RawReader /\ r.ops <= total /\ r.ops * iosize <= e
      /\ r.seq \in Nat /\ r.prev_loc \in Int /\ r.prev_len \in Int
      /\ r.data_ready \in Int /\ r.ops \in Nat
  BY DEF Behind, RawReader
<1>3. r.ops * iosize \in Nat /\ r.ops * iosize <= end
  <2>1. r.ops * iosize \in Nat
    BY <1>2, Z3
  <2> QED BY <1>1, <1>2, <2>1
<1>4. CASE r.ops = total
  <2>1. Told(r, m, iosize, total) = r
    BY <1>4 DEF Told
  <2> HIDE DEF end, m
  <2>2. Behind(r, i + 1, end, iosize, total)
    BY <1>2, <1>3, <1>4 DEF Behind
  <2> QED BY <2>1, <2>2 DEF end, m
<1>5. CASE r.ops # total
  <2>1. /\ Noted(r, i, iosize)
        /\ Accounted(r, iosize) <= e
        /\ Accounted(r, iosize) <= r.prev_loc + r.prev_len
    BY <1>5 DEF Behind
  <2>2. Accounted(r, iosize) = (r.ops * iosize) + r.data_ready
    BY DEF Accounted
  <2> DEFINE length == end - (r.prev_loc + r.prev_len)
  <2>3. /\ z \in RawReader /\ z.seq = i + 1 /\ z.prev_loc = i * iosize /\ z.prev_len = length
        /\ z.data_ready = r.data_ready + length /\ z.ops = r.ops
    <3>1. l \in Int
      OBVIOUS
    <3>2. r \in RawReader /\ Noted(r, i, iosize) /\ iosize \in Nat \ {0} /\ i \in Nat
      BY <1>2, <2>1
    <3> QED BY ONLY <3>1, <3>2, NextMessage
  <2>4. length \in Int /\ end \in Int
    BY <1>1, <1>2
  <2>5. Accounted(z, iosize) = Accounted(r, iosize) + length
    <3> HIDE DEF length, z
    <3>1. Accounted(z, iosize) = (r.ops * iosize) + (r.data_ready + length)
      BY <2>3 DEF Accounted
    <3> QED BY <1>2, <1>3, <2>2, <2>4, <3>1
  <2> DEFINE n == Least(IF z.data_ready > 0 THEN z.data_ready \div iosize ELSE 0, total - z.ops)
  <2>6. /\ y \in RawReader /\ n \in Nat
        /\ y.seq = z.seq /\ y.prev_loc = z.prev_loc /\ y.prev_len = z.prev_len
        /\ y.ops = z.ops + n /\ y.ops <= total
        /\ Accounted(y, iosize) = Accounted(z, iosize)
        /\ n > 0 => y.data_ready >= 0
    <3> HIDE DEF z
    <3>1. z.ops <= total
      BY <1>2, <2>3
    <3> QED BY <2>3, <3>1, ReadOnFields
  <2>7. y.ops \in Nat /\ y.data_ready \in Int
    BY <2>6 DEF RawReader
  <2>8. y.ops * iosize \in Nat /\ Accounted(y, iosize) = (y.ops * iosize) + y.data_ready
    BY <2>7, Z3 DEF Accounted
  <2> HIDE DEF n, y, z
  <2>9. Accounted(y, iosize) = Accounted(r, iosize) + length
    BY <2>5, <2>6
  <2>10. Accounted(r, iosize) \in Int
    BY <1>2, <1>3, <2>2
  <2>11. /\ Accounted(y, iosize) <= end
         /\ Accounted(y, iosize) <= y.prev_loc + y.prev_len
    <3>1. y.prev_loc = i * iosize /\ y.prev_len = length
      BY <2>3, <2>6
    <3>2. Accounted(y, iosize) = Accounted(r, iosize) + (end - (r.prev_loc + r.prev_len))
      BY <2>9
    <3>3. Accounted(r, iosize) <= i * iosize
      BY <1>1, <2>1, <2>10
    <3> HIDE DEF end
    <3> QED BY <1>1, <1>2, <2>1, <2>4, <2>10, <3>1, <3>2, <3>3
  <2>12. y.ops * iosize <= end
    <3>1. CASE n = 0
      <4>1. y.ops = r.ops
        BY <1>2, <2>3, <2>6, <3>1
      <4> QED BY <1>3, <4>1
    <3>2. CASE n # 0
      <4>1. y.data_ready >= 0
        BY <2>6, <3>2
      <4> HIDE DEF end
      <4> QED BY <2>4, <2>7, <2>8, <2>11, <4>1
    <3> QED BY <3>1, <3>2
  <2>13. Noted(y, i + 1, iosize)
    <3>1. (i + 1) - 1 = i /\ i + 1 # 0
      OBVIOUS
    <3> QED BY <2>3, <2>6, <3>1 DEF Noted
  <2>14. Told(r, m, iosize, total) = y
    BY <1>5 DEF Told, y, z
  <2> HIDE DEF end, m
  <2>15. Behind(y, i + 1, end, iosize, total)
    BY <2>6, <2>11, <2>12, <2>13 DEF Behind
  <2> QED BY <2>14, <2>15 DEF end, m
<1> QED BY <1>4, <1>5

\* A reader of any writer whose writes are at most iosize bytes long: after each
\* message, it has read nothing beyond the end of the last write it was told of.
THEOREM ReaderStaysBehind ==
  ASSUME NEW iosize \in Nat \ {0}, NEW lens \in Seq(0..iosize)
  PROVE  ReaderBehind(lens, iosize)
<1> SUFFICES ASSUME NEW n \in 1..Len(lens)
             PROVE  LET ms == SubSeq(WriterMessages(lens, iosize), 1, n)
                    IN  ReaderAfter(ms, iosize, Len(lens)).ops * iosize <= ms[n].loc + ms[n].len
  BY DEF ReaderBehind
<1> DEFINE ms == SubSeq(WriterMessages(lens, iosize), 1, n)
           total == Len(lens)
           r == ReaderStates(ms, iosize, total)
           end(i) == IF i = 0 THEN 0 ELSE ((i - 1) * iosize) + lens[i]
           Good == {i \in 0..n : Behind(r[i], i, end(i), iosize, total)}
<1>1. total \in Nat /\ n \in Nat /\ n <= total
  OBVIOUS
<1>2. /\ ms \in Seq(RawMessage) /\ Len(ms) = n
      /\ \A i \in 1..n : ms[i] = [loc |-> (i - 1) * iosize, len |-> lens[i]]
  BY FirstMessages
<1> HIDE DEF ms
<1>3. /\ r[0] = ReaderInit
      /\ \A i \in 1..n : r[i] = Told(r[i - 1], ms[i], iosize, total)
  BY <1>1, <1>2, ReaderSteps
<1>4. \A i \in 1..n : lens[i] \in 0..iosize
  BY <1>1
<1> HIDE DEF total, r
<1>5. 0 \in Good
  <2>1. /\ ReaderInit \in RawReader /\ ReaderInit.ops = 0 /\ ReaderInit.seq = 0
        /\ ReaderInit.prev_loc = 0 /\ ReaderInit.prev_len = 0 /\ ReaderInit.data_ready = 0
    BY DEF ReaderInit, RawReader
  <2>2. 0 * iosize = 0 /\ Accounted(ReaderInit, iosize) = 0
    BY <2>1 DEF Accounted
  <2>3. Behind(ReaderInit, 0, 0, iosize, total)
    BY <1>1, <2>1, <2>2 DEF Behind, Noted
  <2> QED BY <1>1, <1>3, <2>3
<1>6. ASSUME NEW k \in 0..n - 1, k \in Good PROVE k + 1 \in Good
  <2>1. k \in Nat /\ k + 1 \in 1..n /\ (k + 1) - 1 = k /\ k + 1 \in 0..n /\ k + 1 # 0
    BY <1>1
  <2>2. Behind(r[k], k, end(k), iosize, total)
    BY <1>6
  <2>3. end(k) \in Int /\ end(k) <= k * iosize
    <3>1. CASE k = 0
      BY <3>1
    <3>2. CASE k # 0
      <4>1. k - 1 \in Nat /\ k - 1 < k /\ k \in 1..n
        BY <2>1, <3>2
      <4>2. /\ ((k - 1) * iosize) + iosize <= k * iosize
            /\ (k - 1) * iosize \in Nat /\ k * iosize \in Nat
        BY <2>1, <4>1, OneMore
      <4>3. lens[k] \in 0..iosize
        BY <1>4, <4>1
      <4> QED BY <3>2, <4>2, <4>3
    <3> QED BY <3>1, <3>2
  <2>4. lens[k + 1] \in 0..iosize
    BY <1>4, <2>1
  <2>5. r[k + 1] = Told(r[k], [loc |-> k * iosize, len |-> lens[k + 1]], iosize, total)
    BY <1>2, <1>3, <2>1, Zenon
  <2>6. end(k + 1) = (k * iosize) + lens[k + 1]
    BY <2>1
  <2> HIDE DEF end
  <2>7. Behind(r[k + 1], k + 1, (k * iosize) + lens[k + 1], iosize, total)
    BY <1>1, <2>1, <2>2, <2>3, <2>4, <2>5, BehindStep
  <2> QED BY <2>1, <2>6, <2>7
<1>7. n \in Good
  <2> HIDE DEF Good
  <2>1. 0..n \subseteq Good
    BY <1>1, <1>5, <1>6, InductionUpTo
  <2> QED BY <1>1, <2>1
<1>8. r[n].ops * iosize <= end(n)
  <2> HIDE DEF end
  <2> QED BY <1>7 DEF Behind
<1>9. ms[n].loc + ms[n].len = end(n)
  <2>1. n \in 1..n /\ n # 0
    OBVIOUS
  <2>2. ms[n] = [loc |-> (n - 1) * iosize, len |-> lens[n]]
    BY <1>2, <2>1
  <2> QED BY <2>1, <2>2
<1>10. ReaderAfter(ms, iosize, total) = r[n]
  BY <1>2 DEF ReaderAfter, r
<1> HIDE DEF end
<1> QED BY <1>8, <1>9, <1>10 DEF ms, total

\* A reader that has kept up with i whole writes.
Level(r, i, iosize) ==
  /\ r \in RawReader /\ Noted(r, i, iosize) /\ r.ops = i /\ r.data_ready = 0
  /\ r.prev_loc + r.prev_len = i * iosize

LEMMA LevelStep ==
  ASSUME NEW iosize \in Nat \ {0}, NEW total \in Nat, NEW i \in Nat, i < total,
         NEW r, Level(r, i, iosize)
  PROVE  Level(Told(r, [loc |-> i * iosize, len |-> iosize], iosize, total), i + 1, iosize)
<1> DEFINE z == Received(r, [loc |-> i * iosize, len |-> iosize])
           y == ReadOn(z, iosize, total)
           length == ((i * iosize) + iosize) - (r.prev_loc + r.prev_len)
           n == Least(IF z.data_ready > 0 THEN z.data_ready \div iosize ELSE 0, total - z.ops)
<1>1. /\ r \in RawReader /\ Noted(r, i, iosize) /\ r.ops = i /\ r.data_ready = 0
      /\ r.prev_loc + r.prev_len = i * iosize
  BY DEF Level
<1>2. /\ z \in RawReader /\ i * iosize \in Nat
      /\ z.seq = i + 1 /\ z.prev_loc = i * iosize /\ z.prev_len = length
      /\ z.data_ready = r.data_ready + length /\ z.ops = r.ops
  <2>1. iosize \in Int
    OBVIOUS
  <2> QED BY <1>1, <2>1, NextMessage
<1>3. length = iosize
  BY <1>1, <1>2
<1> HIDE DEF z, length
<1>4. z.data_ready = iosize /\ z.ops = i
  BY <1>1, <1>2, <1>3
<1>5. n = 1
  <2>1. iosize \div iosize = 1
    BY Z3
  <2> QED BY <1>4, <2>1 DEF Least
<1> HIDE DEF n
<1>6. /\ y \in RawReader
      /\ y.seq = z.seq /\ y.prev_loc = z.prev_loc /\ y.prev_len = z.prev_len
      /\ y.ops = z.ops + n /\ y.data_ready = z.data_ready - n * iosize
  <2>1. z.ops <= total
    BY <1>4
  <2> QED BY <1>2, <2>1, ReadOnFields DEF n
<1> HIDE DEF y
<1>7. y.ops = i + 1 /\ y.data_ready = 0 /\ y.seq = i + 1
  BY <1>2, <1>4, <1>5, <1>6
<1>8. /\ y.prev_loc = i * iosize /\ y.prev_len = iosize
      /\ (i + 1) - 1 = i /\ i + 1 # 0 /\ (i + 1) * iosize = (i * iosize) + iosize
  BY <1>2, <1>3, <1>6
<1>9. Told(r, [loc |-> i * iosize, len |-> iosize], iosize, total) = y
  <2>1. r.ops # total
    BY <1>1
  <2> QED BY <2>1 DEF Told, y, z
<1>10. Level(y, i + 1, iosize)
  BY <1>6, <1>7, <1>8 DEF Level, Noted
<1> QED BY <1>9, <1>10

\* A reader of a writer that makes no short write has read, after each message,
\* all that was written.
THEOREM ReaderKeepsPace ==
  ASSUME NEW iosize \in Nat \ {0}, NEW lens \in Seq(0..iosize)
  PROVE  ReaderKeepsUp(lens, iosize)
<1> SUFFICES ASSUME \A k \in 1..Len(lens) : lens[k] = iosize, NEW n \in 1..Len(lens)
             PROVE  LET ms == SubSeq(WriterMessages(lens, iosize), 1, n)
                    IN  ReaderAfter(ms, iosize, Len(lens)).ops = n
  BY DEF ReaderKeepsUp
<1> DEFINE ms == SubSeq(WriterMessages(lens, iosize), 1, n)
           total == Len(lens)
           r == ReaderStates(ms, iosize, total)
           Good == {i \in 0..n : Level(r[i], i, iosize)}
<1>1. total \in Nat /\ n \in Nat /\ n <= total
  OBVIOUS
<1>2. /\ ms \in Seq(RawMessage) /\ Len(ms) = n
      /\ \A i \in 1..n : ms[i] = [loc |-> (i - 1) * iosize, len |-> lens[i]]
  BY FirstMessages
<1> HIDE DEF ms
<1>3. /\ r[0] = ReaderInit
      /\ \A i \in 1..n : r[i] = Told(r[i - 1], ms[i], iosize, total)
  BY <1>1, <1>2, ReaderSteps
<1>4. \A i \in 1..n : lens[i] = iosize
  BY <1>1
<1> HIDE DEF total, r
<1>5. 0 \in Good
  <2>1. Level(ReaderInit, 0, iosize)
    BY DEF Level, Noted, ReaderInit, RawReader
  <2> QED BY <1>1, <1>3, <2>1
<1>6. ASSUME NEW k \in 0..n - 1, k \in Good PROVE k + 1 \in Good
  <2>1. k \in Nat /\ k + 1 \in 1..n /\ (k + 1) - 1 = k /\ k + 1 \in 0..n /\ k < total
    BY <1>1
  <2>2. Level(r[k], k, iosize)
    BY <1>6
  <2>3. r[k + 1] = Told(r[k], [loc |-> k * iosize, len |-> iosize], iosize, total)
    BY <1>2, <1>3, <1>4, <2>1, Zenon
  <2>4. Level(r[k + 1], k + 1, iosize)
    BY <1>1, <2>1, <2>2, <2>3, LevelStep
  <2> QED BY <2>1, <2>4
<1>7. n \in Good
  <2> HIDE DEF Good
  <2>1. 0..n \subseteq Good
    BY <1>1, <1>5, <1>6, InductionUpTo
  <2> QED BY <1>1, <2>1
<1>8. r[n].ops = n
  BY <1>7 DEF Level
<1>9. ReaderAfter(ms, iosize, total) = r[n]
  BY <1>2 DEF ReaderAfter, r
<1> QED BY <1>8, <1>9 DEF ms, total

-----------------------------------------------------------------------------
(* The invariants of the model of these algorithms, from the theorems about  *)
(* any input and from what the inputs are.                                   *)

\* The powers of two by their exponents.
LEMMA Doubled ==
  /\ 2^0 = 1 /\ \A k \in 0..29 : 2^(k + 1) = 2 * 2^k
  /\ \A k \in 0..30 : 2^k \in Nat
  BY SMT

LEMMA Exponents ==
  /\ 2^0 = 1 /\ 2^1 = 2 /\ 2^2 = 4 /\ 2^3 = 8 /\ 2^4 = 16 /\ 2^5 = 32 /\ 2^6 = 64
  /\ 2^7 = 128 /\ 2^8 = 256 /\ 2^9 = 512 /\ 2^10 = 1024 /\ 2^11 = 2048 /\ 2^12 = 4096
  /\ 2^13 = 8192 /\ 2^14 = 16384 /\ 2^15 = 32768 /\ 2^16 = 65536 /\ 2^17 = 131072
  /\ 2^18 = 262144 /\ 2^19 = 524288 /\ 2^20 = 1048576 /\ 2^21 = 2097152
  /\ 2^22 = 4194304 /\ 2^23 = 8388608 /\ 2^24 = 16777216 /\ 2^25 = 33554432
  /\ 2^26 = 67108864 /\ 2^27 = 134217728 /\ 2^28 = 268435456 /\ 2^29 = 536870912
  /\ 2^30 = 1073741824
  BY SMT

\* The largest number of 32 bits with a sign.
MaxInt == 2147483647

LEMMA PowerHasExponent ==
  ASSUME NEW r \in Powers32, r <= MaxInt
  PROVE  \E k \in 0..30 : r = 2^k
<1>1. CASE r \in Powers8
  <2>1. \/ r = 2^0 \/ r = 2^1 \/ r = 2^2 \/ r = 2^3 \/ r = 2^4 \/ r = 2^5 \/ r = 2^6 \/ r = 2^7
    BY <1>1, Exponents, SMT DEF Powers2, Powers4, Powers8
  <2> QED BY <2>1
<1>2. CASE r \in Powers16 \ Powers8
  <2>1. \/ r = 2^8 \/ r = 2^9 \/ r = 2^10 \/ r = 2^11
        \/ r = 2^12 \/ r = 2^13 \/ r = 2^14 \/ r = 2^15
    BY <1>2, Exponents, SMT DEF Powers16
  <2> QED BY <2>1
<1>3. CASE r \in Powers32 \ Powers16
  <2>1. \/ r = 65536 \/ r = 131072 \/ r = 262144 \/ r = 524288 \/ r = 1048576
        \/ r = 2097152 \/ r = 4194304 \/ r = 8388608 \/ r = 16777216 \/ r = 33554432
        \/ r = 67108864 \/ r = 134217728 \/ r = 268435456 \/ r = 536870912 \/ r = 1073741824
    BY <1>3, SMT DEF Powers32, MaxInt
  <2>2. \/ r = 2^16 \/ r = 2^17 \/ r = 2^18 \/ r = 2^19 \/ r = 2^20 \/ r = 2^21 \/ r = 2^22
        \/ r = 2^23 \/ r = 2^24 \/ r = 2^25 \/ r = 2^26 \/ r = 2^27 \/ r = 2^28 \/ r = 2^29
        \/ r = 2^30
    BY <2>1, Exponents, SMT
  <2> QED BY <2>2
<1> QED BY <1>1, <1>2, <1>3

\* What the inputs of these algorithms are.
AsDescribed(x) ==
  /\ x.kind = "plan" => x.n \in Nat /\ x.d \in Nat \ {0} /\ x.req \in Nat \ {0}
  /\ x.kind = "bytes" => x.bytes \in Nat \ {0} /\ x.iosize \in Nat \ {0} /\ x.d \in Nat \ {0}
  /\ x.kind = "stagger" => x.range \in Nat /\ x.req \in Nat /\ x.ops \in Nat
  /\ x.kind = "mix" => x.ratio \in 0..10 /\ x.ops \in Nat
  /\ x.kind = "ring" => x.entries \in Nat /\ 0 < x.entries /\ x.entries <= MaxInt
  /\ x.kind = "clock" => /\ x.first \in [1..2 -> Bounces] /\ x.second \in [1..2 -> Bounces]
                         /\ x.offset \in Int
  /\ x.kind = "raw" => \E k \in 1..5 : x.lens \in [1..k -> 1..3]

\* The kinds of the other inputs, and of what is computed of them.
OtherKinds ==
  {"sar", "options", "file", "columns", "markup", "proc", "iostat", "samples", "reports"}

LEMMA OthersAsDescribed ==
  ASSUME NEW x, x.kind \in OtherKinds
  PROVE  AsDescribed(x)
  BY DEF AsDescribed, OtherKinds

LEMMA OptionKinds ==
  ASSUME NEW x \in OptionInputs
  PROVE  x.kind \in OtherKinds
<1>1. x \in OptionPairs => x.kind = "options"
  BY SMT DEF OptionPairs
<1>2. x \in OptionFiles => x.kind = "file"
  BY SMT DEF OptionFiles
<1>3. \A u : x \in SamePairs(u) => x.kind = "options"
  BY SMT DEF SamePairs
<1> QED BY <1>1, <1>2, <1>3 DEF OptionInputs, OtherKinds

LEMMA ReportKinds ==
  ASSUME NEW x \in ReportInputs
  PROVE  x.kind \in OtherKinds
<1>1. x.kind = "columns" \/ x.kind = "markup"
  BY Zenon DEF ReportInputs
<1> QED BY <1>1 DEF OtherKinds

LEMMA MachineKinds ==
  ASSUME NEW x \in MachineInputs
  PROVE  x.kind \in OtherKinds
<1>1. x.kind = "proc"
  BY SMT DEF MachineInputs
<1> QED BY <1>1 DEF OtherKinds

LEMMA IostatKinds ==
  ASSUME NEW x \in IostatInputs
  PROVE  x.kind \in OtherKinds
<1>1. x \in AskedInputs => x.kind = "iostat"
  BY SMT DEF AskedInputs, IoInput
<1>2. x \in GrowingInputs => x.kind = "iostat"
  BY SMT DEF GrowingInputs, IoInput
<1>3. x \in NamingInputs => x.kind = "iostat"
  BY SMT DEF NamingInputs, IoInput
<1>4. x \in MountInputs => x.kind = "iostat"
  BY SMT DEF MountInputs, IoInput
<1>5. x \in ArgumentInputs => x.kind = "iostat"
  BY SMT DEF ArgumentInputs, IoInput
<1> QED BY <1>1, <1>2, <1>3, <1>4, <1>5 DEF IostatInputs, OtherKinds

LEMMA InputsAsDescribed ==
  ASSUME NEW x \in Inputs
  PROVE  AsDescribed(x)
<1> DEFINE sizes == (1..300) \cup {33 * k : k \in 1..40}
                    \cup {4095, 4096, 65535, 65536, 70000, 1073741824, 2147483647}
           lengths == UNION {[1..k -> 1..3] : k \in 1..5}
           orders == UNION {[1..k -> {"stats", "restart", "comment"}] : k \in 0..6}
           clocks == [1..2 -> Bounces]
<1>1. \A e \in sizes : e \in Nat /\ 0 < e /\ e <= MaxInt
  <2>1. \A e \in 1..300 : e \in Nat /\ 0 < e /\ e <= MaxInt
    BY SMT DEF MaxInt
  <2>2. \A k \in 1..40 : 33 * k \in Nat /\ 0 < 33 * k /\ 33 * k <= MaxInt
    BY SMT DEF MaxInt
  <2>3. \A e \in {4095, 4096, 65535, 65536, 70000, 1073741824, 2147483647} :
           e \in Nat /\ 0 < e /\ e <= MaxInt
    BY SMT DEF MaxInt
  <2>4. \A e \in sizes : \/ e \in 1..300
                         \/ \E k \in 1..40 : e = 33 * k
                         \/ e \in {4095, 4096, 65535, 65536, 70000, 1073741824, 2147483647}
    BY SMT
  <2> HIDE DEF sizes
  <2> QED BY <2>1, <2>2, <2>3, <2>4, SMT
<1>2. \A l \in lengths : \E k \in 1..5 : l \in [1..k -> 1..3]
  BY Zenon
<1> HIDE DEF sizes, lengths, orders, clocks
<1>3. \/ x \in [kind : {"plan"}, n : 1..13, d : 1..6, req : 1..3]
      \/ x \in [kind : {"bytes"}, bytes : 1..20, iosize : 1..6, d : 1..4]
      \/ x \in [kind : {"stagger"}, range : {0, 7, 16, 40, 61}, req : 1..4, ops : 1..7]
      \/ x \in [kind : {"mix"}, ratio : 0..10, ops : 1..23]
      \/ x \in [kind : {"ring"}, entries : sizes]
      \/ x \in [kind : {"clock"}, first : clocks, second : clocks, offset : {-3, 5}]
      \/ x \in [kind : {"raw"}, lens : lengths]
      \/ x \in [kind : {"sar"}, count : {-1, 1, 2}, records : orders]
  BY SMT DEF Inputs, sizes, lengths, orders, clocks
<1>4. CASE x \in [kind : {"ring"}, entries : sizes]
  BY <1>1, <1>4 DEF AsDescribed
<1>5. CASE x \in [kind : {"raw"}, lens : lengths]
  BY <1>2, <1>5 DEF AsDescribed
<1>6. CASE x \in [kind : {"clock"}, first : clocks, second : clocks, offset : {-3, 5}]
  BY <1>6 DEF AsDescribed, clocks
<1>7. CASE x \in [kind : {"sar"}, count : {-1, 1, 2}, records : orders]
  BY <1>7 DEF AsDescribed
<1>8. CASE \/ x \in [kind : {"plan"}, n : 1..13, d : 1..6, req : 1..3]
           \/ x \in [kind : {"bytes"}, bytes : 1..20, iosize : 1..6, d : 1..4]
           \/ x \in [kind : {"stagger"}, range : {0, 7, 16, 40, 61}, req : 1..4, ops : 1..7]
           \/ x \in [kind : {"mix"}, ratio : 0..10, ops : 1..23]
  BY <1>8 DEF AsDescribed
<1> QED BY <1>3, <1>4, <1>5, <1>6, <1>7, <1>8

InputInv == AsDescribed(input)

\* What has been computed is of a kind of its own, so this is an invariant.
THEOREM InputDescribed == Spec => []InputInv
<1>1. Init => InputInv
  BY InputsAsDescribed, OptionKinds, ReportKinds, MachineKinds, IostatKinds, OthersAsDescribed, Zenon
     DEF Init, InputInv
<1>2. InputInv /\ [Next]_input => InputInv'
  <2> SUFFICES ASSUME AsDescribed(input), [Next]_input PROVE AsDescribed(input')
    BY Zenon DEF InputInv
  <2>1. CASE TakeSamples
    <3>1. \E a, b, s, t, u : input' = [kind |-> "samples", first |-> a, second |-> b, s0 |-> s,
                                       s1 |-> t, s2 |-> u]
      BY <2>1, Zenon DEF TakeSamples
    <3> QED BY <3>1, OthersAsDescribed DEF OtherKinds
  <2>2. CASE RunIostat
    <3>1. \E o, m, r : input' = [kind |-> "reports", o |-> o, ms |-> m, reports |-> r]
      BY <2>2, Zenon DEF RunIostat
    <3> QED BY <3>1, OthersAsDescribed DEF OtherKinds
  <2>3. CASE input' = input
    BY <2>3, Zenon
  <2> QED BY <2>1, <2>2, <2>3, Zenon DEF Next
<1> QED BY <1>1, <1>2, PTL DEF Spec

\* A number of requests is dealt out without overlap or omission; of an amount of
\* data the whole requests are, and the rest of it is not moved, although parse.c:2824
\* and xdd.c:893 speak of a last small request; an amount of less than one request is
\* moved by every thread; and the seek list is what its options ask for
\* (parse.c:2821-2872, xdd.c:887-897, access_pattern.c:127): not only of the sizes of
\* the run, by the theorems above.
THEOREM PlanIsAsAsked == Spec => []PlanAsAsked
<1>1. InputInv => PlanAsAsked
  BY BlocksDealtOut, AmountDealtOut, StaggerStaysInRange, ReadsAsAsked
     DEF InputInv, AsDescribed, PlanAsAsked, WholeTargetMoved, SeekListAsAsked, Is
<1> QED BY <1>1, InputDescribed, PTL

\* ring.h rounds down to the power of two at or below (ring.h:17).
THEOREM RingIsRoundedDown == Spec => []RingRoundsDown
<1>1. InputInv => RingRoundsDown
  <2> SUFFICES ASSUME NEW x \in Nat, 0 < x, x <= MaxInt
               PROVE  \E k \in 0..30 : /\ RD32(x) = 2^k /\ 2^k <= x
                                       /\ k < 30 => x < 2^(k + 1)
    BY DEF InputInv, AsDescribed, RingRoundsDown, Is
  <2> DEFINE r == RD32(x)
  <2>1. r \in Powers32 /\ r <= x /\ x < 2 * r
    <3>1. x < 4294967296
      BY SMT DEF MaxInt
    <3> QED BY <3>1, RoundsDown, SMT DEF Rounded
  <2> HIDE DEF r
  <2>2. r <= MaxInt
    <3>1. r \in Nat
      BY <2>1, SMT DEF Powers2, Powers4, Powers8, Powers16, Powers32
    <3> QED BY <2>1, <3>1, SMT DEF MaxInt
  <2>3. PICK k \in 0..30 : r = 2^k
    BY <2>1, <2>2, PowerHasExponent
  <2>4. k < 30 => 2^(k + 1) = 2 * r
    <3> SUFFICES ASSUME k < 30 PROVE 2^(k + 1) = 2 * 2^k
      BY <2>3, Zenon
    <3>1. k \in 0..29
      OBVIOUS
    <3> QED BY <3>1, Doubled, Zenon
  <2>5. /\ RD32(x) = 2^k /\ 2^k <= x
        /\ k < 30 => x < 2^(k + 1)
    BY <2>1, <2>3, <2>4, Zenon DEF r
  <2> QED BY <2>5, Zenon
<1> QED BY <1>1, InputDescribed, PTL

\* A function on 1..n is a sequence.
LEMMA IsSequence ==
  ASSUME NEW S, NEW n \in Nat, NEW f \in [1..n -> S]
  PROVE  f \in Seq(S) /\ Len(f) = n
  OBVIOUS

\* The global start is met from above (global_time.c).
THEOREM ClockIsNotEarly == Spec => []ClockNotEarly
<1>1. InputInv => ClockNotEarly
  <2> SUFFICES ASSUME NEW first \in [1..2 -> Bounces], NEW second \in [1..2 -> Bounces],
                      NEW offset \in Int
               PROVE  StartsOnTime(first, second, offset, 100)
    BY Zenon DEF InputInv, AsDescribed, ClockNotEarly, Is
  <2>1. Bounces \subseteq Bounce
    BY DEF Bounces, Bounce
  <2>2. first \in Seq(Bounce) /\ second \in Seq(Bounce) /\ Len(first) = 2
    <3>1. first \in [1..2 -> Bounce] /\ second \in [1..2 -> Bounce]
      BY <2>1
    <3>2. 2 \in Nat
      OBVIOUS
    <3> QED BY <3>1, <3>2, IsSequence, Zenon
  <2>3. first[1] \in Bounces
    OBVIOUS
  <2>4. /\ first[1].sent = 7 /\ first[1].out \in 0..2 /\ first[1].back \in 0..2
    BY <2>3 DEF Bounces
  <2>5. Now(first[1]) = first[1].sent + first[1].out + first[1].back
    BY DEF Now
  <2>6. Now(first[1]) - first[1].sent < Never
    BY <2>4, <2>5 DEF Never
  <2>7. \E i \in 1..Len(first) : Now(first[i]) - first[i].sent < Never
    BY <2>2, <2>6
  <2> QED BY <2>2, <2>7, ClockNeverEarly
<1> QED BY <1>1, InputDescribed, PTL

\* The reader of a read-after-write follows the writer: never ahead of it, and
\* not behind if all writes are whole (read_after_write.c).
THEOREM ReaderFollows == Spec => []RawFollows
<1>1. InputInv => RawFollows
  <2> SUFFICES ASSUME NEW k \in 1..5, NEW lens \in [1..k -> 1..3]
               PROVE  ReaderBehind(lens, 3) /\ ReaderKeepsUp(lens, 3)
    BY Zenon DEF InputInv, AsDescribed, RawFollows, Is
  <2>1. lens \in Seq(0..3)
    OBVIOUS
  <2> QED BY <2>1, ReaderStaysBehind, ReaderKeepsPace
<1> QED BY <1>1, InputDescribed, PTL

=============================================================================
