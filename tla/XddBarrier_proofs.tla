-------------------------- MODULE XddBarrier_proofs --------------------------
(***************************************************************************)
(* Two barriers taken in turn keep any number of threads together, for any *)
(* number of rounds.  Together alone is not inductive: that a thread which *)
(* lags behind is sure to be let go, and that its unit of the semaphore is *)
(* taken by no one else, needs the count of the waiters of each barrier.   *)
(***************************************************************************)
EXTENDS XddBarrier, FiniteSetTheorems, TLAPS

\* A thread inside a barrier has a round to leave.
InRound == \A t \in Thread : pc[t] # "run" => round[t] < MaxRound

\* A thread that lags behind waits at a barrier whose count is closed.
Ahead == \A t, u \in Thread :
            round[t] > round[u] =>
                round[t] = round[u] + 1 /\ pc[u] = "wait" /\ counter[Turn(u)] = 0

\* While the last caller has not posted, all the others wait for it.
Poster == \A t \in Thread :
            pc[t] = "post" =>
                /\ counter[Turn(t)] = 0 /\ sem[Turn(t)] = 0
                /\ \A u \in Thread \ {t} : pc[u] = "wait" /\ round[u] = round[t]

\* A barrier with units to take is entered by no one.
Open == \A t \in Thread :
            sem[Turn(t)] > 0 => pc[t] = "wait" /\ counter[Turn(t)] = 0

\* At most one of the two barriers is letting threads go.
OneOpen == sem[0] = 0 \/ sem[1] = 0

IInv == TypeOK /\ InRound /\ Accounted /\ Ahead /\ Poster /\ Open /\ OneOpen

-----------------------------------------------------------------------------

LEMMA PartiesType == Parties \in Nat /\ Parties > 0
  BY ThreadAssumption, FS_CardinalityType, FS_EmptySet DEF Parties

\* Two turns that agree in rounds that differ by one at most are one round.
LEMMA Parity ==
  ASSUME NEW m \in Nat, NEW n \in Nat
  PROVE  /\ m % 2 \in 0..1
         /\ (m + 1) % 2 # m % 2
         /\ (m % 2 = n % 2 /\ m <= n + 1 /\ n <= m + 1) => m = n
  OBVIOUS

LEMMA WaitersFinite ==
  ASSUME NEW S \in SUBSET Thread
  PROVE  IsFiniteSet(S) /\ Cardinality(S) \in Nat
  BY ThreadAssumption, FS_Subset, FS_CardinalityType

\* If all but one thread is counted, those counted are the others.
LEMMA AllOthers ==
  ASSUME NEW t \in Thread, NEW S \in SUBSET (Thread \ {t}),
         Cardinality(S) = Parties - 1
  PROVE  S = Thread \ {t}
<1>1. IsFiniteSet(Thread \ {t}) /\ Cardinality(Thread \ {t}) = Parties - 1
  BY ThreadAssumption, FS_RemoveElement DEF Parties
<1> QED BY <1>1, FS_Subset

LEMMA TurnType ==
  ASSUME TypeOK, NEW t \in Thread
  PROVE  Turn(t) \in 0..1 /\ round[t] \in Nat
  BY Parity, MaxRoundAssumption DEF TypeOK, Turn

-----------------------------------------------------------------------------

\* At the start nobody waits.
LEMMA InitIInv == Init => IInv
<1> SUFFICES ASSUME Init PROVE IInv
  OBVIOUS
<1> USE PartiesType, MaxRoundAssumption
<1>1. TypeOK
  BY DEF Init, TypeOK
<1>2. \A b \in 0..1 : Waiting(b) = {} /\ Posting(b) = {}
  BY DEF Init, Waiting, Posting
<1>3. Accounted
  BY <1>2, FS_EmptySet DEF Init, Accounted
<1>4. InRound /\ Poster
  BY DEF Init, InRound, Poster
<1>5. Ahead
  BY DEF Init, Ahead
<1>6. Open /\ OneOpen
  BY DEF Init, Open, OneOpen, Turn
<1> QED BY <1>1, <1>3, <1>4, <1>5, <1>6 DEF IInv

\* A thread that is not inside a barrier sees its barrier closed, and sees no
\* other thread about to post.
LEMMA Runner ==
  ASSUME IInv, NEW t \in Thread, pc[t] = "run"
  PROVE  /\ sem[Turn(t)] = 0
         /\ \A u \in Thread : pc[u] # "post"
         /\ \A u \in Thread : round[u] <= round[t]
<1>1. sem[Turn(t)] = 0
  BY TurnType DEF IInv, TypeOK, Open
<1>2. ASSUME NEW u \in Thread, pc[u] = "post" PROVE FALSE
  BY <1>2 DEF IInv, Poster
<1>3. ASSUME NEW u \in Thread, round[u] > round[t] PROVE FALSE
  BY <1>3 DEF IInv, Ahead
<1> QED BY <1>1, <1>2, <1>3, TurnType DEF IInv

LEMMA EnterEarlyStep ==
  ASSUME IInv, NEW t \in Thread, EnterEarly(t)
  PROVE  IInv'
<1> DEFINE b == Turn(t)
<1> USE DEF EnterEarly
<1>0. /\ b \in 0..1
      /\ \A u \in Thread : Turn(u)' = Turn(u)
  BY TurnType DEF IInv, Turn
<1>r. /\ sem[b] = 0
      /\ \A u \in Thread : pc[u] # "post"
      /\ \A u \in Thread : round[u] <= round[t]
  BY Runner
<1>1. TypeOK'
  BY <1>0, PartiesType DEF IInv, TypeOK
<1>2. InRound'
  BY DEF IInv, InRound, TypeOK
<1>3. Accounted'
  <2>0. \A x \in 0..1 : Posting(x)' = {}
    BY <1>r DEF Posting, IInv, TypeOK
  <2> SUFFICES ASSUME NEW x \in 0..1
               PROVE  Cardinality(Waiting(x)') = counter'[x] + sem[x]
    BY <2>0, <1>1 DEF Accounted, TypeOK
  <2>1. Posting(x) = {}
    BY <1>r DEF Posting
  <2>2. Cardinality(Waiting(x)) = counter[x] + sem[x]
    BY <2>1 DEF IInv, Accounted, TypeOK
  <2>3. CASE x = b
    <3>1. Waiting(x)' = Waiting(x) \cup {t} /\ t \notin Waiting(x)
      BY <2>3, <1>0 DEF Waiting, IInv, TypeOK
    <3>2. Cardinality(Waiting(x)') = Cardinality(Waiting(x)) + 1
      BY <3>1, WaitersFinite, FS_AddElement DEF Waiting
    <3> QED BY <3>2, <2>2, <2>3 DEF IInv, TypeOK
  <2>4. CASE x # b
    <3>1. Waiting(x)' = Waiting(x)
      BY <2>4, <1>0 DEF Waiting, IInv, TypeOK
    <3> QED BY <3>1, <2>2, <2>4 DEF IInv, TypeOK
  <2> QED BY <2>3, <2>4
<1>4. Ahead'
  <2> SUFFICES ASSUME NEW x \in Thread, NEW y \in Thread, round[x] > round[y]
               PROVE  /\ round[x] = round[y] + 1 /\ pc'[y] = "wait"
                      /\ counter'[Turn(y)] = 0
    BY <1>0 DEF Ahead
  <2>1. round[x] = round[y] + 1 /\ pc[y] = "wait" /\ counter[Turn(y)] = 0
    BY DEF IInv, Ahead
  <2>2. Turn(y) # b
    <3> SUFFICES ASSUME Turn(y) = b PROVE FALSE
      OBVIOUS
    <3>1. Posting(b) = {} /\ y \in Waiting(b)
      BY <1>r, <2>1 DEF Posting, Waiting
    <3>2. Cardinality(Waiting(b)) = 0
      BY <1>0, <1>r, <2>1, <3>1 DEF IInv, Accounted
    <3> QED BY <3>1, <3>2, WaitersFinite, FS_EmptySet DEF Waiting
  <2> QED BY <2>1, <2>2, <1>0 DEF IInv, TypeOK
<1>5. Poster'
  BY <1>r DEF Poster, IInv, TypeOK
<1>6. Open'
  <2> SUFFICES ASSUME NEW u \in Thread, sem[Turn(u)] > 0
               PROVE  pc'[u] = "wait" /\ counter'[Turn(u)] = 0
    BY <1>0 DEF Open
  <2>1. Turn(u) # b
    BY <1>r
  <2> QED BY <2>1, <1>0 DEF IInv, Open, TypeOK
<1>7. OneOpen'
  BY DEF IInv, OneOpen
<1> QED BY <1>1, <1>2, <1>3, <1>4, <1>5, <1>6, <1>7 DEF IInv

LEMMA EnterLastStep ==
  ASSUME IInv, NEW t \in Thread, EnterLast(t)
  PROVE  IInv'
<1> DEFINE b == Turn(t)
<1> USE DEF EnterLast
<1>0. /\ b \in 0..1
      /\ \A u \in Thread : Turn(u)' = Turn(u)
  BY TurnType DEF IInv, Turn
<1>r. /\ sem[b] = 0
      /\ \A u \in Thread : pc[u] # "post"
      /\ \A u \in Thread : round[u] <= round[t]
  BY Runner
<1>a. Waiting(b) = Thread \ {t}
  <2>1. Posting(b) = {}
    BY <1>r DEF Posting
  <2>2. Cardinality(Waiting(b)) = Parties - 1
    BY <2>1, <1>0, <1>r, PartiesType DEF IInv, Accounted
  <2>3. Waiting(b) \in SUBSET (Thread \ {t})
    BY DEF Waiting
  <2> QED BY <2>2, <2>3, AllOthers
<1>b. \A u \in Thread \ {t} : pc[u] = "wait" /\ round[u] = round[t] /\ Turn(u) = b
  <2> SUFFICES ASSUME NEW u \in Thread \ {t}
               PROVE  pc[u] = "wait" /\ round[u] = round[t] /\ Turn(u) = b
    OBVIOUS
  <2>1. pc[u] = "wait" /\ Turn(u) = b
    BY <1>a DEF Waiting
  <2>2. round[u] \in Nat /\ round[t] \in Nat
    BY TurnType DEF IInv
  <2>3. round[u] <= round[t] + 1 /\ round[t] <= round[u] + 1
    BY <2>2, <1>r DEF IInv, Ahead
  <2> QED BY <2>1, <2>2, <2>3, Parity DEF Turn
<1>1. TypeOK'
  BY <1>0, PartiesType DEF IInv, TypeOK
<1>2. InRound'
  BY DEF IInv, InRound, TypeOK
<1>3. Accounted'
  <2>0. \A x \in 0..1 : Posting(x) = {}
    BY <1>r DEF Posting
  <2> SUFFICES ASSUME NEW x \in 0..1
               PROVE  (Cardinality(Waiting(x)) =
                        counter[x] + (sem[x] + (IF Posting(x) = {} THEN 0 ELSE Parties - 1)))'
    BY DEF Accounted
  <2>1. Waiting(x)' = Waiting(x)
    BY <1>0 DEF Waiting, IInv, TypeOK
  <2>2. Cardinality(Waiting(x)) = counter[x] + sem[x]
    BY <2>0 DEF IInv, Accounted, TypeOK
  <2>3. CASE x = b
    <3>1. t \in Posting(x)'
      BY <2>3, <1>0 DEF Posting, IInv, TypeOK
    <3> QED BY <3>1, <2>1, <2>2, <2>3, <1>r, PartiesType DEF IInv, TypeOK
  <2>4. CASE x # b
    <3>1. Posting(x)' = {}
      BY <2>4, <1>0, <1>r DEF Posting, IInv, TypeOK
    <3> QED BY <3>1, <2>1, <2>2, <2>4, <1>1 DEF IInv, TypeOK
  <2> QED BY <2>3, <2>4
<1>4. Ahead'
  BY <1>b, <1>0, <1>r DEF Ahead, IInv, TypeOK
<1>5. Poster'
  BY <1>b, <1>0, <1>r DEF Poster, IInv, TypeOK
<1>6. Open'
  BY <1>b, <1>0, <1>r DEF Open, IInv
<1>7. OneOpen'
  BY DEF IInv, OneOpen
<1> QED BY <1>1, <1>2, <1>3, <1>4, <1>5, <1>6, <1>7 DEF IInv

LEMMA PostStep ==
  ASSUME IInv, NEW t \in Thread, Post(t)
  PROVE  IInv'
<1> DEFINE b == Turn(t)
<1> USE DEF Post
<1>0. /\ b \in 0..1 /\ round[t] \in Nat
      /\ \A u \in Thread \ {t} : Turn(u)' = Turn(u)
      /\ Turn(t)' \in 0..1 /\ Turn(t)' # b
  BY TurnType, Parity DEF IInv, TypeOK, Turn
<1>a. /\ counter[b] = 0 /\ sem[b] = 0
      /\ \A u \in Thread \ {t} : pc[u] = "wait" /\ round[u] = round[t] /\ Turn(u) = b
  BY DEF IInv, Poster, Turn
<1>b. round[t] < MaxRound
  BY DEF IInv, InRound
<1>c. \A x \in 0..1 : x # b => /\ Waiting(x) = {} /\ Posting(x) = {}
                               /\ counter[x] = 0 /\ sem[x] = 0
  <2> SUFFICES ASSUME NEW x \in 0..1, x # b
               PROVE  /\ Waiting(x) = {} /\ Posting(x) = {}
                      /\ counter[x] = 0 /\ sem[x] = 0
    OBVIOUS
  <2>1. Waiting(x) = {} /\ Posting(x) = {}
    BY <1>a DEF Waiting, Posting
  <2>2. 0 = counter[x] + (sem[x] + 0)
    BY <2>1, FS_EmptySet DEF IInv, Accounted
  <2>3. counter[x] \in Nat /\ sem[x] \in Nat
    BY PartiesType DEF IInv, TypeOK
  <2> QED BY <2>1, <2>2, <2>3
<1>1. TypeOK'
  BY <1>0, <1>b, PartiesType, MaxRoundAssumption DEF IInv, TypeOK
<1>2. InRound'
  BY DEF IInv, InRound, TypeOK
<1>3. Accounted'
  <2>0. \A x \in 0..1 : Posting(x)' = {}
    BY <1>a DEF Posting, IInv, TypeOK
  <2> SUFFICES ASSUME NEW x \in 0..1
               PROVE  Cardinality(Waiting(x)') = counter'[x] + sem'[x]
    BY <2>0, <1>1 DEF Accounted, TypeOK
  <2>1. Waiting(x)' = Waiting(x)
    BY <1>0 DEF Waiting, IInv, TypeOK
  <2>2. CASE x = b
    <3>1. t \in Posting(x)
      BY <2>2 DEF Posting
    <3>2. Cardinality(Waiting(x)) = Parties - 1
      BY <3>1, <2>2, <1>a, PartiesType DEF IInv, Accounted
    <3>3. counter'[x] = 0 /\ sem'[x] = Parties - 1
      BY <2>2, <1>a, <1>0, PartiesType DEF IInv, TypeOK
    <3> QED BY <3>2, <3>3, <2>1, PartiesType
  <2>3. CASE x # b
    <3>1. Cardinality(Waiting(x)) = 0
      BY <2>3, <1>c, FS_EmptySet
    <3>2. counter'[x] = 0 /\ sem'[x] = 0
      BY <2>3, <1>c DEF IInv, TypeOK
    <3> QED BY <3>1, <3>2, <2>1
  <2> QED BY <2>2, <2>3
<1>4. Ahead'
  BY <1>a, <1>0 DEF Ahead, IInv, TypeOK
<1>5. Poster'
  BY <1>a DEF Poster, IInv, TypeOK
<1>6. Open'
  <2> SUFFICES ASSUME NEW u \in Thread, sem'[Turn(u)'] > 0
               PROVE  pc'[u] = "wait" /\ counter'[Turn(u)'] = 0
    BY DEF Open
  <2>1. u # t
    BY <1>0, <1>c DEF IInv, TypeOK
  <2> QED BY <2>1, <1>a, <1>0 DEF IInv, TypeOK
<1>7. OneOpen'
  BY <1>0, <1>c DEF OneOpen, IInv, TypeOK
<1> QED BY <1>1, <1>2, <1>3, <1>4, <1>5, <1>6, <1>7 DEF IInv

LEMMA WakeStep ==
  ASSUME IInv, NEW t \in Thread, Wake(t)
  PROVE  IInv'
<1> DEFINE b == Turn(t)
<1> USE DEF Wake
<1>0. /\ b \in 0..1 /\ round[t] \in Nat
      /\ \A u \in Thread \ {t} : Turn(u)' = Turn(u)
      /\ Turn(t)' \in 0..1 /\ Turn(t)' # b
  BY TurnType, Parity DEF IInv, TypeOK, Turn
<1>a. \A u \in Thread : Turn(u) = b => pc[u] = "wait" /\ counter[b] = 0
  BY DEF IInv, Open
<1>b. \A x \in 0..1 : x # b => sem[x] = 0
  BY <1>0 DEF IInv, OneOpen, TypeOK
<1>c. round[t] < MaxRound
  BY DEF IInv, InRound
<1>d. \A u \in Thread : pc[u] # "post"
  <2> SUFFICES ASSUME NEW u \in Thread, pc[u] = "post" PROVE FALSE
    OBVIOUS
  <2>1. sem[Turn(u)] = 0 /\ round[t] = round[u]
    BY DEF IInv, Poster
  <2> QED BY <2>1, <1>0 DEF Turn
<1>e. \A u \in Thread : round[u] >= round[t]
  <2> SUFFICES ASSUME NEW u \in Thread, round[t] > round[u] PROVE FALSE
    BY TurnType DEF IInv
  <2>1. round[t] = round[u] + 1 /\ pc[u] = "wait" /\ counter[Turn(u)] = 0
    BY DEF IInv, Ahead
  <2>2. Turn(u) \in 0..1 /\ Turn(u) # b /\ round[u] \in Nat
    BY <2>1, TurnType, Parity DEF IInv, Turn
  <2>3. Posting(Turn(u)) = {} /\ u \in Waiting(Turn(u))
    BY <2>1, <1>d DEF Posting, Waiting
  <2>4. Cardinality(Waiting(Turn(u))) = 0
    BY <2>1, <2>2, <2>3, <1>b DEF IInv, Accounted
  <2> QED BY <2>3, <2>4, WaitersFinite, FS_EmptySet DEF Waiting
<1>1. TypeOK'
  BY <1>0, <1>c, MaxRoundAssumption DEF IInv, TypeOK
<1>2. InRound'
  BY DEF IInv, InRound, TypeOK
<1>3. Accounted'
  <2>0. \A x \in 0..1 : Posting(x) = {} /\ Posting(x)' = {}
    BY <1>d DEF Posting, IInv, TypeOK
  <2> SUFFICES ASSUME NEW x \in 0..1
               PROVE  Cardinality(Waiting(x)') = counter'[x] + sem'[x]
    BY <2>0, <1>1 DEF Accounted, TypeOK
  <2>1. Cardinality(Waiting(x)) = counter[x] + sem[x]
    BY <2>0 DEF IInv, Accounted, TypeOK
  <2>2. CASE x = b
    <3>1. Waiting(x)' = Waiting(x) \ {t} /\ t \in Waiting(x)
      BY <2>2, <1>0 DEF Waiting, IInv, TypeOK
    <3>2. Cardinality(Waiting(x)') = Cardinality(Waiting(x)) - 1
      BY <3>1, WaitersFinite, FS_RemoveElement DEF Waiting
    <3> QED BY <3>2, <2>1, <2>2 DEF IInv, TypeOK
  <2>3. CASE x # b
    <3>1. Waiting(x)' = Waiting(x)
      BY <2>3, <1>0 DEF Waiting, IInv, TypeOK
    <3> QED BY <3>1, <2>1, <2>3 DEF IInv, TypeOK
  <2> QED BY <2>2, <2>3
<1>4. Ahead'
  <2> SUFFICES ASSUME NEW x \in Thread, NEW y \in Thread, round'[x] > round'[y]
               PROVE  /\ round'[x] = round'[y] + 1 /\ pc'[y] = "wait"
                      /\ counter'[Turn(y)'] = 0
    BY DEF Ahead
  <2>1. CASE x = t
    <3>1. y # t /\ round[y] \in Nat /\ round[y] = round[t]
      BY <2>1, <1>0, <1>e, TurnType DEF IInv, TypeOK
    <3> QED BY <3>1, <2>1, <1>0, <1>a DEF Turn, IInv, TypeOK
  <2>2. CASE x # t /\ y = t
    <3>1. round[x] \in Nat /\ round[x] > round[t] + 1
      BY <2>2, <1>0, TurnType DEF IInv, TypeOK
    <3> QED BY <3>1, <1>0 DEF IInv, Ahead
  <2>3. CASE x # t /\ y # t
    BY <2>3, <1>0 DEF IInv, Ahead, TypeOK
  <2> QED BY <2>1, <2>2, <2>3
<1>5. Poster'
  BY <1>d DEF Poster, IInv, TypeOK
<1>6. Open'
  <2> SUFFICES ASSUME NEW u \in Thread, sem'[Turn(u)'] > 0
               PROVE  pc'[u] = "wait" /\ counter'[Turn(u)'] = 0
    BY DEF Open
  <2>1. u # t
    BY <1>0, <1>b DEF IInv, TypeOK
  <2>2. Turn(u)' \in 0..1 /\ Turn(u)' = b
    BY <2>1, <1>0, <1>b, TurnType DEF IInv, TypeOK
  <2> QED BY <2>1, <2>2, <1>0, <1>a DEF IInv, TypeOK
<1>7. OneOpen'
  BY <1>0, <1>b DEF OneOpen, IInv, TypeOK
<1> QED BY <1>1, <1>2, <1>3, <1>4, <1>5, <1>6, <1>7 DEF IInv

-----------------------------------------------------------------------------

\* Every step keeps the inductive invariant.
LEMMA NextIInv == IInv /\ [Next]_vars => IInv'
<1> SUFFICES ASSUME IInv, [Next]_vars PROVE IInv'
  OBVIOUS
<1>1. CASE UNCHANGED vars
  <2> USE <1>1 DEF vars
  <2>1. \A t \in Thread : Turn(t)' = Turn(t)
    BY DEF Turn
  <2>2. \A b \in 0..1 : Waiting(b)' = Waiting(b) /\ Posting(b)' = Posting(b)
    BY <2>1 DEF Waiting, Posting
  <2>3. TypeOK' /\ InRound' /\ OneOpen'
    BY DEF IInv, TypeOK, InRound, OneOpen
  <2>4. Accounted'
    BY <2>2 DEF IInv, Accounted
  <2>5. Ahead' /\ Poster' /\ Open'
    BY <2>1 DEF IInv, Ahead, Poster, Open
  <2> QED BY <2>3, <2>4, <2>5 DEF IInv
<1>2. ASSUME NEW t \in Thread, Enter(t) PROVE IInv'
  BY <1>2, EnterEarlyStep, EnterLastStep DEF Enter
<1>3. ASSUME NEW t \in Thread, Post(t) PROVE IInv'
  BY <1>3, PostStep
<1>4. ASSUME NEW t \in Thread, Wake(t) PROVE IInv'
  BY <1>4, WakeStep
<1> QED BY <1>1, <1>2, <1>3, <1>4 DEF Next

\* No thread leaves a round before every thread has entered it, however many
\* threads and passes: the two barriers of xdd.c:800 are enough.
THEOREM ThreadsStayTogether == Spec => []Together
<1>1. IInv => Together
  BY DEF IInv, Ahead, Together
<1> QED BY <1>1, InitIInv, NextIInv, PTL DEF Spec

\* Each waiter of a barrier has its unit of the semaphore, is counted, or is
\* owed one by the thread about to post.
THEOREM WaitersAccounted == Spec => []Accounted
<1>1. IInv => Accounted
  BY DEF IInv
<1> QED BY <1>1, InitIInv, NextIInv, PTL DEF Spec

=============================================================================
