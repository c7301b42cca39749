---------------------------- MODULE XddRun_proofs ----------------------------
(***************************************************************************)
(* A run of xdd with any number of targets and queue threads and any       *)
(* number of passes: threads that count their passes each for itself stay  *)
(* in the same pass and leave the loop in the same pass.                   *)
(*                                                                         *)
(* All of it follows from the meetings of all threads, of which a pass has *)
(* three: the number a thread has entered tells where it is, no two differ *)
(* by more than one, and what threads decide by (abort_io, run_ring,       *)
(* passes) changes only in places where no other thread is deciding.       *)
(***************************************************************************)
EXTENDS XddRun, TLAPS

-----------------------------------------------------------------------------
(* The invariant *)

Early == {"none", "init", "serial"}
\* The places of a pass before its second meeting, before its third, and after.
First == {"start", "io", "ran", "results", "computed"}
Second == {"compared", "show"}
Third == {"shown", "settle", "grow", "reopen", "again"}
Looping == First \cup Second \cup Third
Ending == {"left", "total", "average", "averaged", "prefinal", "combine", "final"}
Place == Early \cup {"gone"} \cup Looping \cup Ending
\* Where a thread waits for the others to enter the meeting.
Waiting == {"start", "compared", "shown", "total", "averaged"}

TypeOK ==
  /\ option \in [runtime : BOOLEAN, reopen : BOOLEAN]
  /\ party \in [Thread \cup {Main} -> {"out", "count", "post", "wait"}]
  /\ pc \in [Thread -> Place]
  /\ abort \in BOOLEAN /\ ring \in BOOLEAN
  /\ open \in [Thread -> BOOLEAN]
  /\ failed \in [Thread -> {"no", "told", "silent"}]
  /\ passes \in Nat /\ pass \in [Thread -> Nat \ {0}]
  /\ met \in [Thread -> Nat]

\* A thread at a serializer barrier has met no one yet; one that has returned never
\* will, unless main has ended all of them.
Starting(t) ==
  /\ party[t] # "out" => pc[t] = "serial"
  /\ pc[t] \in Early => met[t] = 0 /\ pass[t] = 1
  /\ pc[t] = "gone" => \/ met[t] = 0 /\ pass[t] = 1
                       \/ \A u \in Thread : pc[u] = "gone"

\* The meetings a thread entered before it left the loop.
Stop(t) == met[t] - (CASE pc[t] = "left" -> 0
                       [] pc[t] \in {"total", "average"} -> 1
                       [] OTHER -> 2)
Aborted(t) == pc[t] \in Ending /\ Stop(t) = 3 * pass[t] - 2
Ended(t) == pc[t] \in Ending /\ Stop(t) = 3 * pass[t]

\* The meetings a thread has entered tell where it is.
Counted(t) ==
  /\ pc[t] \in First => met[t] = 3 * pass[t] - 2
  /\ pc[t] \in Second => met[t] = 3 * pass[t] - 1
  /\ pc[t] \in Third => met[t] = 3 * pass[t]
  /\ pc[t] \in Ending => Aborted(t) \/ Ended(t)
  /\ pc[t] \in {"show", "average", "combine"} => t = T0Q0

\* No thread is more than one meeting behind, or behind one that has gone on.
Met(t, u) ==
  pc[t] \in Looping \cup Ending =>
    met[u] >= met[t] - 1 /\ (pc[t] \notin Waiting => met[u] >= met[t])

\* Threads that leave on an abort leave before the same pass.
AbortTogether(t, u) ==
  /\ Aborted(t) => abort /\ pass[u] = pass[t] /\ (pc[u] = "start" \/ Aborted(u))
  /\ pc[t] = "start" /\ pc[u] \in (First \ {"start"}) \cup {"compared"} => ~abort

\* Threads that leave after a pass leave after the same one.
EndTogether(t, u) ==
  /\ Ended(t) => /\ pass[u] = pass[t]
                 /\ IF option.runtime THEN ring /\ (pc[u] \in {"shown", "settle"} \/ Ended(u))
                    ELSE pass[t] >= passes /\ (pc[u] \in Third \/ Ended(u))
  /\ option.runtime /\ pc[t] \in {"shown", "settle"}
       /\ pc[u] \in {"start", "grow", "reopen", "again"} => ~ring

\* There is a pass for everyone to do; in a run by time always one more.
Limited(t) ==
  /\ pass[t] <= passes
  /\ option.runtime /\ pc[t] \in {"reopen", "again"} => pass[t] < passes
  /\ pc[t] = "grow" => option.runtime

\* A thread in a pass has its target open.
Opened(t) ==
  /\ pc[t] = "serial" /\ failed[t] = "no" => open[t]
  /\ pc[t] = "start" => open[t] \/ abort
  /\ pc[t] \in Looping \ {"start", "again"} => open[t]
  /\ pc[t] = "again" => open[t] \/ abort \/ pass[t] >= passes

Combining(t, u) == pc[t] = "combine" => pc[u] \in {"prefinal", "combine", "final"}

Alone(t) == Starting(t) /\ Counted(t) /\ Limited(t) /\ Opened(t)
Pair(t, u) == Met(t, u) /\ AbortTogether(t, u) /\ EndTogether(t, u) /\ Combining(t, u)

RunInv ==
  /\ TypeOK
  /\ \A t \in Thread : Alone(t)
  /\ \A t, u \in Thread : Pair(t, u)

-----------------------------------------------------------------------------
(* Steps of one thread *)

LEMMA MainIsNoThread == Main \notin Thread
BY RunAssumption DEF Main, Thread, Target

\* Thread a goes from place p to place x, enters d meetings of all threads and is
\* then in pass n.
Moves(a, p, x, d, n) ==
  /\ pc[a] = p /\ pc'[a] = x
  /\ met'[a] = met[a] + d /\ pass'[a] = n
  /\ \A u \in Thread : u # a => pc'[u] = pc[u] /\ met'[u] = met[u] /\ pass'[u] = pass[u]
  /\ pc' \in [Thread -> Place] /\ met' \in [Thread -> Nat] /\ pass' \in [Thread -> Nat \ {0}]

LEMMA StaysMoves ==
  ASSUME TypeOK, NEW a \in Thread, NEW x \in Place, Stays(a, x), pass' = pass
  PROVE  Moves(a, pc[a], x, 0, pass[a])
BY DEF TypeOK, Stays, Goes, Moves

LEMMA MeetsMoves ==
  ASSUME TypeOK, NEW a \in Thread, NEW x \in Place, Meets(a, x), pass' = pass
  PROVE  Moves(a, pc[a], x, 1, pass[a])
BY DEF TypeOK, Meets, Goes, Moves

LEMMA MeetsPeersMoves ==
  ASSUME TypeOK, NEW a \in Thread, NEW x \in Place, MeetsPeers(a, x), pass' = pass
  PROVE  Moves(a, pc[a], x, 0, pass[a])
BY DEF TypeOK, MeetsPeers, Goes, Moves

\* What all decide by changes only where no other thread is deciding.
Quietly(a) ==
  /\ option' = option
  /\ \/ abort' = abort
     \/ abort' = TRUE /\ \A u \in Thread : u # a =>
          pc[u] \notin (First \ {"start"}) \cup {"compared"}
  /\ \/ ring' = ring
     \/ \A u \in Thread : u # a => pc[u] \notin {"shown", "settle"} /\ ~Ended(u)
  /\ \/ passes' = passes
     \/ option.runtime /\ \A u \in Thread : u # a =>
          pass[u] <= passes' /\ (pc[u] \in {"reopen", "again"} => pass[u] < passes')

\* What the others are to each other stays as it is.
LEMMA OthersKept ==
  ASSUME RunInv, TypeOK', NEW a \in Thread, NEW p, NEW x, NEW d, NEW n, Moves(a, p, x, d, n),
         p # "gone", Quietly(a),
         \A u \in Thread : u # a => open'[u] = open[u] /\ failed'[u] = failed[u] /\ party'[u] = party[u],
         Alone(a)', Pair(a, a)',
         \A u \in Thread : u # a => Pair(a, u)' /\ Pair(u, a)'
  PROVE  RunInv'
<1>0. /\ option' = option /\ (abort => abort') /\ passes \in Nat /\ passes' \in Nat
      /\ abort \in BOOLEAN /\ abort' \in BOOLEAN /\ ring \in BOOLEAN /\ ring' \in BOOLEAN
  BY DEF RunInv, TypeOK, Quietly
<1>1. ASSUME NEW t \in Thread, t # a PROVE Alone(t)'
  <2>1. /\ Alone(t) /\ pc'[t] = pc[t] /\ met'[t] = met[t] /\ pass'[t] = pass[t]
        /\ open'[t] = open[t] /\ failed'[t] = failed[t] /\ pass[t] \in Nat
    BY <1>1 DEF RunInv, TypeOK, Moves
  <2>2. Starting(t)'
    <3>1. pc[a] # "gone"
      BY DEF Moves
    <3>. QED  BY <1>1, <2>1, <3>1 DEF Alone, Starting
  <2>3. Counted(t)'
    BY <2>1 DEF Alone, Counted, Aborted, Ended, Stop
  <2>4. Limited(t)'
    BY <1>0, <1>1, <2>1 DEF Alone, Limited, Quietly
  <2>5. Opened(t)'
    BY <1>0, <1>1, <2>1 DEF Alone, Limited, Opened, Quietly
  <2>. QED  BY <2>2, <2>3, <2>4, <2>5 DEF Alone
<1>2. ASSUME NEW t \in Thread, NEW u \in Thread, t # a, u # a PROVE Pair(t, u)'
  <2>1. /\ Pair(t, u) /\ pc'[t] = pc[t] /\ met'[t] = met[t] /\ pass'[t] = pass[t]
        /\ pc'[u] = pc[u] /\ met'[u] = met[u] /\ pass'[u] = pass[u]
    BY <1>2 DEF RunInv, Moves
  <2>2. /\ Aborted(t)' <=> Aborted(t)
        /\ Aborted(u)' <=> Aborted(u)
        /\ Ended(t)' <=> Ended(t)
        /\ Ended(u)' <=> Ended(u)
    BY <2>1 DEF Aborted, Ended, Stop
  <2>3. Met(t, u)' /\ Combining(t, u)'
    BY <2>1 DEF Pair, Met, Combining
  <2>4. AbortTogether(t, u)'
    BY <1>0, <1>2, <2>1, <2>2 DEF Pair, AbortTogether, Quietly
  <2>5. EndTogether(t, u)'
    BY <1>0, <1>2, <2>1, <2>2 DEF Pair, EndTogether, Quietly
  <2>. QED  BY <2>3, <2>4, <2>5 DEF Pair
<1>. QED  BY <1>1, <1>2 DEF RunInv

\* The moves of a thread that change nothing but where it is, alone, after a meeting,
\* or by what it decides.
Way(a, p, x, d) ==
  \/ <<p, x, d>> \in {<<"ran", "results", 0>>, <<"results", "computed", 0>>,
                      <<"computed", "compared", 1>>, <<"show", "shown", 1>>,
                      <<"io", "ran", 0>>, <<"left", "total", 1>>, <<"average", "averaged", 1>>}
  \/ AllMet(a) /\ <<p, x, d>> \in {<<"compared", "shown", 1>>, <<"shown", "settle", 0>>,
                                   <<"total", "averaged", 1>>, <<"averaged", "prefinal", 0>>}
  \/ AllMet(a) /\ a = T0Q0 /\ <<p, x, d>> \in {<<"compared", "show", 0>>, <<"total", "average", 0>>}
  \/ AllMet(a) /\ p = "start" /\ d = 0 /\ x = IF abort THEN "left" ELSE "io"
  \/ p = "settle" /\ d = 0 /\ x = IF option.runtime /\ ring THEN "left"
                                  ELSE IF option.runtime /\ pass[a] = passes THEN "grow" ELSE "reopen"
  \/ p = "again" /\ d = 0 /\ x = "left" /\ ~(pass[a] < passes)

LEMMA MovesKeep ==
  ASSUME RunInv, NEW a \in Thread, NEW p, NEW x, NEW d \in {0, 1}, Moves(a, p, x, d, pass[a]),
         Way(a, p, x, d), UNCHANGED <<option, abort, ring, passes, open, failed, party, pass>>
  PROVE  RunInv'
<1>1. TypeOK'
  BY DEF RunInv, TypeOK, Moves
<1>2. Alone(a) /\ Pair(a, a) /\ met[a] \in Nat /\ pass[a] \in Nat /\ passes \in Nat
  BY DEF RunInv, TypeOK
<1>. USE DEF Moves, Way, Alone, Starting, Counted, Limited, Opened, Aborted, Ended, Stop,
    Pair, Met, AbortTogether, EndTogether, Combining, Early, First, Second, Third, Looping, Ending, Waiting
<1>3. Alone(a)'
  BY <1>2
<1>4. Pair(a, a)'
  BY <1>2
<1>5. ASSUME NEW u \in Thread, u # a PROVE Pair(a, u)' /\ Pair(u, a)'
  <2>1. Alone(u) /\ Pair(u, a) /\ Pair(a, u) /\ met[u] \in Nat /\ pass[u] \in Nat
    BY DEF RunInv, TypeOK
  <2>2. AllMet(a) => met[u] >= met[a]
    BY DEF AllMet
  <2>3. Met(a, u)' /\ Met(u, a)'
    BY <1>2, <1>5, <2>1, <2>2
  <2>4. AbortTogether(a, u)' /\ AbortTogether(u, a)'
    <3>1. CASE p = "start"
      <4>1. x = (IF abort THEN "left" ELSE "io") /\ d = 0 /\ met[u] >= met[a] /\ met[a] = 3 * pass[a] - 2
        BY <1>2, <2>2, <3>1
      <4>2. CASE abort
        <5>1. pc[u] \notin Early \cup {"gone"}
          BY <1>2, <2>1, <3>1, <4>1
        <5>2. ASSUME pc[u] \in First PROVE pc[u] = "start" /\ pass[u] = pass[a]
          <6>1. pc[u] = "start"
            BY <2>1, <3>1, <4>2, <5>2
          <6>2. met[u] = 3 * pass[u] - 2 /\ met[a] >= met[u] - 1
            BY <2>1, <6>1
          <6>. QED  BY <1>2, <2>1, <4>1, <6>1, <6>2
        <5>3. pc[u] \notin Second \cup Third
          BY <1>2, <2>1, <3>1, <4>1, <4>2
        <5>4. pc[u] \in Ending => Aborted(u) /\ pass[u] = pass[a]
          BY <1>2, <2>1, <3>1, <4>1, <4>2
        <5>5. pc[u] \in Place
          BY DEF RunInv, TypeOK
        <5>6. (pc[u] = "start" \/ Aborted(u)) /\ pass[u] = pass[a]
          BY <5>1, <5>2, <5>3, <5>4, <5>5 DEF Place
        <5>. QED  BY <1>2, <1>5, <4>1, <4>2, <5>6
      <4>3. CASE ~abort
        BY <1>2, <1>5, <2>1, <4>1, <4>3
      <4>. QED  BY <4>2, <4>3
    <3>2. CASE p \in Ending
      BY <1>2, <1>5, <2>1, <2>2, <3>2
    <3>3. CASE p \in Looping \ {"start"}
      <4>1. AbortTogether(a, u)'
        BY <1>2, <1>5, <2>1, <2>2, <3>3
      <4>2. AbortTogether(u, a)'
        BY <1>2, <1>5, <2>1, <2>2, <3>3
      <4>. QED  BY <4>1, <4>2
    <3>. QED  BY <3>1, <3>2, <3>3
  <2>5. EndTogether(a, u)'
    <3>1. CASE p \in {"settle", "again"} /\ x = "left"
      <4>1. d = 0 /\ met[u] >= met[a] /\ met[a] = 3 * pass[a] /\ pc[a] = p
            /\ IF option.runtime THEN ring /\ p = "settle" ELSE p = "again" /\ pass[a] >= passes
        BY <1>2, <2>1, <3>1
      <4>2. pc[u] \notin Early \cup {"gone"}
        BY <1>2, <2>1, <3>1, <4>1
      <4>3. pc[u] \notin First
        <5>1. pc[u] \in First => pc[u] = "start" /\ pass[u] = pass[a] + 1
          BY <1>2, <2>1, <3>1, <4>1
        <5>. QED  BY <1>2, <2>1, <3>1, <4>1, <5>1
      <4>4. pc[u] \notin Second
        BY <1>2, <2>1, <3>1, <4>1
      <4>5. pc[u] \in Third => pass[u] = pass[a] /\ (option.runtime => pc[u] \in {"shown", "settle"})
        BY <1>2, <2>1, <3>1, <4>1
      <4>6. pc[u] \in Ending => pass[u] = pass[a] /\ Ended(u)
        BY <1>2, <2>1, <3>1, <4>1
      <4>7. pc[u] \in Place
        BY DEF RunInv, TypeOK
      <4>8. pass[u] = pass[a] /\ (pc[u] \in Third \/ Ended(u))
            /\ (option.runtime => pc[u] \in {"shown", "settle"} \/ Ended(u))
        BY <4>2, <4>3, <4>4, <4>5, <4>6, <4>7 DEF Place
      <4>. QED  BY <1>2, <1>5, <3>1, <4>1, <4>8
    <3>4. CASE p = "settle" /\ x # "left"
      BY <1>2, <1>5, <2>1, <2>2, <3>4
    <3>2. CASE p \in Ending
      BY <1>2, <1>5, <2>1, <2>2, <3>2
    <3>3. CASE p \in Looping \ {"settle", "again"}
      BY <1>2, <1>5, <2>1, <2>2, <3>3
    <3>. QED  BY <3>1, <3>2, <3>3, <3>4
  <2>6. EndTogether(u, a)'
    BY <1>2, <1>5, <2>1, <2>2
  <2>7. Combining(a, u)' /\ Combining(u, a)'
    BY <1>2, <1>5, <2>1, <2>2
  <2>. QED  BY <2>3, <2>4, <2>5, <2>6, <2>7
<1>. QED
  <2>1. p # "gone" /\ Quietly(a)
    BY DEF Quietly
  <2>. HIDE DEF Moves, Way, Alone, Pair
  <2>. QED  BY <1>1, <1>3, <1>4, <1>5, <2>1, OthersKept

\* The steps that only move a thread along.
Along(t) ==
  \/ Start(t) \/ Ran(t) \/ Results(t) \/ Computed(t) \/ Compared(t) \/ Show(t) \/ Shown(t)
  \/ Settle(t) \/ Left(t) \/ Total(t) \/ Average(t) \/ Averaged(t)
  \/ Again(t) /\ ~(pass[t] < passes)

LEMMA AlongKeeps ==
  ASSUME RunInv, NEW a \in Thread, Along(a)
  PROVE  RunInv'
<1>1. TypeOK /\ Alone(a) /\ pass \in [Thread -> Nat \ {0}]
  BY DEF RunInv, TypeOK
<1>2. UNCHANGED <<option, abort, ring, passes, open, failed, party, pass>>
  <2>1. CASE Again(a) /\ ~(pass[a] < passes)
    BY <1>1, <2>1 DEF Again, startup
  <2>. QED
    BY <2>1 DEF Along, Start, Ran, Results, Computed, Compared, Show, Shown, Settle, Left, Total,
      Average, Averaged, startup
<1>3. PICK x \in Place, d \in {0, 1} : Way(a, pc[a], x, d)
         /\ (d = 0 => Stays(a, x) \/ MeetsPeers(a, x)) /\ (d = 1 => Meets(a, x))
  <2>. USE DEF Way, Place, Looping, Ending, First, Second, Third
  <2>1. CASE Start(a)
    <3>1. CASE abort
      BY <2>1, <3>1 DEF Start
    <3>2. CASE ~abort
      BY <2>1, <3>2 DEF Start
    <3>. QED  BY <3>1, <3>2
  <2>2. CASE Ran(a)
    BY <2>2 DEF Ran
  <2>3. CASE Results(a)
    BY <2>3 DEF Results
  <2>4. CASE Computed(a)
    BY <2>4 DEF Computed
  <2>5. CASE Compared(a)
    BY <2>5 DEF Compared
  <2>6. CASE Show(a)
    BY <2>6 DEF Show
  <2>7. CASE Shown(a)
    BY <2>7 DEF Shown
  <2>8. CASE Settle(a)
    <3>1. CASE option.runtime /\ ring
      BY <2>8, <3>1 DEF Settle
    <3>2. CASE ~(option.runtime /\ ring) /\ option.runtime /\ pass[a] = passes
      BY <2>8, <3>2 DEF Settle
    <3>3. CASE ~(option.runtime /\ ring) /\ ~(option.runtime /\ pass[a] = passes)
      BY <2>8, <3>3 DEF Settle
    <3>. QED  BY <3>1, <3>2, <3>3
  <2>9. CASE Left(a)
    BY <2>9 DEF Left
  <2>10. CASE Total(a)
    BY <2>10 DEF Total
  <2>11. CASE Average(a)
    BY <2>11 DEF Average
  <2>12. CASE Averaged(a)
    BY <2>12 DEF Averaged
  <2>13. CASE Again(a) /\ ~(pass[a] < passes)
    BY <2>13 DEF Again
  <2>. QED
    BY <2>1, <2>2, <2>3, <2>4, <2>5, <2>6, <2>7, <2>8, <2>9, <2>10, <2>11, <2>12, <2>13 DEF Along
<1>4. Moves(a, pc[a], x, d, pass[a])
  BY <1>1, <1>2, <1>3, StaysMoves, MeetsMoves, MeetsPeersMoves
<1>. QED  BY <1>2, <1>3, <1>4, MovesKeep

\* While a thread does I/O no one decides whether the run time is over, and no one has
\* left.
LEMMA NoneAhead ==
  ASSUME RunInv, NEW a \in Thread, pc[a] = "io", NEW u \in Thread, u # a
  PROVE  pc[u] \notin Third /\ ~Ended(u)
<1>1. Alone(a) /\ Alone(u) /\ Pair(u, a) /\ Pair(a, u)
  BY DEF RunInv
<1>2. met[a] \in Nat /\ met[u] \in Nat /\ pass[a] \in Nat /\ pass[u] \in Nat
  BY DEF RunInv, TypeOK
<1>3. met[a] = 3 * pass[a] - 2 /\ met[u] >= met[a]
  BY <1>1 DEF Alone, Counted, Pair, Met, Looping, First, Waiting
<1>4. ASSUME pc[u] \in Third PROVE FALSE
  <2>1. met[u] = 3 * pass[u] /\ met[a] >= met[u] - 1
    BY <1>1, <1>4 DEF Alone, Counted, Pair, Met, Looping
  <2>. QED  BY <1>2, <1>3, <2>1
<1>5. ~Ended(u)
  BY <1>1 DEF Pair, EndTogether, Ended, Ending, Third
<1>. QED  BY <1>4, <1>5

\* Before the first meeting, and after the third of a pass, no one is in a pass.
LEMMA NoneWithin ==
  ASSUME RunInv, NEW a \in Thread, pc[a] \in Early \cup {"reopen", "again"}, NEW u \in Thread
  PROVE  pc[u] \notin (First \ {"start"}) \cup {"compared"}
<1>1. Alone(a) /\ Alone(u) /\ Pair(u, a) /\ Pair(a, u)
  BY DEF RunInv
<1>2. met[a] \in Nat /\ met[u] \in Nat /\ pass[a] \in Nat /\ pass[u] \in Nat \ {0}
  BY DEF RunInv, TypeOK
<1>3. CASE pc[a] \in Early
  <2>1. met[a] = 0
    BY <1>1, <1>3 DEF Alone, Starting
  <2>2. ASSUME pc[u] \in First \ {"start"} PROVE FALSE
    <3>1. met[u] = 3 * pass[u] - 2 /\ met[a] >= met[u]
      BY <1>1, <2>2 DEF Alone, Counted, Pair, Met, Looping, First, Waiting
    <3>. QED  BY <1>2, <2>1, <3>1
  <2>3. ASSUME pc[u] = "compared" PROVE FALSE
    <3>1. met[u] = 3 * pass[u] - 1 /\ met[a] >= met[u] - 1
      BY <1>1, <2>3 DEF Alone, Counted, Pair, Met, Looping, Second, Waiting
    <3>. QED  BY <1>2, <2>1, <3>1
  <2>. QED  BY <2>2, <2>3
<1>4. CASE pc[a] \in {"reopen", "again"}
  <2>1. met[a] = 3 * pass[a] /\ met[u] >= met[a]
    BY <1>1, <1>4 DEF Alone, Counted, Pair, Met, Looping, Third, Waiting
  <2>2. ASSUME pc[u] \in First \ {"start"} PROVE FALSE
    <3>1. met[u] = 3 * pass[u] - 2 /\ met[a] >= met[u]
      BY <1>1, <2>2 DEF Alone, Counted, Pair, Met, Looping, First, Waiting
    <3>. QED  BY <1>2, <2>1, <3>1
  <2>3. ASSUME pc[u] = "compared" PROVE FALSE
    <3>1. met[u] = 3 * pass[u] - 1 /\ met[a] >= met[u] - 1
      BY <1>1, <2>3 DEF Alone, Counted, Pair, Met, Looping, Second, Waiting
    <3>. QED  BY <1>2, <2>1, <3>1
  <2>. QED  BY <2>2, <2>3
<1>. QED  BY <1>3, <1>4

-----------------------------------------------------------------------------
(* Steps that change what threads decide by, or what they have open *)

LEMMA IoKeeps ==
  ASSUME RunInv, NEW a \in Thread, Io(a)
  PROVE  RunInv'
<1>1. TypeOK /\ Alone(a) /\ Pair(a, a) /\ pass \in [Thread -> Nat \ {0}] /\ met[a] \in Nat
  BY DEF RunInv, TypeOK
<1>2. UNCHANGED <<option, abort, open, failed, party, pass, passes>> /\ pc[a] = "io"
  BY DEF Io, startup
<1>3. Moves(a, "io", "ran", 0, pass[a])
  BY <1>1, <1>2, MeetsPeersMoves DEF Io, Place, Looping, First
<1>4. TypeOK'
  <2>1. ring' \in BOOLEAN
    BY <1>1 DEF Io, TypeOK
  <2>. QED  BY <1>1, <1>2, <1>3, <2>1 DEF TypeOK, Moves
<1>5. Quietly(a)
  BY <1>2, NoneAhead DEF Quietly, Third
<1>. USE DEF Moves, Alone, Starting, Counted, Limited, Opened, Aborted, Ended, Stop,
    Pair, Met, AbortTogether, EndTogether, Combining, Early, First, Second, Third, Looping, Ending, Waiting
<1>6. Alone(a)' /\ Pair(a, a)'
  BY <1>1, <1>2, <1>3
<1>7. ASSUME NEW u \in Thread, u # a PROVE Pair(a, u)' /\ Pair(u, a)'
  <2>1. Pair(u, a) /\ Pair(a, u) /\ pc[u] \notin Third /\ ~Ended(u)
    <3>. HIDE DEF Third, Ended, Pair
    <3>. QED  BY <1>2, <1>7, NoneAhead DEF RunInv
  <2>2. Met(a, u)' /\ Met(u, a)'
    BY <1>1, <1>2, <1>3, <1>7, <2>1
  <2>6. Combining(a, u)' /\ Combining(u, a)'
    BY <1>2, <1>3, <1>7, <2>1
  <2>3. AbortTogether(a, u)' /\ AbortTogether(u, a)'
    BY <1>2, <1>3, <1>7, <2>1
  <2>4. EndTogether(a, u)'
    BY <1>2, <1>3
  <2>5. EndTogether(u, a)'
    <3>1. ~Ended(u)'
      BY <1>3, <1>7, <2>1
    <3>. QED  BY <1>3, <1>7, <2>1, <3>1
  <2>. QED  BY <2>2, <2>3, <2>4, <2>5, <2>6
<1>. QED
  <2>. HIDE DEF Moves, Alone, Pair
  <2>. QED  BY <1>2, <1>3, <1>4, <1>5, <1>6, <1>7, OthersKept

LEMMA GrowKeeps ==
  ASSUME RunInv, NEW a \in Thread, Grow(a)
  PROVE  RunInv'
<1>1. TypeOK /\ Alone(a) /\ Pair(a, a) /\ pass \in [Thread -> Nat \ {0}] /\ pass[a] \in Nat /\ passes \in Nat
      /\ met[a] \in Nat
  BY DEF RunInv, TypeOK
<1>2. UNCHANGED <<option, abort, open, failed, party, pass, ring>> /\ pc[a] = "grow"
      /\ passes' \in {pass[a] + 1, passes + 1}
  BY DEF Grow, startup
<1>3. Moves(a, "grow", "reopen", 0, pass[a])
  BY <1>1, <1>2, StaysMoves DEF Grow, Place, Looping, Third
<1>4. TypeOK'
  BY <1>1, <1>2, <1>3 DEF TypeOK, Moves
<1>5. ASSUME NEW u \in Thread, u # a
      PROVE  pass[u] <= passes' /\ (pc[u] \in {"reopen", "again"} => pass[u] < passes')
  <2>1. /\ Alone(u) /\ Pair(u, a) /\ Pair(a, u) /\ pass[u] \in Nat \ {0}
        /\ met[u] \in Nat /\ met[a] \in Nat /\ pc[u] \in Place
    BY DEF RunInv, TypeOK
  <2>2. option.runtime /\ pass[u] <= passes /\ (pc[u] \in {"reopen", "again"} => pass[u] < passes)
    BY <1>1, <1>2, <2>1 DEF Alone, Limited
  <2>3. CASE passes' = passes + 1
    BY <1>1, <2>1, <2>2, <2>3
  <2>4. CASE passes' = pass[a] + 1
    <3>1. met[a] = 3 * pass[a]
      BY <1>1, <1>2 DEF Alone, Counted, Third
    <3>2. CASE pc[u] \in {"reopen", "again"}
      <4>1. met[u] = 3 * pass[u] /\ met[a] >= met[u]
        BY <2>1, <3>2 DEF Alone, Counted, Pair, Met, Third, Looping, Waiting
      <4>. QED  BY <1>1, <2>1, <2>4, <3>1, <4>1
    <3>3. CASE pc[u] \in Looping \ {"reopen", "again"}
      <4>1. met[u] >= 3 * pass[u] - 2 /\ met[a] >= met[u] - 1
        BY <2>1, <3>3 DEF Alone, Counted, Pair, Met, First, Second, Third, Looping
      <4>. QED  BY <1>1, <2>1, <2>4, <3>1, <3>3, <4>1
    <3>4. CASE pc[u] \in Ending
      <4>1. Aborted(u) \/ Ended(u)
        BY <2>1, <3>4 DEF Alone, Counted
      <4>2. pass[a] = pass[u]
        BY <2>1, <4>1 DEF Pair, AbortTogether, EndTogether
      <4>3. pc[u] \notin {"reopen", "again"}
        BY <3>4 DEF Ending
      <4>. QED  BY <1>1, <2>1, <2>4, <4>2, <4>3
    <3>5. CASE pc[u] \in Early \cup {"gone"}
      <4>1. pass[u] = 1
        BY <1>2, <2>1, <3>5 DEF Alone, Starting
      <4>2. pc[u] \notin {"reopen", "again"}
        BY <3>5 DEF Early
      <4>. QED  BY <1>1, <2>4, <4>1, <4>2
    <3>. QED  BY <2>1, <3>2, <3>3, <3>4, <3>5 DEF Place
  <2>. QED  BY <1>2, <2>3, <2>4
<1>6. Quietly(a)
  <2>1. option.runtime
    BY <1>1, <1>2 DEF Alone, Limited
  <2>. QED  BY <1>2, <1>5, <2>1 DEF Quietly
<1>. USE DEF Moves, Alone, Starting, Counted, Limited, Opened, Aborted, Ended, Stop,
    Pair, Met, AbortTogether, EndTogether, Combining, Early, First, Second, Third, Looping, Ending, Waiting
<1>7. Alone(a)' /\ Pair(a, a)'
  <2>1. Limited(a)'
    BY <1>1, <1>2, <1>3
  <2>2. Starting(a)' /\ Counted(a)' /\ Opened(a)' /\ Pair(a, a)'
    BY <1>1, <1>2, <1>3
  <2>. QED  BY <2>1, <2>2
<1>8. ASSUME NEW u \in Thread, u # a PROVE Pair(a, u)' /\ Pair(u, a)'
  <2>1. Pair(u, a) /\ Pair(a, u) /\ option.runtime
    BY <1>1, <1>2 DEF RunInv
  <2>2. Met(a, u)' /\ Met(u, a)'
    BY <1>1, <1>2, <1>3, <1>8, <2>1
  <2>5. Combining(a, u)' /\ Combining(u, a)'
    BY <1>2, <1>3, <1>8, <2>1
  <2>3. AbortTogether(a, u)' /\ AbortTogether(u, a)'
    BY <1>2, <1>3, <1>8, <2>1
  <2>4. EndTogether(a, u)' /\ EndTogether(u, a)'
    BY <1>2, <1>3, <1>8, <2>1
  <2>. QED  BY <2>2, <2>3, <2>4, <2>5
<1>. QED
  <2>. HIDE DEF Moves, Alone, Pair
  <2>. QED  BY <1>2, <1>3, <1>4, <1>6, <1>7, <1>8, OthersKept

LEMMA ReopenKeeps ==
  ASSUME RunInv, NEW a \in Thread, Reopen(a)
  PROVE  RunInv'
<1>1. TypeOK /\ Alone(a) /\ Pair(a, a) /\ pass \in [Thread -> Nat \ {0}] /\ met[a] \in Nat
  BY DEF RunInv, TypeOK
<1>2. /\ UNCHANGED <<option, ring, failed, party, pass, passes>> /\ pc[a] = "reopen"
      /\ open' \in [Thread -> BOOLEAN] /\ abort' \in BOOLEAN /\ (abort' = abort \/ abort')
      /\ \A u \in Thread : u # a => open'[u] = open[u]
      /\ open'[a] \/ abort' \/ pass[a] >= passes
  <2>1. /\ UNCHANGED <<option, ring, failed, party, pass, passes>> /\ pc[a] = "reopen"
    BY DEF Reopen, startup
  <2>2. open[a] /\ pass[a] \in Nat /\ passes \in Nat
    BY <1>1, <2>1 DEF Alone, Opened, Looping, Third, TypeOK
  <2>3. CASE ~(option.reopen /\ a[2] = 0)
    BY <1>1, <2>1, <2>2, <2>3 DEF Reopen, TypeOK
  <2>4. CASE option.reopen /\ a[2] = 0 /\ pass[a] = passes
    <3>1. open' = [open EXCEPT ![a] = FALSE] /\ abort' = abort
      BY <2>4 DEF Reopen
    <3>2. pass[a] >= passes
      BY <2>2, <2>4
    <3>. QED  BY <1>1, <2>1, <3>1, <3>2 DEF TypeOK
  <2>5. CASE option.reopen /\ a[2] = 0 /\ pass[a] # passes
    <3>1. PICK opens \in BOOLEAN : open' = [open EXCEPT ![a] = opens] /\ abort' = (abort \/ ~opens)
      BY <2>5 DEF Reopen
    <3>2. open'[a] = opens
      BY <1>1, <3>1 DEF TypeOK
    <3>3. abort' \in BOOLEAN /\ (abort' = abort \/ abort') /\ (opens \/ abort')
      BY <1>1, <3>1 DEF TypeOK
    <3>4. open' \in [Thread -> BOOLEAN] /\ \A u \in Thread : u # a => open'[u] = open[u]
      BY <1>1, <3>1 DEF TypeOK
    <3>. QED  BY <2>1, <3>2, <3>3, <3>4
  <2>. QED  BY <2>3, <2>4, <2>5
<1>3. Moves(a, "reopen", "again", 0, pass[a])
  BY <1>1, <1>2, StaysMoves DEF Reopen, Place, Looping, Third
<1>4. TypeOK'
  BY <1>1, <1>2, <1>3 DEF TypeOK, Moves
<1>5. Quietly(a)
  <2>1. abort' = abort \/ abort' = TRUE
    BY <1>1, <1>2 DEF TypeOK
  <2>. QED  BY <1>2, <2>1, NoneWithin DEF Quietly
<1>. USE DEF Moves, Alone, Starting, Counted, Limited, Opened, Aborted, Ended, Stop,
    Pair, Met, AbortTogether, EndTogether, Combining, Early, First, Second, Third, Looping, Ending, Waiting
<1>6. Alone(a)' /\ Pair(a, a)'
  BY <1>1, <1>2, <1>3
<1>7. ASSUME NEW u \in Thread, u # a PROVE Pair(a, u)' /\ Pair(u, a)'
  <2>1. /\ Pair(u, a) /\ Pair(a, u)
        /\ pc[u] \notin (First \ {"start"}) \cup {"compared"}
    <3>. HIDE DEF First, Pair
    <3>. QED  BY <1>2, NoneWithin DEF RunInv
  <2>2. Met(a, u)' /\ Met(u, a)'
    BY <1>1, <1>2, <1>3, <1>7, <2>1
  <2>3. Combining(a, u)' /\ Combining(u, a)'
    BY <1>2, <1>3, <1>7, <2>1
  <2>4. AbortTogether(a, u)' /\ AbortTogether(u, a)'
    BY <1>2, <1>3, <1>7, <2>1
  <2>5. EndTogether(a, u)' /\ EndTogether(u, a)'
    BY <1>2, <1>3, <1>7, <2>1
  <2>. QED  BY <2>2, <2>3, <2>4, <2>5
<1>. QED
  <2>. HIDE DEF Moves, Alone, Pair
  <2>. QED  BY <1>2, <1>3, <1>4, <1>5, <1>6, <1>7, OthersKept

\* The next pass begins.
LEMMA NextKeeps ==
  ASSUME RunInv, NEW a \in Thread, Again(a), pass[a] < passes
  PROVE  RunInv'
<1>1. /\ TypeOK /\ Alone(a) /\ Pair(a, a) /\ pass \in [Thread -> Nat \ {0}] /\ met[a] \in Nat
      /\ pass[a] \in Nat /\ passes \in Nat
  BY DEF RunInv, TypeOK
<1>2. UNCHANGED <<option, abort, ring, passes, open, failed, party>> /\ pc[a] = "again"
  BY DEF Again, startup
<1>3. Moves(a, "again", "start", 1, pass[a] + 1)
  <2>1. Meets(a, "start") /\ pass' = [pass EXCEPT ![a] = @ + 1]
    BY DEF Again
  <2>. QED  BY <1>1, <1>2, <2>1 DEF Meets, Goes, Moves, TypeOK, Place, Looping, First
<1>4. TypeOK'
  BY <1>1, <1>2, <1>3 DEF TypeOK, Moves
<1>5. Quietly(a)
  BY <1>2 DEF Quietly
<1>. USE DEF Moves, Alone, Starting, Counted, Limited, Opened, Aborted, Ended, Stop,
    Pair, Met, AbortTogether, EndTogether, Combining, Early, First, Second, Third, Looping, Ending, Waiting
<1>6. Alone(a)' /\ Pair(a, a)'
  BY <1>1, <1>2, <1>3
<1>7. ASSUME NEW u \in Thread, u # a PROVE Pair(a, u)' /\ Pair(u, a)'
  <2>1. /\ Pair(u, a) /\ Pair(a, u) /\ met[u] \in Nat
        /\ pc[u] \notin (First \ {"start"}) \cup {"compared"}
    <3>1. met[u] \in Nat
      BY DEF RunInv, TypeOK
    <3>. HIDE DEF First, Pair
    <3>. QED  BY <1>2, <3>1, NoneWithin DEF RunInv
  <2>2. Met(a, u)' /\ Met(u, a)'
    BY <1>1, <1>2, <1>3, <1>7, <2>1
  <2>3. Combining(a, u)' /\ Combining(u, a)'
    BY <1>2, <1>3, <1>7, <2>1
  <2>4. AbortTogether(a, u)' /\ AbortTogether(u, a)'
    BY <1>2, <1>3, <1>7, <2>1
  <2>5. EndTogether(a, u)' /\ EndTogether(u, a)'
    BY <1>1, <1>2, <1>3, <1>7, <2>1
  <2>. QED  BY <2>2, <2>3, <2>4, <2>5
<1>. QED
  <2>. HIDE DEF Moves, Alone, Pair
  <2>. QED  BY <1>2, <1>3, <1>4, <1>5, <1>6, <1>7, OthersKept

\* A thread that is complete looks at nothing any more.
LEMMA CompleteKeeps ==
  ASSUME RunInv, NEW a \in Thread, PreFinal(a) \/ Combine(a)
  PROVE  RunInv'
<1>. DEFINE x == IF pc[a] = "prefinal" /\ a = T0Q0 THEN "combine" ELSE "final"
<1>1. /\ TypeOK /\ Alone(a) /\ Pair(a, a) /\ pass \in [Thread -> Nat \ {0}] /\ met[a] \in Nat
  BY DEF RunInv, TypeOK
<1>2. /\ UNCHANGED <<option, abort, ring, passes, failed, party, pass>>
      /\ pc[a] \in {"prefinal", "combine"} /\ Stays(a, x)
      /\ open' \in [Thread -> BOOLEAN] /\ \A u \in Thread : u # a => open'[u] = open[u]
      /\ x = "combine" => a = T0Q0 /\ Complete = Thread
  <2>1. CASE PreFinal(a)
    <3>1. /\ UNCHANGED <<option, abort, ring, passes, failed, party, pass>>
          /\ pc[a] = "prefinal" /\ Stays(a, x) /\ Complete = Thread
      BY <2>1 DEF PreFinal, startup
    <3>2. open' \in [Thread -> BOOLEAN] /\ \A u \in Thread : u # a => open'[u] = open[u]
      BY <1>1, <2>1 DEF PreFinal, TypeOK
    <3>. QED  BY <3>1, <3>2
  <2>2. CASE Combine(a)
    <3>1. /\ UNCHANGED <<option, abort, ring, passes, failed, party, pass>>
          /\ pc[a] = "combine" /\ Stays(a, x)
      BY <2>2 DEF Combine, startup
    <3>2. open' \in [Thread -> BOOLEAN] /\ \A u \in Thread : u # a => open'[u] = open[u]
      BY <1>1, <2>2 DEF Combine, TypeOK
    <3>. QED  BY <3>1, <3>2
  <2>. QED  BY <2>1, <2>2
<1>3. x \in {"combine", "final"}
  OBVIOUS
<1>. HIDE DEF x
<1>4. Moves(a, pc[a], x, 0, pass[a])
  BY <1>1, <1>2, <1>3, StaysMoves DEF Place, Ending
<1>5. TypeOK'
  BY <1>1, <1>2, <1>4 DEF TypeOK, Moves
<1>6. Quietly(a)
  BY <1>2 DEF Quietly
<1>. USE DEF Moves, Alone, Starting, Counted, Limited, Opened, Aborted, Ended, Stop,
    Pair, Met, AbortTogether, EndTogether, Combining, Early, First, Second, Third, Looping, Ending, Waiting
<1>7. Alone(a)' /\ Pair(a, a)'
  BY <1>1, <1>2, <1>3, <1>4
<1>8. ASSUME NEW u \in Thread, u # a PROVE Pair(a, u)' /\ Pair(u, a)'
  <2>1. Pair(u, a) /\ Pair(a, u) /\ met[u] \in Nat
    BY DEF RunInv, TypeOK
  <2>2. Met(a, u)' /\ Met(u, a)'
    BY <1>1, <1>2, <1>3, <1>4, <1>8, <2>1
  <2>3. Combining(a, u)' /\ Combining(u, a)'
    BY <1>2, <1>3, <1>4, <1>8, <2>1 DEF Complete
  <2>4. AbortTogether(a, u)' /\ AbortTogether(u, a)'
    BY <1>1, <1>2, <1>3, <1>4, <1>8, <2>1
  <2>5. EndTogether(a, u)' /\ EndTogether(u, a)'
    BY <1>1, <1>2, <1>3, <1>4, <1>8, <2>1
  <2>. QED  BY <2>2, <2>3, <2>4, <2>5
<1>. QED
  <2>1. pc[a] # "gone"
    BY <1>2
  <2>. HIDE DEF Moves, Alone, Pair
  <2>. QED  BY <1>2, <1>4, <1>5, <1>6, <1>7, <1>8, <2>1, OthersKept

-----------------------------------------------------------------------------
(* Starting *)

\* A thread that has met no one goes on; to the first meeting, or not yet, or never.
LEMMA StartingKeeps ==
  ASSUME RunInv, TypeOK', NEW a \in Thread, NEW x \in {"init", "serial", "start", "gone"}, pc[a] \in Early,
         Moves(a, pc[a], x, IF x = "start" THEN 1 ELSE 0, pass[a]),
         UNCHANGED <<option, ring, passes>>, abort' = abort \/ abort' = TRUE,
         \A u \in Thread : u # a => open'[u] = open[u] /\ failed'[u] = failed[u] /\ party'[u] = party[u],
         party'[a] # "out" => x = "serial",
         x = "serial" => failed'[a] # "no" \/ open'[a],
         x = "start" => open'[a]
  PROVE  RunInv'
<1>1. /\ TypeOK /\ Alone(a) /\ Pair(a, a) /\ pass \in [Thread -> Nat \ {0}] /\ met[a] \in Nat
      /\ met[a] = 0 /\ pass[a] = 1 /\ pass'[a] = 1 /\ passes \in Nat
  BY DEF RunInv, TypeOK, Alone, Starting, Moves
<1>2. Quietly(a)
  BY NoneWithin DEF Quietly, EndTogether, RunInv, Pair
<1>. USE DEF Moves, Alone, Starting, Counted, Limited, Opened, Aborted, Ended, Stop,
    Pair, Met, AbortTogether, EndTogether, Combining, Early, First, Second, Third, Looping, Ending, Waiting
<1>3. Starting(a)' /\ Limited(a)' /\ Opened(a)'
  BY <1>1
<1>4. Counted(a)' /\ Pair(a, a)'
  BY <1>1
<1>5. ASSUME NEW u \in Thread, u # a PROVE Pair(a, u)' /\ Pair(u, a)'
  <2>1. /\ Pair(u, a) /\ Pair(a, u) /\ met[u] \in Nat /\ Counted(u)
        /\ pc[u] \notin (First \ {"start"}) \cup {"compared"} /\ pass[u] \in Nat \ {0}
    <3>1. met[u] \in Nat /\ pass[u] \in Nat \ {0}
      BY DEF RunInv, TypeOK
    <3>. HIDE DEF First, Pair, Counted, Early
    <3>. QED  BY <3>1, NoneWithin DEF RunInv
  <2>6. pc[u] \notin {"shown", "settle"}
    BY <1>1, <2>1
  <2>2. Met(a, u)' /\ Met(u, a)'
    BY <1>1, <1>5, <2>1
  <2>3. Combining(a, u)' /\ Combining(u, a)'
    BY <1>5, <2>1
  <2>4. AbortTogether(a, u)' /\ AbortTogether(u, a)'
    BY <1>1, <1>5, <2>1
  <2>5. EndTogether(a, u)' /\ EndTogether(u, a)'
    BY <1>1, <1>5, <2>1, <2>6
  <2>. QED  BY <2>2, <2>3, <2>4, <2>5
<1>. QED
  <2>1. pc[a] # "gone"
    OBVIOUS
  <2>. HIDE DEF Moves, Starting, Limited, Opened, Counted, Pair
  <2>. QED  BY <1>2, <1>3, <1>4, <1>5, <2>1, OthersKept

\* Steps of main, or at a serializer barrier, that no thread goes on by.
LEMMA NoOneMoves ==
  ASSUME RunInv, UNCHANGED <<option, pc, failed, abort, open, passes, pass, ring, met>>,
         party' \in [Thread \cup {Main} -> {"out", "count", "post", "wait"}],
         \A t \in Thread : party'[t] # "out" => party[t] # "out"
  PROVE  RunInv'
<1>1. TypeOK'
  BY DEF RunInv, TypeOK
<1>2. ASSUME NEW t \in Thread PROVE Alone(t)'
  <2>1. Alone(t)
    BY DEF RunInv
  <2>2. Starting(t)'
    BY <2>1 DEF Alone, Starting
  <2>. QED  BY <2>1, <2>2 DEF Alone, Counted, Limited, Opened, Aborted, Ended, Stop
<1>3. ASSUME NEW t \in Thread, NEW u \in Thread PROVE Pair(t, u)'
  <2>1. Pair(t, u)
    BY DEF RunInv
  <2>. QED  BY <2>1 DEF Pair, Met, AbortTogether, EndTogether, Combining, Aborted, Ended, Stop
<1>. QED  BY <1>1, <1>2, <1>3 DEF RunInv

LEMMA CountsKeeps ==
  ASSUME RunInv, NEW p \in Thread \cup {Main}, Counts(p)
  PROVE  RunInv'
<1>1. party \in [Thread \cup {Main} -> {"out", "count", "post", "wait"}]
  BY DEF RunInv, TypeOK
<1>2. PICK y \in {"post", "wait"} : party' = [party EXCEPT ![p] = y]
  BY DEF Counts
<1>3. party[p] = "count" /\ UNCHANGED <<option, pc, failed, abort, open, passes, pass, ring, met>>
  BY DEF Counts
<1>4. party' \in [Thread \cup {Main} -> {"out", "count", "post", "wait"}]
  BY <1>1, <1>2
<1>5. \A t \in Thread : party'[t] # "out" => party[t] # "out"
  BY <1>1, <1>2, <1>3
<1>. QED  BY <1>3, <1>4, <1>5, NoOneMoves

LEMMA MainReleasedKeeps ==
  ASSUME RunInv, MainReleased
  PROVE  RunInv'
<1>1. party \in [Thread \cup {Main} -> {"out", "count", "post", "wait"}]
  BY DEF RunInv, TypeOK
<1>2. party' = [party EXCEPT ![Main] = "out"]
      /\ UNCHANGED <<option, pc, failed, abort, open, passes, pass, ring, met>>
  BY DEF MainReleased, SemOp
<1>3. party' \in [Thread \cup {Main} -> {"out", "count", "post", "wait"}]
  BY <1>1, <1>2
<1>4. \A t \in Thread : party'[t] # "out" => party[t] # "out"
  BY <1>1, <1>2, MainIsNoThread
<1>. QED  BY <1>2, <1>3, <1>4, NoOneMoves

LEMMA MainCreatesKeeps ==
  ASSUME RunInv, MainCreates
  PROVE  RunInv'
<1>. DEFINE a == Created
<1>1. /\ TypeOK /\ party \in [Thread \cup {Main} -> {"out", "count", "post", "wait"}]
      /\ pass \in [Thread -> Nat \ {0}] /\ met \in [Thread -> Nat] /\ pc \in [Thread -> Place]
  BY DEF RunInv, TypeOK
<1>2. /\ UNCHANGED <<option, failed, abort, open, passes, pass, ring, met>>
      /\ pc[a] = "none" /\ pc' = [pc EXCEPT ![a] = "init"]
      /\ party' = [party EXCEPT ![Main] = "count"]
  BY DEF MainCreates, Goes
<1>. HIDE DEF a
<1>3. party' \in [Thread \cup {Main} -> {"out", "count", "post", "wait"}]
      /\ \A t \in Thread : party'[t] = party[t]
  BY <1>1, <1>2, MainIsNoThread
<1>4. CASE a \notin Thread
  <2>1. pc' = pc
    BY <1>1, <1>2, <1>4
  <2>. QED  BY <1>2, <1>3, <2>1, NoOneMoves
<1>5. CASE a \in Thread
  <2>1. Moves(a, "none", "init", 0, pass[a])
    BY <1>1, <1>2, <1>5 DEF Moves, Place, Early
  <2>2. TypeOK'
    BY <1>1, <1>2, <1>3, <2>1 DEF TypeOK, Moves
  <2>3. party'[a] = "out"
    BY <1>2, <1>3, <1>5 DEF RunInv, Alone, Starting
  <2>. QED  BY <1>1, <1>2, <1>3, <1>5, <2>1, <2>2, <2>3, StartingKeeps DEF Early
<1>. QED  BY <1>4, <1>5

LEMMA InitKeeps ==
  ASSUME RunInv, NEW a \in Thread, InitEnds(a) \/ InitFails(a) \/ InitDies(a)
  PROVE  RunInv'
<1>1. /\ TypeOK /\ party \in [Thread \cup {Main} -> {"out", "count", "post", "wait"}]
      /\ open \in [Thread -> BOOLEAN] /\ failed \in [Thread -> {"no", "told", "silent"}]
  BY DEF RunInv, TypeOK
<1>2. pc[a] = "init" /\ UNCHANGED <<option, ring, passes, pass>> /\ pass[a] = pass[a]
  BY DEF InitEnds, InitFails, InitDies
<1>3. abort' \in BOOLEAN /\ (abort' = abort \/ abort' = TRUE)
  BY <1>1 DEF InitEnds, InitFails, InitDies, TypeOK
<1>4. PICK x \in {"serial", "gone"} :
        /\ Stays(a, x)
        /\ party' = [party EXCEPT ![a] = IF x = "serial" THEN "count" ELSE @]
        /\ x = "serial" => \/ open' = [open EXCEPT ![a] = TRUE] /\ failed' = failed
                           \/ open' = open /\ failed' = [failed EXCEPT ![a] = "told"]
        /\ x = "gone" => open' = open /\ failed' = [failed EXCEPT ![a] = "silent"]
  <2>1. CASE InitEnds(a)
    BY <2>1 DEF InitEnds
  <2>2. CASE InitFails(a)
    BY <2>2 DEF InitFails
  <2>3. CASE InitDies(a)
    <3>1. party' = [party EXCEPT ![a] = @]
      BY <1>1, <2>3 DEF InitDies
    <3>. QED  BY <2>3, <3>1 DEF InitDies
  <2>. QED  BY <2>1, <2>2, <2>3
<1>5. Moves(a, "init", x, 0, pass[a])
  BY <1>1, <1>2, <1>4, StaysMoves DEF Place, Early
<1>6. /\ open' \in [Thread -> BOOLEAN] /\ failed' \in [Thread -> {"no", "told", "silent"}]
      /\ party' \in [Thread \cup {Main} -> {"out", "count", "post", "wait"}]
      /\ \A u \in Thread : u # a => open'[u] = open[u] /\ failed'[u] = failed[u] /\ party'[u] = party[u]
  <2>1. open' \in [Thread -> BOOLEAN] /\ \A u \in Thread : u # a => open'[u] = open[u]
    BY <1>1, <1>4
  <2>2. failed' \in [Thread -> {"no", "told", "silent"}]
        /\ \A u \in Thread : u # a => failed'[u] = failed[u]
    BY <1>1, <1>4
  <2>3. party' \in [Thread \cup {Main} -> {"out", "count", "post", "wait"}]
        /\ \A u \in Thread : u # a => party'[u] = party[u]
    BY <1>1, <1>4
  <2>. QED  BY <2>1, <2>2, <2>3
<1>7. TypeOK'
  BY <1>1, <1>2, <1>3, <1>5, <1>6 DEF TypeOK, Moves
<1>8. party[a] = "out"
  BY <1>2 DEF RunInv, Alone, Starting
<1>9. party'[a] # "out" => x = "serial"
  BY <1>1, <1>4, <1>8
<1>10. x = "serial" => failed'[a] # "no" \/ open'[a]
  BY <1>1, <1>4
<1>11. x # "start" /\ Moves(a, pc[a], x, IF x = "start" THEN 1 ELSE 0, pass[a])
  BY <1>2, <1>5
<1>. QED
  BY <1>2, <1>3, <1>6, <1>7, <1>9, <1>10, <1>11, StartingKeeps DEF Early

LEMMA ThreadReleasedKeeps ==
  ASSUME RunInv, NEW a \in Thread, ThreadReleased(a)
  PROVE  RunInv'
<1>1. /\ TypeOK /\ Alone(a) /\ party \in [Thread \cup {Main} -> {"out", "count", "post", "wait"}]
      /\ open \in [Thread -> BOOLEAN] /\ failed \in [Thread -> {"no", "told", "silent"}]
  BY DEF RunInv, TypeOK
<1>2. UNCHANGED <<option, failed, abort, open, passes, pass, ring>>
      /\ party' = [party EXCEPT ![a] = "out"] /\ pc[a] = "serial"
  BY <1>1 DEF ThreadReleased, SemOp, Alone, Starting
<1>3. party' \in [Thread \cup {Main} -> {"out", "count", "post", "wait"}]
      /\ party'[a] = "out" /\ \A u \in Thread : u # a => party'[u] = party[u]
  BY <1>1, <1>2
<1>4. CASE failed[a] = "no"
  <2>1. Moves(a, "serial", "start", 1, pass[a])
    BY <1>1, <1>2, <1>4, MeetsMoves DEF ThreadReleased, Place, Looping, First
  <2>2. TypeOK'
    BY <1>1, <1>2, <1>3, <2>1 DEF TypeOK, Moves
  <2>3. open'[a]
    BY <1>1, <1>2, <1>4 DEF Alone, Opened
  <2>. QED  BY <1>1, <1>2, <1>3, <2>1, <2>2, <2>3, StartingKeeps DEF Early
<1>5. CASE failed[a] # "no"
  <2>1. Moves(a, "serial", "gone", 0, pass[a])
    BY <1>1, <1>2, <1>5, StaysMoves DEF ThreadReleased, Place
  <2>2. TypeOK'
    BY <1>1, <1>2, <1>3, <2>1 DEF TypeOK, Moves
  <2>. QED  BY <1>1, <1>2, <1>3, <2>1, <2>2, StartingKeeps DEF Early
<1>. QED  BY <1>4, <1>5

LEMMA MainChecksKeeps ==
  ASSUME RunInv, MainChecks
  PROVE  RunInv'
<1>1. UNCHANGED <<option, failed, abort, open, passes, pass, ring, met>>
  BY DEF MainChecks
<1>2. CASE pc' = pc /\ party' = party
  BY <1>1, <1>2, NoOneMoves DEF RunInv, TypeOK
<1>3. CASE pc' = [t \in Thread |-> "gone"] /\ party' = [p \in Thread \cup {Main} |-> "out"]
  <2>1. TypeOK'
    BY <1>1, <1>3 DEF RunInv, TypeOK, Place
  <2>2. \A t \in Thread : pc'[t] = "gone" /\ party'[t] = "out" /\ pass'[t] = pass[t] /\ passes' = passes
    BY <1>1, <1>3
  <2>3. ASSUME NEW t \in Thread PROVE Alone(t)'
    <3>1. pass[t] <= passes
      BY DEF RunInv, Alone, Limited
    <3>2. Starting(t)'
      BY <2>2 DEF Starting, Early
    <3>. QED
      BY <2>2, <3>1, <3>2 DEF Alone, Counted, Limited, Opened, Aborted, Ended, Looping, First, Second,
        Third, Ending
  <2>4. ASSUME NEW t \in Thread, NEW u \in Thread PROVE Pair(t, u)'
    BY <2>2 DEF Pair, Met, AbortTogether, EndTogether, Combining, Aborted, Ended, Looping, First,
      Second, Third, Ending
  <2>. QED  BY <2>1, <2>3, <2>4 DEF RunInv
<1>. QED  BY <1>2, <1>3 DEF MainChecks

-----------------------------------------------------------------------------
(* The theorems *)

LEMMA RunInvInit == Init => RunInv
<1>. SUFFICES ASSUME Init PROVE RunInv
  OBVIOUS
<1>1. TypeOK
  <2>1. /\ option \in [runtime : BOOLEAN, reopen : BOOLEAN]
        /\ party \in [Thread \cup {Main} -> {"out", "count", "post", "wait"}]
        /\ abort \in BOOLEAN /\ ring \in BOOLEAN /\ open \in [Thread -> BOOLEAN]
        /\ failed \in [Thread -> {"no", "told", "silent"}]
    BY DEF Init
  <2>2. pc \in [Thread -> Place]
    BY DEF Init, Place, Early
  <2>3. passes \in Nat /\ pass \in [Thread -> Nat \ {0}] /\ met \in [Thread -> Nat]
    BY RunAssumption DEF Init
  <2>. QED  BY <2>1, <2>2, <2>3 DEF TypeOK
<1>2. \A t \in Thread : pc[t] = "none" /\ met[t] = 0 /\ pass[t] = 1 /\ party[t] = "out" /\ passes = Passes
  BY DEF Init
<1>3. ASSUME NEW t \in Thread PROVE Alone(t)
  BY <1>2, RunAssumption DEF Alone, Starting, Counted, Limited, Opened, Aborted, Ended, Early, Looping,
    First, Second, Third, Ending
<1>4. ASSUME NEW t \in Thread, NEW u \in Thread PROVE Pair(t, u)
  BY <1>2 DEF Pair, Met, AbortTogether, EndTogether, Combining, Aborted, Ended, Looping, First,
    Second, Third, Ending
<1>. QED  BY <1>1, <1>3, <1>4 DEF RunInv

LEMMA RunInvStep == RunInv /\ [Next]_vars => RunInv'
<1>. SUFFICES ASSUME RunInv, [Next]_vars PROVE RunInv'
  OBVIOUS
<1>1. ASSUME NEW a \in Thread, Runs(a) PROVE RunInv'
  <2>1. CASE Along(a)
    BY <1>1, <2>1, AlongKeeps
  <2>2. CASE Again(a) /\ pass[a] < passes
    BY <1>1, <2>2, NextKeeps
  <2>3. CASE Io(a) \/ Grow(a) \/ Reopen(a)
    BY <1>1, <2>3, IoKeeps, GrowKeeps, ReopenKeeps
  <2>4. CASE PreFinal(a) \/ Combine(a)
    BY <1>1, <2>4, CompleteKeeps
  <2>5. CASE InitEnds(a) \/ InitFails(a) \/ InitDies(a)
    BY <1>1, <2>5, InitKeeps
  <2>6. CASE Counts(a) \/ ThreadReleased(a)
    BY <1>1, <2>6, CountsKeeps, ThreadReleasedKeeps
  <2>. QED  BY <1>1, <2>1, <2>2, <2>3, <2>4, <2>5, <2>6 DEF Runs, Along
<1>2. ASSUME MainRuns PROVE RunInv'
  <2>1. CASE MainEnds
    BY <2>1, NoOneMoves DEF MainEnds, RunInv, TypeOK
  <2>. QED
    BY <1>2, <2>1, CountsKeeps, MainCreatesKeeps, MainReleasedKeeps, MainChecksKeeps DEF MainRuns
<1>3. ASSUME UNCHANGED vars PROVE RunInv'
  BY <1>3, NoOneMoves DEF vars, startup, RunInv, TypeOK
<1>. QED  BY <1>1, <1>2, <1>3 DEF Next

LEMMA RunInvHolds == Spec => []RunInv
BY RunInvInit, RunInvStep, PTL DEF Spec

LEMMA FirstIsThread == T0Q0 \in Thread
<1>1. 1 \in Target /\ Depths[1] \in Nat \ {0}
  BY RunAssumption DEF Target
<1>2. 0 \in 0..(Depths[1] - 1)
  BY <1>1
<1>. QED  BY <1>1, <1>2 DEF Thread, T0Q0

\* For any targets, queue depths and passes: while the first thread shows what all have
\* measured, averages it or combines it, every other thread waits for it.
THEOREM ResultsAreQuiet == Spec => []ResultsQuiet
<1>1. RunInv => ResultsQuiet
  <2>. SUFFICES ASSUME RunInv, NEW u \in Thread, u # T0Q0
               PROVE  CASE pc[T0Q0] = "show" -> pc[u] \in {"compared", "shown"}
                        [] pc[T0Q0] = "average" -> pc[u] \in {"total", "averaged"}
                        [] pc[T0Q0] = "combine" -> pc[u] \in {"prefinal", "final"}
                        [] OTHER -> TRUE
    BY DEF ResultsQuiet
  <2>. DEFINE t == T0Q0
  <2>0. t \in Thread
    BY FirstIsThread
  <2>. HIDE DEF t
  <2>1. /\ Alone(t) /\ Alone(u) /\ Pair(t, u) /\ Pair(u, t) /\ pc[u] \in Place
        /\ met[t] \in Nat /\ met[u] \in Nat /\ pass[t] \in Nat /\ pass[u] \in Nat \ {0}
    BY <2>0 DEF RunInv, TypeOK
  <2>. USE DEF Alone, Starting, Counted, Aborted, Ended, Stop, Pair, Met, AbortTogether, EndTogether,
         Combining, Early, First, Second, Third, Looping, Ending, Waiting, Place
  <2>2. ASSUME pc[t] = "show" PROVE pc[u] \in {"compared", "shown"}
    <3>1. met[t] = 3 * pass[t] - 1 /\ met[u] >= met[t] /\ met[t] > 0
      BY <2>1, <2>2
    <3>2. pc[u] \notin Early \cup {"gone"}
      BY <2>0, <2>1, <2>2, <3>1
    <3>3. pc[u] \notin First
      <4>1. pc[u] \in First => met[u] = 3 * pass[u] - 2 /\ met[t] >= met[u] - 1
        BY <2>1
      <4>. QED  BY <2>1, <3>1, <4>1
    <3>4. pc[u] \notin {"settle", "grow", "reopen", "again"}
      <4>1. pc[u] \in {"settle", "grow", "reopen", "again"} => met[u] = 3 * pass[u] /\ met[t] >= met[u]
        BY <2>1
      <4>. QED  BY <2>1, <3>1, <4>1
    <3>5. pc[u] \notin Ending
      BY <2>1, <2>2, <3>1
    <3>6. pc[u] # "show"
      BY <2>0, <2>1 DEF t
    <3>. QED  BY <2>1, <3>2, <3>3, <3>4, <3>5, <3>6
  <2>3. ASSUME pc[t] = "average" PROVE pc[u] \in {"total", "averaged"}
    <3>1. pass[u] = pass[t] /\ met[u] >= met[t]
      BY <2>1, <2>3
    <3>2. CASE Aborted(t)
      <4>1. met[t] = 3 * pass[t] - 1
        BY <2>1, <2>3, <3>2
      <4>2. pc[u] # "start" /\ Aborted(u)
        BY <2>1, <2>3, <3>1, <3>2, <4>1
      <4>3. pc[u] # "average"
        BY <2>0, <2>1 DEF t
      <4>. QED  BY <2>1, <2>3, <3>1, <4>1, <4>2, <4>3
    <3>3. CASE Ended(t)
      <4>1. met[t] = 3 * pass[t] + 1
        BY <2>1, <2>3, <3>3
      <4>2. pc[u] \notin Third /\ Ended(u)
        BY <2>1, <2>3, <3>1, <3>3, <4>1
      <4>3. pc[u] # "average"
        BY <2>0, <2>1 DEF t
      <4>. QED  BY <2>1, <2>3, <3>1, <4>1, <4>2, <4>3
    <3>. QED  BY <2>1, <2>3, <3>2, <3>3
  <2>4. ASSUME pc[t] = "combine" PROVE pc[u] \in {"prefinal", "final"}
    <3>1. pc[u] # "combine"
      BY <2>0, <2>1 DEF t
    <3>. QED  BY <2>1, <2>4, <3>1
  <2>. QED  BY <2>2, <2>3, <2>4 DEF t
<1>. QED  BY <1>1, RunInvHolds, PTL

\* For any targets, queue depths and passes: no thread does I/O in another pass than the
\* others, though the passes of a run by time are counted up without a lock.
THEOREM PassesKeepInStep == Spec => []PassesInStep
<1>1. RunInv => PassesInStep
  <2>. SUFFICES ASSUME RunInv, NEW t \in Thread, NEW u \in Thread, pc[t] = "io"
               PROVE  pass[u] = pass[t]
    BY DEF PassesInStep
  <2>1. /\ Alone(t) /\ Alone(u) /\ Pair(t, u) /\ Pair(u, t) /\ pc[u] \in Place
        /\ met[t] \in Nat /\ met[u] \in Nat /\ pass[t] \in Nat \ {0} /\ pass[u] \in Nat \ {0}
    BY DEF RunInv, TypeOK
  <2>2. met[t] = 3 * pass[t] - 2 /\ met[u] >= met[t] /\ met[t] > 0
    BY <2>1 DEF Alone, Counted, Pair, Met, Looping, First, Waiting
  <2>3. CASE u = t
    BY <2>3
  <2>4. CASE pc[u] \in First
    <3>1. met[u] = 3 * pass[u] - 2 /\ met[t] >= met[u] - 1
      BY <2>1, <2>4 DEF Alone, Counted, Pair, Met, Looping
    <3>. QED  BY <2>1, <2>2, <3>1
  <2>5. CASE pc[u] \in Second
    <3>1. met[u] = 3 * pass[u] - 1 /\ met[t] >= met[u] - 1
      BY <2>1, <2>5 DEF Alone, Counted, Pair, Met, Looping
    <3>. QED  BY <2>1, <2>2, <3>1
  <2>6. pc[u] \notin Early \cup {"gone"}
    BY <2>1, <2>2 DEF Alone, Starting
  <2>7. CASE u # t /\ pc[u] \in Third \cup Ending
    <3>1. pc[u] \in Ending /\ ~Ended(u)
      BY <2>7, NoneAhead
    <3>2. Aborted(u)
      BY <2>1, <3>1 DEF Alone, Counted
    <3>. QED  BY <2>1, <3>2 DEF Pair, AbortTogether, Aborted, Ending
  <2>. QED  BY <2>1, <2>3, <2>4, <2>5, <2>6, <2>7 DEF Place, Looping
<1>. QED  BY <1>1, RunInvHolds, PTL

\* For any targets, queue depths and passes: the target a thread does I/O on is open.
THEOREM TargetsAreOpen == Spec => []IoOnOpenTarget
<1>1. RunInv => IoOnOpenTarget
  BY DEF RunInv, Alone, Opened, IoOnOpenTarget, Looping, First
<1>. QED  BY <1>1, RunInvHolds, PTL
=============================================================================
