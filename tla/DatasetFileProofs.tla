-------------------------- MODULE DatasetFileProofs --------------------------
(***************************************************************************)
(* Proofs about MCDatasetFile: for any width of the stamps, any limits of  *)
(* an episode and recordings of any length and number of boots, what is    *)
(* saved is an episode, and nothing that was saved is lost; and for any    *)
(* file and size of the grid, the video shows its episodes exactly.        *)
(***************************************************************************)
EXTENDS MCDatasetFile, Integers, FiniteSetTheorems, WellFoundedInduction, TLAPS

RowType == [id : Nat, stamp : 1..MaxStamp, at : Nat, goals : Goals]
Rows == Seq(RowType)
End(r) == r[Len(r)]
StatsType == [started : Nat, saved : Nat, discarded : Nat, failed : Nat]

\* Properties of the rows of an episode: without a hole; with the stamps of a clock that
\* was at s when the episode began; the places where the goals change; a frame without
\* joints; long enough and quiet at the end.
Contiguous(r) ==
  \A i \in 1..(Len(r) - 1) :
    /\ r[i + 1].id = r[i].id + 1
    /\ r[i].stamp <= r[i + 1].stamp /\ r[i + 1].stamp - r[i].stamp <= MaxGap
    /\ r[i + 1].at - r[i].at = r[i + 1].stamp - r[i].stamp
Anchored(r, s) == r[1].stamp = s /\ \A i \in 1..Len(r) : s <= r[i].stamp /\ r[i].at = r[i].stamp - s
Changes(r) == {i \in 1..Len(r) : i > 1 /\ r[i].goals # r[i - 1].goals}
HasNone(r) == \E i \in 1..Len(r) : r[i].goals = NoGoals
Lasting(r) == /\ End(r).stamp - r[1].stamp >= Duration
              /\ \A i \in Changes(r) : End(r).stamp - r[i].stamp >= Quiet
Kept(r) == Contiguous(r) /\ 1 + Cardinality(Changes(r)) >= MinCommands

Types ==
  /\ count \in Nat /\ commandsCnt \in Nat /\ lastMovement \in Nat /\ skip \in BOOLEAN
  /\ start \in 0..MaxStamp /\ buffer \in Rows /\ saved \in Seq(Rows) /\ index = Len(saved)
  /\ pc \in {"frames", "merge", "copy", "cleanup", "ended"}
  /\ stats \in StatsType

\* What the detector knows of the rows r of the open episode, unless it will be skipped.
Current(r, n, goals, commands, moved) ==
  /\ End(r).id = n
  /\ goals \in {NoGoals, End(r).goals} /\ (goals = NoGoals => HasNone(r))
  /\ commands <= 1 + Cardinality(Changes(r))
  /\ moved <= End(r).stamp
  /\ HasNone(r) \/ \A i \in Changes(r) : r[i].stamp <= moved
OpenInv ==
  IF start = 0 THEN buffer = <<>> /\ ~skip
  ELSE /\ buffer # <<>> /\ Contiguous(buffer) /\ Anchored(buffer, start)
       /\ ~skip => Current(buffer, count, lastGoals, commandsCnt, lastMovement)

SavedInv ==
  \A e \in 1..Len(saved) :
    /\ saved[e] # <<>> /\ Kept(saved[e])
    /\ Lasting(saved[e]) \/ HasNone(saved[e]) \/ (e = Len(saved) /\ pc # "frames")

\* Where the saved episodes are.
InFiles == \A e \in 1..Len(saved) : e - 1 \in DOMAIN files /\ files[e - 1] = saved[e]
FileInv ==
  /\ pc \in {"frames", "merge", "copy"} => InFiles
  /\ pc = "cleanup" => output = saved
  /\ pc = "ended" => InFiles \/ output = saved

Ended(s) == s.saved + s.discarded + s.failed
CountInv ==
  /\ pc = "frames" => stats.started = Ended(stats) + IF start = 0 THEN 0 ELSE 1
  /\ pc \in {"merge", "copy", "cleanup"} => stats.started = Ended(stats)
  /\ pc = "ended" => stats.started = Ended(stats) \/ (stats.started = Ended(stats) + 1 /\ start # 0)

WriterInv == Types /\ OpenInv /\ SavedInv /\ FileInv /\ CountInv

-----------------------------------------------------------------------------
\* The difference of two stamps, and of two ages.
LEMMA MinusIs ==
  ASSUME NEW a \in 0..Word, NEW b \in 0..Word, a < Word, b < Word
  PROVE  Writer!Minus(a, b) = IF a >= b THEN a - b ELSE a - b + Word
<1>1. Word \in Nat /\ Word > 0 /\ a \in Int /\ b \in Int
  BY FileAssumption
<1>2. CASE a >= b
  BY <1>1, <1>2 DEF Writer!Minus
<1>3. CASE a < b
  BY <1>1, <1>3 DEF Writer!Minus
<1>4. QED
  BY <1>1, <1>2, <1>3

\* A duration is at most the unsigned difference it was converted from.
LEMMA DurationIs ==
  ASSUME NEW a \in 0..Word, NEW b \in 0..Word, a < Word, b <= a,
         NEW n \in Nat, Writer!AsDuration(Writer!Minus(a, b)) >= n
  PROVE  a - b >= n
<1>1. Word \in Nat /\ a \in Int /\ b \in Int /\ b < Word
  BY FileAssumption
<1>2. Writer!Minus(a, b) = a - b
  BY <1>1, MinusIs
<1>3. Writer!AsDuration(a - b) \in {a - b, a - b - Word}
  BY DEF Writer!AsDuration
<1>4. QED
  BY <1>1, <1>2, <1>3

LEMMA RowFields ==
  ASSUME NEW x \in RowType
  PROVE  x.id \in Nat /\ x.stamp \in 1..MaxStamp /\ x.stamp \in Int /\ x.at \in Nat
         /\ x.goals \in Goals
BY FileAssumption DEF RowType

\* The instance's operators on sequences and sets.
LEMMA Names ==
  /\ \A S : Writer!Cardinality(S) = Cardinality(S)
  /\ \A r : Writer!Last(r) = End(r)
BY DEF Writer!Cardinality, Cardinality, Writer!Last, End

LEMMA ChangesFinite ==
  ASSUME NEW r \in Rows
  PROVE  IsFiniteSet(Changes(r)) /\ Cardinality(Changes(r)) \in Nat
<1>1. Len(r) \in Nat /\ Changes(r) \subseteq 1..Len(r)
  BY DEF Rows, Changes
<1>2. IsFiniteSet(1..Len(r))
  BY <1>1, FS_Interval
<1>3. QED
  BY <1>1, <1>2, FS_Subset, FS_CardinalityType

\* Appending a row that closes up with the last one.
LEMMA AppendRow ==
  ASSUME NEW r \in Rows, r # <<>>, NEW s \in 1..MaxStamp, NEW x \in RowType,
         Contiguous(r), Anchored(r, s),
         x.id = End(r).id + 1, End(r).stamp <= x.stamp, x.stamp - End(r).stamp <= MaxGap,
         x.at = x.stamp - s
  PROVE  LET q == Append(r, x) IN
         /\ q \in Rows /\ q # <<>> /\ Contiguous(q) /\ Anchored(q, s)
         /\ End(q) = x /\ q[1] = r[1] /\ Len(q) = Len(r) + 1 /\ \A i \in 1..Len(r) : q[i] = r[i]
         /\ HasNone(q) <=> HasNone(r) \/ x.goals = NoGoals
         /\ Changes(q) = Changes(r) \cup IF x.goals = End(r).goals THEN {} ELSE {Len(r) + 1}
<1> DEFINE q == Append(r, x)
<1>1. /\ Len(r) \in Nat \ {0} /\ q \in Rows /\ Len(q) = Len(r) + 1 /\ q[Len(r) + 1] = x
      /\ \A i \in 1..Len(r) : q[i] = r[i] /\ r[i] \in RowType
  BY DEF Rows
<1>2. End(q) = x /\ q[1] = r[1] /\ q # <<>> /\ End(r) = q[Len(r)] /\ End(r) \in RowType
  BY <1>1 DEF End
<1> HIDE DEF q
<1>3. Anchored(q, s)
  <2>1. \A i \in 1..Len(r) : s <= q[i].stamp /\ q[i].at = q[i].stamp - s
    BY <1>1 DEF Anchored
  <2>2. s <= End(r).stamp
    BY <1>1 DEF Anchored, End
  <2>3. s <= x.stamp
    BY <2>2, <1>2, RowFields
  <2>4. q[1].stamp = s
    BY <1>2 DEF Anchored
  <2>5. QED
    BY <1>1, <2>1, <2>3, <2>4 DEF Anchored
<1>4. Contiguous(q)
  <2> SUFFICES ASSUME NEW i \in 1..Len(r)
               PROVE  /\ q[i + 1].id = q[i].id + 1
                      /\ q[i].stamp <= q[i + 1].stamp /\ q[i + 1].stamp - q[i].stamp <= MaxGap
                      /\ q[i + 1].at - q[i].at = q[i + 1].stamp - q[i].stamp
    BY <1>1 DEF Contiguous
  <2>1. CASE i = Len(r)
    <3>1. End(r).at = End(r).stamp - s
      BY <1>1 DEF Anchored, End
    <3>2. x.at - End(r).at = x.stamp - End(r).stamp
      BY <3>1, <1>2, RowFields
    <3>3. QED
      BY <2>1, <3>2, <1>1, <1>2
  <2>2. CASE i # Len(r)
    <3>1. i \in 1..(Len(r) - 1) /\ i + 1 \in 1..Len(r)
      BY <2>2, <1>1
    <3>2. q[i] = r[i] /\ q[i + 1] = r[i + 1]
      BY <1>1, <3>1
    <3>3. QED
      BY <3>1, <3>2 DEF Contiguous
  <2>3. QED
    BY <2>1, <2>2
<1>5. HasNone(q) <=> HasNone(r) \/ x.goals = NoGoals
  <2>1. \A i : i \in 1..Len(q) <=> i \in 1..Len(r) \/ i = Len(r) + 1
    BY <1>1
  <2>2. QED
    BY <1>1, <2>1 DEF HasNone
<1>6. Changes(q) = Changes(r) \cup IF x.goals = End(r).goals THEN {} ELSE {Len(r) + 1}
  <2>1. \A i \in 1..Len(r) : i > 1 => i - 1 \in 1..Len(r)
    BY <1>1
  <2>2. \A i \in 1..Len(r) : i \in Changes(q) <=> i \in Changes(r)
    BY <1>1, <2>1 DEF Changes
  <2>3. Len(r) + 1 \in Changes(q) <=> x.goals # End(r).goals
    <3>1. Len(r) + 1 - 1 = Len(r) /\ Len(r) + 1 > 1 /\ Len(r) + 1 \in 1..Len(q)
      BY <1>1
    <3>2. QED
      BY <3>1, <1>1, <1>2 DEF Changes
  <2>4. Changes(q) \subseteq 1..(Len(r) + 1) /\ Changes(r) \subseteq 1..Len(r)
    BY <1>1 DEF Changes
  <2>5. \A i : i \in 1..(Len(r) + 1) <=> i \in 1..Len(r) \/ i = Len(r) + 1
    BY <1>1
  <2>6. Len(r) + 1 \notin 1..Len(r)
    BY <1>1
  <2>7. QED
    BY <2>2, <2>3, <2>4, <2>5, <2>6
<1>7. QED
  BY <1>1, <1>2, <1>3, <1>4, <1>5, <1>6 DEF q

-----------------------------------------------------------------------------
\* A stamp that passes the test for a gap lies after the last row, and its age did not wrap.
LEMMA NoGap ==
  ASSUME Types, start # 0, buffer # <<>>, Anchored(buffer, start),
         NEW stamp \in 1..MaxStamp, ~Writer!Gap(Writer!Minus(stamp, start))
  PROVE  /\ End(buffer).stamp <= stamp /\ stamp - End(buffer).stamp <= MaxGap
         /\ Writer!Minus(stamp, start) = stamp - start /\ start <= stamp
<1> DEFINE e == End(buffer)
           at == Writer!Minus(stamp, start)
<1>1. /\ Word \in Nat /\ MaxStamp \in Nat /\ MaxGap \in Nat /\ MaxStamp + MaxGap < Word
      /\ start \in 1..MaxStamp /\ start \in 0..Word /\ stamp \in 0..Word
      /\ start < Word /\ stamp < Word
  BY FileAssumption DEF Types
<1>2. Len(buffer) \in 1..Len(buffer) /\ e \in RowType
  BY DEF Types, Rows, End
<1>3. start <= e.stamp /\ e.at = e.stamp - start /\ e.stamp \in 1..MaxStamp
  BY <1>2, RowFields DEF Anchored, End
<1>4. at = IF stamp >= start THEN stamp - start ELSE stamp - start + Word
  BY <1>1, MinusIs
<1>5. at \in 0..Word /\ at < Word /\ e.at \in 0..Word /\ e.at < Word
  BY <1>1, <1>3, <1>4
<1>6. Writer!Minus(at, e.at) = IF at >= e.at THEN at - e.at ELSE at - e.at + Word
  BY <1>5, MinusIs
<1>7. ~(Writer!Minus(at, e.at) > MaxGap)
  BY Names DEF Writer!Gap
<1> HIDE DEF e, at
<1>8. e.stamp <= stamp /\ stamp - e.stamp <= MaxGap /\ at = stamp - start /\ start <= stamp
  BY <1>1, <1>3, <1>4, <1>6, <1>7
<1>9. QED
  BY <1>8 DEF e, at

\* A row more without a gap keeps what the detector knows of the open episode.
LEMMA RowAdded ==
  ASSUME Types, OpenInv, start # 0, ~skip, NEW stamp \in 1..MaxStamp, NEW goals \in Goals,
         ~Writer!Gap(Writer!Minus(stamp, start)), NEW changed,
         changed = Writer!HasCommandsChanged(goals)
  PROVE  LET at == Writer!Minus(stamp, start)
             q == Append(buffer, Writer!Row(stamp, goals, at))
         IN /\ q \in Rows /\ q # <<>> /\ Contiguous(q) /\ Anchored(q, start)
            /\ End(q).stamp = stamp /\ at = stamp - start
            /\ Current(q, count + 1, IF changed THEN goals ELSE lastGoals,
                       IF changed THEN commandsCnt + 1 ELSE commandsCnt,
                       IF changed THEN stamp ELSE lastMovement)
<1> DEFINE at == Writer!Minus(stamp, start)
           x == Writer!Row(stamp, goals, at)
           q == Append(buffer, x)
           moved == IF changed THEN stamp ELSE lastMovement
<1>1. /\ buffer \in Rows /\ buffer # <<>> /\ start \in 1..MaxStamp /\ start \in Nat
      /\ count \in Nat /\ commandsCnt \in Nat /\ lastMovement \in Nat /\ stamp \in Nat
      /\ Contiguous(buffer) /\ Anchored(buffer, start)
      /\ Current(buffer, count, lastGoals, commandsCnt, lastMovement)
  BY FileAssumption DEF Types, OpenInv
<1>2. End(buffer).stamp <= stamp /\ stamp - End(buffer).stamp <= MaxGap /\ at = stamp - start
      /\ start <= stamp
  BY <1>1, NoGap
<1>3. at \in Nat
  BY <1>1, <1>2
<1> HIDE DEF at
<1>4. x.id = count + 1 /\ x.stamp = stamp /\ x.at = at /\ x.goals = goals /\ x \in RowType
  BY <1>1, <1>3 DEF Writer!Row, RowType
<1>5. End(buffer).id = count
  BY <1>1 DEF Current
<1> HIDE DEF x
<1>6. /\ q \in Rows /\ q # <<>> /\ Contiguous(q) /\ Anchored(q, start)
      /\ End(q) = x /\ Len(q) = Len(buffer) + 1 /\ \A i \in 1..Len(buffer) : q[i] = buffer[i]
      /\ HasNone(q) <=> HasNone(buffer) \/ x.goals = NoGoals
      /\ Changes(q) = Changes(buffer) \cup
           IF x.goals = End(buffer).goals THEN {} ELSE {Len(buffer) + 1}
  BY <1>1, <1>2, <1>4, <1>5, AppendRow
<1> HIDE DEF q
<1>7. changed <=> lastGoals # NoGoals /\ lastGoals # goals
  BY DEF Writer!HasCommandsChanged
<1>8. changed => goals # End(buffer).goals
  BY <1>1, <1>7 DEF Current
<1>9. (IF changed THEN goals ELSE lastGoals) \in {NoGoals, goals}
      /\ ((IF changed THEN goals ELSE lastGoals) = NoGoals => HasNone(q))
  BY <1>1, <1>4, <1>6, <1>7 DEF Current
<1>10. (IF changed THEN commandsCnt + 1 ELSE commandsCnt) <= 1 + Cardinality(Changes(q))
  <2>1. IsFiniteSet(Changes(buffer)) /\ Cardinality(Changes(buffer)) \in Nat
        /\ Cardinality(Changes(q)) \in Nat
    BY <1>1, <1>6, ChangesFinite
  <2>2. Len(buffer) + 1 \notin Changes(buffer)
    BY <1>1 DEF Changes, Rows
  <2>3. Cardinality(Changes(buffer) \cup {Len(buffer) + 1}) = Cardinality(Changes(buffer)) + 1
    BY <2>1, <2>2, FS_AddElement
  <2>4. commandsCnt <= 1 + Cardinality(Changes(buffer))
    BY <1>1 DEF Current
  <2>5. CASE goals = End(buffer).goals
    <3>1. Changes(q) = Changes(buffer) /\ ~changed
      BY <2>5, <1>4, <1>6, <1>8
    <3>2. QED
      BY <3>1, <2>4
  <2>6. CASE goals # End(buffer).goals
    <3>1. Changes(q) = Changes(buffer) \cup {Len(buffer) + 1}
      BY <2>6, <1>4, <1>6
    <3>2. QED
      BY <3>1, <2>1, <2>3, <2>4, <1>1
  <2>7. QED
    BY <2>5, <2>6
<1>11. moved <= stamp
  <2>1. lastMovement <= End(buffer).stamp
    BY <1>1 DEF Current
  <2>2. End(buffer) \in RowType
    BY <1>1 DEF Rows, End
  <2>3. QED
    BY <2>1, <2>2, <1>1, <1>2, RowFields
<1>12. HasNone(q) \/ \A i \in Changes(q) : q[i].stamp <= moved
  <2> SUFFICES ASSUME ~HasNone(q), NEW i \in Changes(q)
               PROVE  q[i].stamp <= moved
    OBVIOUS
  <2>1. /\ ~HasNone(buffer) /\ lastGoals # NoGoals /\ lastGoals = End(buffer).goals
        /\ \A j \in Changes(buffer) : buffer[j].stamp <= lastMovement
        /\ lastMovement <= End(buffer).stamp
    BY <1>1, <1>6 DEF Current
  <2>2. lastMovement <= moved
    <3>1. End(buffer) \in RowType
      BY <1>1 DEF Rows, End
    <3>2. QED
      BY <3>1, <2>1, <1>1, <1>2, RowFields
  <2>3. CASE i \in Changes(buffer)
    <3>1. i \in 1..Len(buffer) /\ buffer[i] \in RowType
      BY <2>3, <1>1 DEF Changes, Rows
    <3>2. q[i] = buffer[i] /\ buffer[i].stamp <= lastMovement
      BY <3>1, <2>1, <2>3, <1>6
    <3>3. buffer[i].stamp \in Int /\ moved \in Int
      BY <3>1, <1>1, RowFields
    <3> HIDE DEF moved
    <3>4. QED
      BY <3>2, <3>3, <2>2, <1>1
  <2>4. CASE i \notin Changes(buffer)
    <3>1. i = Len(buffer) + 1 /\ goals # End(buffer).goals
      BY <2>4, <1>4, <1>6
    <3>2. changed
      BY <3>1, <2>1, <1>7
    <3>3. q[i].stamp = stamp
      BY <3>1, <1>4, <1>6 DEF End
    <3>4. QED
      BY <3>2, <3>3, <1>1
  <2>5. QED
    BY <2>3, <2>4
<1>13. Current(q, count + 1, IF changed THEN goals ELSE lastGoals,
               IF changed THEN commandsCnt + 1 ELSE commandsCnt, moved)
  <2> HIDE DEF moved
  <2>1. QED
    BY <1>4, <1>6, <1>9, <1>10, <1>11, <1>12 DEF Current
<1>14. QED
  BY <1>2, <1>4, <1>6, <1>13 DEF q, x, at

\* When the detector finds the episode over, it is.
LEMMA OverLasts ==
  ASSUME NEW q \in Rows, q # <<>>, NEW s \in 1..MaxStamp, Anchored(q, s),
         NEW n, NEW goals, NEW commands, NEW moved \in Nat, Current(q, n, goals, commands, moved),
         Writer!EpisodeOver(End(q).stamp - s, End(q).stamp, moved)
  PROVE  Lasting(q) \/ HasNone(q)
<1>1. /\ Word \in Nat /\ MaxStamp < Word /\ MaxStamp \in Nat /\ Quiet \in Nat /\ Duration \in Nat
      /\ s \in Nat
  BY FileAssumption
<1>2. Len(q) \in Nat \ {0} /\ \A i \in 1..Len(q) : q[i] \in RowType
  BY DEF Rows
<1>3. End(q) \in RowType /\ End(q).stamp \in 1..MaxStamp /\ s <= End(q).stamp /\ q[1].stamp = s
  BY <1>2, RowFields DEF End, Anchored
<1> DEFINE stamp == End(q).stamp
<1>4. Duration <= stamp - s
  <2>1. Writer!AsDuration(stamp - s) >= Duration
    BY DEF Writer!EpisodeOver
  <2>2. Writer!AsDuration(stamp - s) \in {stamp - s, stamp - s - Word}
    BY DEF Writer!AsDuration
  <2> HIDE DEF stamp
  <2>3. stamp \in Nat
    BY <1>1, <1>3 DEF stamp
  <2>4. QED
    BY <1>1, <2>1, <2>2, <2>3
<1>5. moved <= stamp /\ (HasNone(q) \/ \A i \in Changes(q) : q[i].stamp <= moved)
  BY DEF Current
<1>6. stamp - moved >= Quiet
  <2>1. Writer!AsDuration(Writer!Minus(stamp, moved)) >= Quiet
    BY DEF Writer!EpisodeOver
  <2> HIDE DEF stamp
  <2>2. stamp \in 0..Word /\ stamp < Word /\ moved \in 0..Word
    BY <1>1, <1>3, <1>5 DEF stamp
  <2>3. QED
    BY <1>1, <1>5, <2>1, <2>2, DurationIs
<1>7. ASSUME ~HasNone(q), NEW i \in Changes(q)
      PROVE  stamp - q[i].stamp >= Quiet
  <2>1. q[i].stamp \in Int /\ q[i].stamp <= moved
    BY <1>2, <1>5, <1>7, RowFields DEF Changes
  <2> HIDE DEF stamp
  <2>2. stamp \in Int
    BY <1>1, <1>3 DEF stamp
  <2>3. QED
    BY <1>1, <1>6, <2>1, <2>2
<1>8. QED
  <2>1. Lasting(q) \/ HasNone(q)
    <3>1. stamp - q[1].stamp >= Duration
      BY <1>1, <1>3, <1>4
    <3>2. QED
      BY <1>7, <3>1 DEF Lasting
  <2>2. QED
    BY <2>1

\* Counting one more episode.
LEMMA StatsAdd ==
  ASSUME NEW s \in StatsType
  PROVE  /\ Ended(s) \in Nat /\ s.started \in Nat
         /\ LET t == [s EXCEPT !.saved = @ + 1]
            IN t \in StatsType /\ t.started = s.started /\ Ended(t) = Ended(s) + 1
         /\ LET t == [s EXCEPT !.discarded = @ + 1]
            IN t \in StatsType /\ t.started = s.started /\ Ended(t) = Ended(s) + 1
         /\ LET t == [s EXCEPT !.failed = @ + 1]
            IN t \in StatsType /\ t.started = s.started /\ Ended(t) = Ended(s) + 1
         /\ LET t == [s EXCEPT !.started = @ + 1]
            IN t \in StatsType /\ t.started = s.started + 1 /\ Ended(t) = Ended(s)
<1>1. s.started \in Nat /\ s.saved \in Nat /\ s.discarded \in Nat /\ s.failed \in Nat
  BY DEF StatsType
<1>2. Ended(s) \in Nat
  BY <1>1 DEF Ended
<1>3. ASSUME NEW t, t = [s EXCEPT !.saved = @ + 1]
      PROVE  t \in StatsType /\ t.started = s.started /\ Ended(t) = Ended(s) + 1
  <2>1. t \in StatsType
    BY <1>1, <1>3 DEF StatsType
  <2>2. t.started = s.started /\ t.saved = s.saved + 1 /\ t.discarded = s.discarded /\ t.failed = s.failed
    BY <1>3 DEF StatsType
  <2>3. QED
    BY <1>1, <2>1, <2>2 DEF Ended
<1>4. ASSUME NEW t, t = [s EXCEPT !.discarded = @ + 1]
      PROVE  t \in StatsType /\ t.started = s.started /\ Ended(t) = Ended(s) + 1
  <2>1. t \in StatsType
    BY <1>1, <1>4 DEF StatsType
  <2>2. t.started = s.started /\ t.saved = s.saved /\ t.discarded = s.discarded + 1 /\ t.failed = s.failed
    BY <1>4 DEF StatsType
  <2>3. QED
    BY <1>1, <2>1, <2>2 DEF Ended
<1>5. ASSUME NEW t, t = [s EXCEPT !.failed = @ + 1]
      PROVE  t \in StatsType /\ t.started = s.started /\ Ended(t) = Ended(s) + 1
  <2>1. t \in StatsType
    BY <1>1, <1>5 DEF StatsType
  <2>2. t.started = s.started /\ t.saved = s.saved /\ t.discarded = s.discarded /\ t.failed = s.failed + 1
    BY <1>5 DEF StatsType
  <2>3. QED
    BY <1>1, <2>1, <2>2 DEF Ended
<1>6. ASSUME NEW t, t = [s EXCEPT !.started = @ + 1]
      PROVE  t \in StatsType /\ t.started = s.started + 1 /\ Ended(t) = Ended(s)
  <2>1. t \in StatsType
    BY <1>1, <1>6 DEF StatsType
  <2>2. t.started = s.started + 1 /\ t.saved = s.saved /\ t.discarded = s.discarded /\ t.failed = s.failed
    BY <1>6 DEF StatsType
  <2>3. QED
    BY <2>1, <2>2 DEF Ended
<1>7. QED
  BY <1>1, <1>2, <1>3, <1>4, <1>5, <1>6

\* Saving an episode, whether it is discarded, written or fails to be written, keeps the
\* episodes saved before it in their files and accounts for this one.
LEMMA SaveKeeps ==
  ASSUME Types, InFiles, NEW sk \in BOOLEAN, NEW commands \in Nat, NEW r \in Rows,
         Writer!TrySave(sk, commands, r)
  PROVE  /\ stats' \in StatsType
         /\ stats'.started = stats.started /\ Ended(stats') = Ended(stats) + 1
         /\ saved' \in Seq(Rows) /\ index' = Len(saved') /\ InFiles'
         /\ saved' = saved \/ (saved' = Append(saved, r) /\ ~sk /\ commands >= MinCommands)
<1>1. /\ saved \in Seq(Rows) /\ index = Len(saved) /\ index \in Nat /\ MinCommands \in Nat
      /\ stats \in StatsType
  BY FileAssumption DEF Types
<1>2. CASE stats' = [stats EXCEPT !.discarded = @ + 1] /\ UNCHANGED <<files, index, saved>>
  <2>1. InFiles'
    BY <1>2 DEF InFiles
  <2>2. stats'.started = stats.started /\ Ended(stats') = Ended(stats) + 1
        /\ stats' \in StatsType
    BY <1>1, <1>2, StatsAdd
  <2>3. QED
    BY <1>1, <1>2, <2>1, <2>2
<1>3. CASE /\ files' = [i \in DOMAIN files \cup {index} |-> IF i = index THEN r ELSE files[i]]
           /\ stats' = [stats EXCEPT !.saved = @ + 1]
           /\ index' = index + 1 /\ saved' = Append(saved, r) /\ ~sk /\ commands >= MinCommands
  <2>1. /\ saved' \in Seq(Rows) /\ Len(saved') = index + 1 /\ saved'[index + 1] = r
        /\ \A e \in 1..index : saved'[e] = saved[e]
    BY <1>1, <1>3
  <2>2. ASSUME NEW e \in 1..(index + 1)
        PROVE  e - 1 \in DOMAIN files' /\ files'[e - 1] = saved'[e]
    <3>1. CASE e = index + 1
      <4>1. e - 1 = index
        BY <3>1, <1>1
      <4>2. QED
        BY <3>1, <4>1, <1>3, <2>1
    <3>2. CASE e # index + 1
      <4>1. e \in 1..index /\ e - 1 # index
        BY <3>2, <1>1
      <4>2. e - 1 \in DOMAIN files /\ files[e - 1] = saved[e]
        BY <4>1, <1>1 DEF InFiles
      <4>3. QED
        BY <4>1, <4>2, <1>3, <2>1
    <3>3. QED
      BY <3>1, <3>2
  <2>3. InFiles'
    BY <2>1, <2>2 DEF InFiles
  <2>4. stats'.started = stats.started /\ Ended(stats') = Ended(stats) + 1
        /\ stats' \in StatsType
    BY <1>1, <1>3, StatsAdd
  <2>5. QED
    BY <1>3, <2>1, <2>3, <2>4
<1>4. CASE /\ \/ files' = [i \in DOMAIN files \cup {index} |-> IF i = index THEN Torn ELSE files[i]]
              \/ UNCHANGED files
           /\ stats' = [stats EXCEPT !.failed = @ + 1]
           /\ UNCHANGED <<index, saved>>
  <2>1. ASSUME NEW e \in 1..Len(saved)
        PROVE  e - 1 \in DOMAIN files' /\ files'[e - 1] = saved[e]
    <3>1. e - 1 # index
      BY <1>1
    <3>2. e - 1 \in DOMAIN files /\ files[e - 1] = saved[e]
      BY DEF InFiles
    <3>3. QED
      BY <3>1, <3>2, <1>4
  <2>2. InFiles'
    BY <1>4, <2>1 DEF InFiles
  <2>3. stats'.started = stats.started /\ Ended(stats') = Ended(stats) + 1
        /\ stats' \in StatsType
    BY <1>1, <1>4, StatsAdd
  <2>4. QED
    BY <1>1, <1>4, <2>2, <2>3
<1>5. QED
  BY <1>1, <1>2, <1>3, <1>4 DEF Writer!TrySave, Writer!WriteFile

\* The saved episodes stay what they were.
LEMMA SavedStep ==
  ASSUME Types, SavedInv, NEW r \in Rows, pc = "frames" \/ (pc' # "frames" /\ saved' = saved),
         \/ saved' = saved
         \/ /\ saved' = Append(saved, r) /\ r # <<>> /\ Kept(r)
            /\ Lasting(r) \/ HasNone(r) \/ pc' # "frames"
  PROVE  SavedInv'
<1>1. saved \in Seq(Rows) /\ Len(saved) \in Nat
  BY DEF Types
<1>2. CASE saved' = saved
  BY <1>2 DEF SavedInv
<1>3. CASE saved' # saved
  <2>1. /\ pc = "frames" /\ saved' = Append(saved, r) /\ r # <<>> /\ Kept(r)
        /\ Lasting(r) \/ HasNone(r) \/ pc' # "frames"
    BY <1>3
  <2>2. /\ Len(saved') = Len(saved) + 1 /\ saved'[Len(saved) + 1] = r
        /\ \A e \in 1..Len(saved) : saved'[e] = saved[e]
    BY <1>1, <2>1
  <2>3. \A e : e \in 1..Len(saved') <=> e \in 1..Len(saved) \/ e = Len(saved) + 1
    BY <1>1, <2>2
  <2>4. \A e \in 1..Len(saved) : saved[e] # <<>> /\ Kept(saved[e])
                               /\ (Lasting(saved[e]) \/ HasNone(saved[e]))
    BY <2>1 DEF SavedInv
  <2> SUFFICES ASSUME NEW e \in 1..Len(saved')
               PROVE  /\ saved'[e] # <<>> /\ Kept(saved'[e])
                      /\ Lasting(saved'[e]) \/ HasNone(saved'[e]) \/ (e = Len(saved') /\ pc' # "frames")
    BY DEF SavedInv
  <2>5. QED
    BY <2>1, <2>2, <2>3, <2>4
<1>4. QED
  BY <1>2, <1>3

-----------------------------------------------------------------------------
\* The first row of an episode.
LEMMA FirstRow ==
  ASSUME NEW x \in RowType, x.at = 0
  PROVE  /\ <<x>> \in Rows /\ <<x>> # <<>> /\ Contiguous(<<x>>) /\ Anchored(<<x>>, x.stamp)
         /\ Current(<<x>>, x.id, x.goals, 1, x.stamp)
<1> DEFINE q == <<x>>
<1>1. q \in Rows /\ q # <<>> /\ Len(q) = 1 /\ q[1] = x
  BY DEF Rows
<1>2. x.stamp \in Int /\ x.stamp - x.stamp = 0 /\ x.stamp <= x.stamp
  BY RowFields
<1> HIDE DEF q
<1>3. End(q) = x
  BY <1>1 DEF End
<1>4. Changes(q) = {}
  BY <1>1 DEF Changes
<1>5. Contiguous(q)
  BY <1>1 DEF Contiguous
<1>6. Anchored(q, x.stamp)
  BY <1>1, <1>2 DEF Anchored
<1>7. 1 <= 1 + Cardinality(Changes(q))
  BY <1>1, ChangesFinite
<1>8. x.goals = NoGoals => HasNone(q)
  BY <1>1 DEF HasNone
<1>9. Current(q, x.id, x.goals, 1, x.stamp)
  BY <1>2, <1>3, <1>4, <1>7, <1>8 DEF Current
<1>10. QED
  BY <1>1, <1>5, <1>6, <1>9 DEF q

\* A frame that comes outside of an episode may start one.
LEMMA OutsideStep ==
  ASSUME WriterInv, NEW stamp \in 1..MaxStamp, NEW goals \in Goals,
         Writer!FrameOutside(stamp, goals)
  PROVE  WriterInv'
<1>1. /\ Types /\ OpenInv /\ SavedInv /\ FileInv /\ CountInv
      /\ stamp \in Nat /\ stamp # 0 /\ stamp \in 0..MaxStamp
  BY FileAssumption DEF WriterInv
<1>2. /\ pc = "frames" /\ start = 0 /\ count' = count + 1 /\ lastGoals' = goals
      /\ UNCHANGED <<skip, index, pc, files, output, saved>>
  BY DEF Writer!FrameOutside, Writer!Accepted, Writer!Arrives
<1>3. SavedInv' /\ FileInv'
  BY <1>1, <1>2 DEF SavedInv, FileInv, InFiles
<1>4. CASE UNCHANGED <<start, lastMovement, commandsCnt, buffer, stats>>
  <2>1. Types'
    BY <1>1, <1>2, <1>4 DEF Types
  <2>2. OpenInv'
    BY <1>1, <1>2, <1>4 DEF OpenInv
  <2>3. CountInv'
    BY <1>1, <1>2, <1>4 DEF CountInv
  <2>4. QED
    BY <1>3, <2>1, <2>2, <2>3 DEF WriterInv
<1>5. CASE /\ start' = stamp /\ lastMovement' = stamp /\ commandsCnt' = 1
           /\ buffer' = <<Writer!Row(stamp, goals, 0)>>
           /\ stats' = [stats EXCEPT !.started = @ + 1]
  <2> DEFINE x == Writer!Row(stamp, goals, 0)
  <2>1. x.id = count' /\ x.stamp = stamp /\ x.at = 0 /\ x.goals = goals /\ x \in RowType
    BY <1>1, <1>2 DEF Writer!Row, RowType, Types
  <2> HIDE DEF x
  <2>2. buffer' = <<x>>
    BY <1>5 DEF x
  <2>3. /\ buffer' \in Rows /\ buffer' # <<>> /\ Contiguous(buffer') /\ Anchored(buffer', stamp)
        /\ Current(buffer', count', goals, 1, stamp)
    BY <2>1, <2>2, FirstRow
  <2>4. /\ stats' \in StatsType /\ stats'.started = stats.started + 1
        /\ Ended(stats') = Ended(stats)
    BY <1>1, <1>5, StatsAdd DEF Types
  <2>5. Types'
    BY <1>1, <1>2, <1>5, <2>3, <2>4 DEF Types
  <2>6. OpenInv'
    BY <1>1, <1>2, <1>5, <2>3 DEF OpenInv
  <2>7. CountInv'
    <3>1. stats.started = Ended(stats) + 0 /\ stats.started \in Nat /\ Ended(stats) \in Nat
      BY <1>1, <1>2, StatsAdd DEF CountInv, Types
    <3>2. stats'.started = Ended(stats') + 1
      BY <3>1, <2>4
    <3>3. QED
      BY <3>2, <1>1, <1>2, <1>5 DEF CountInv
  <2>8. QED
    BY <1>3, <2>5, <2>6, <2>7 DEF WriterInv
<1>6. QED
  BY <1>4, <1>5 DEF Writer!FrameOutside

\* A frame that comes inside of an episode is buffered, or the episode is skipped from here
\* on; either may end it.
LEMMA InsideStep ==
  ASSUME WriterInv, NEW stamp \in 1..MaxStamp, NEW goals \in Goals,
         Writer!FrameInside(stamp, goals)
  PROVE  WriterInv'
<1> DEFINE changed  == Writer!HasCommandsChanged(goals)
           commands == IF changed THEN commandsCnt + 1 ELSE commandsCnt
           moved    == IF changed THEN stamp ELSE lastMovement
           at       == Writer!Minus(stamp, start)
           skipped  == skip \/ (buffer # <<>> /\ Writer!Gap(at))
           q        == IF skipped THEN buffer ELSE Append(buffer, Writer!Row(stamp, goals, at))
           last     == IF changed THEN goals ELSE lastGoals
<1>1. /\ Types /\ OpenInv /\ SavedInv /\ FileInv /\ CountInv
      /\ stamp \in Nat /\ stamp # 0 /\ stamp \in 0..MaxStamp
  BY FileAssumption DEF WriterInv
<1>2. /\ pc = "frames" /\ start # 0 /\ count' = count + 1 /\ UNCHANGED <<pc, output>>
      /\ lastGoals' = last /\ lastMovement' = moved
      /\ IF Writer!EpisodeOver(at, stamp, moved)
         THEN Writer!TrySave(skipped, commands, q) /\ Writer!ResetEpisode
         ELSE /\ UNCHANGED <<stats, files, index, saved>>
              /\ start' = start /\ skip' = skipped /\ commandsCnt' = commands /\ buffer' = q
  BY DEF Writer!FrameInside, Writer!Accepted, Writer!Arrives, Writer!NothingSaved
<1>3. /\ commands \in Nat /\ moved \in Nat /\ skipped \in BOOLEAN /\ start \in 1..MaxStamp
      /\ buffer # <<>> /\ count' \in Nat
  BY <1>1, <1>2, FileAssumption DEF Types, OpenInv
<1>4. /\ q \in Rows /\ q # <<>> /\ Contiguous(q) /\ Anchored(q, start)
      /\ ~skipped => /\ Current(q, count', last, commands, moved)
                     /\ End(q).stamp = stamp /\ at = stamp - start
  <2>1. CASE skipped
    BY <2>1, <1>1, <1>2 DEF OpenInv, Types
  <2>2. CASE ~skipped
    <3>1. ~skip /\ ~Writer!Gap(at) /\ q = Append(buffer, Writer!Row(stamp, goals, at))
      BY <2>2, <1>3
    <3>2. QED
      BY <3>1, <1>1, <1>2, RowAdded
  <2>3. QED
    BY <2>1, <2>2
<1> HIDE DEF changed, commands, moved, at, skipped, q, last
<1>5. CASE Writer!EpisodeOver(at, stamp, moved)
  <2>1. /\ Writer!TrySave(skipped, commands, q)
        /\ start' = 0 /\ skip' = FALSE /\ commandsCnt' = 0 /\ buffer' = <<>>
    BY <1>2, <1>5 DEF Writer!ResetEpisode
  <2>2. /\ stats' \in StatsType
        /\ stats'.started = stats.started /\ Ended(stats') = Ended(stats) + 1
        /\ saved' \in Seq(Rows) /\ index' = Len(saved') /\ InFiles'
        /\ saved' = saved \/ (saved' = Append(saved, q) /\ ~skipped /\ commands >= MinCommands)
    <3>1. InFiles
      BY <1>1, <1>2 DEF FileInv
    <3>2. QED
      BY <3>1, <1>1, <1>3, <1>4, <2>1, SaveKeeps
  <2>3. Types'
    <3>1. <<>> \in Rows /\ 0 \in Nat /\ 0 \in 0..MaxStamp
      BY FileAssumption DEF Rows
    <3>2. QED
      BY <3>1, <1>1, <1>2, <1>3, <2>1, <2>2 DEF Types
  <2>4. OpenInv'
    BY <2>1 DEF OpenInv
  <2>5. ASSUME ~skipped, commands >= MinCommands
        PROVE  Kept(q) /\ (Lasting(q) \/ HasNone(q))
    <3>1. Current(q, count', last, commands, moved) /\ End(q).stamp = stamp /\ at = stamp - start
      BY <2>5, <1>4
    <3>2. Kept(q)
      <4>1. commands <= 1 + Cardinality(Changes(q)) /\ Cardinality(Changes(q)) \in Nat
        BY <3>1, <1>4, ChangesFinite DEF Current
      <4>2. 1 + Cardinality(Changes(q)) >= MinCommands
        BY <4>1, <2>5, <1>3, FileAssumption
      <4>3. QED
        BY <4>2, <1>4 DEF Kept
    <3>3. Lasting(q) \/ HasNone(q)
      BY <3>1, <1>3, <1>4, <1>5, OverLasts
    <3>4. QED
      BY <3>2, <3>3
  <2>6. SavedInv'
    BY <1>1, <1>2, <1>4, <2>2, <2>5, SavedStep
  <2>7. FileInv'
    BY <1>2, <2>2 DEF FileInv
  <2>8. CountInv'
    <3>1. stats.started = Ended(stats) + 1 /\ stats.started \in Nat /\ Ended(stats) \in Nat
      BY <1>1, <1>2, StatsAdd DEF CountInv, Types
    <3>2. stats'.started = Ended(stats') + 0
      BY <3>1, <2>2
    <3>3. QED
      BY <3>2, <1>2, <2>1 DEF CountInv
  <2>9. QED
    BY <2>3, <2>4, <2>6, <2>7, <2>8 DEF WriterInv
<1>6. CASE ~Writer!EpisodeOver(at, stamp, moved)
  <2>1. /\ UNCHANGED <<stats, files, index, saved>>
        /\ start' = start /\ skip' = skipped /\ commandsCnt' = commands /\ buffer' = q
    BY <1>2, <1>6
  <2>2. Types'
    BY <1>1, <1>2, <1>3, <1>4, <2>1 DEF Types
  <2>3. OpenInv'
    BY <1>2, <1>4, <2>1 DEF OpenInv
  <2>4. SavedInv' /\ FileInv'
    BY <1>1, <1>2, <2>1 DEF SavedInv, FileInv, InFiles
  <2>5. CountInv'
    BY <1>1, <1>2, <2>1 DEF CountInv
  <2>6. QED
    BY <2>2, <2>3, <2>4, <2>5 DEF WriterInv
<1>7. QED
  BY <1>5, <1>6

-----------------------------------------------------------------------------
\* The end of the stream: the open episode is saved, without the test that it is over.
LEMMA FinalizeStep ==
  ASSUME WriterInv, Writer!Finalize
  PROVE  WriterInv'
<1>1. /\ Types /\ OpenInv /\ SavedInv /\ FileInv /\ CountInv
      /\ pc = "frames" /\ pc' \in {"ended", "merge"} /\ InFiles
      /\ UNCHANGED <<now, boot, count, lastGoals, commandsCnt, lastMovement, start, skip, buffer, output>>
  BY DEF WriterInv, FileInv, Writer!Finalize, Writer!recording
<1>2. OpenInv'
  BY <1>1 DEF OpenInv
<1>3. CASE start = 0
  <2>1. UNCHANGED <<stats, files, index, saved>>
    BY <1>3 DEF Writer!Finalize, Writer!NothingSaved
  <2>2. Types'
    BY <1>1, <2>1 DEF Types
  <2>3. SavedInv'
    BY <1>1, <2>1 DEF SavedInv
  <2>4. FileInv'
    BY <1>1, <2>1 DEF FileInv, InFiles
  <2>5. CountInv'
    <3>1. stats.started = Ended(stats) + 0 /\ stats.started \in Nat /\ Ended(stats) \in Nat
      BY <1>1, <1>3, StatsAdd DEF CountInv, Types
    <3>2. stats'.started = Ended(stats')
      BY <3>1, <2>1
    <3>3. QED
      BY <3>2, <1>1 DEF CountInv
  <2>6. QED
    BY <1>2, <2>2, <2>3, <2>4, <2>5 DEF WriterInv
<1>4. CASE start # 0
  <2>1. Writer!TrySave(skip, commandsCnt, buffer)
    BY <1>4 DEF Writer!Finalize
  <2>2. skip \in BOOLEAN /\ commandsCnt \in Nat /\ buffer \in Rows
    BY <1>1 DEF Types
  <2>3. /\ stats' \in StatsType
        /\ stats'.started = stats.started /\ Ended(stats') = Ended(stats) + 1
        /\ saved' \in Seq(Rows) /\ index' = Len(saved') /\ InFiles'
        /\ saved' = saved \/ (saved' = Append(saved, buffer) /\ ~skip /\ commandsCnt >= MinCommands)
    BY <1>1, <2>1, <2>2, SaveKeeps
  <2>4. ASSUME ~skip, commandsCnt >= MinCommands
        PROVE  Kept(buffer)
    <3>1. commandsCnt <= 1 + Cardinality(Changes(buffer)) /\ Cardinality(Changes(buffer)) \in Nat
      BY <2>4, <1>1, <1>4, <2>2, ChangesFinite DEF OpenInv, Current
    <3>2. 1 + Cardinality(Changes(buffer)) >= MinCommands
      BY <3>1, <2>2, <2>4, FileAssumption
    <3>3. QED
      BY <3>2, <1>1, <1>4 DEF OpenInv, Kept
  <2>5. SavedInv'
    <3>1. buffer # <<>>
      BY <1>1, <1>4 DEF OpenInv
    <3>2. QED
      BY <1>1, <2>2, <2>3, <2>4, <3>1, SavedStep
  <2>6. Types'
    BY <1>1, <2>3 DEF Types
  <2>7. FileInv'
    BY <1>1, <2>3 DEF FileInv
  <2>8. CountInv'
    <3>1. stats.started = Ended(stats) + 1 /\ stats.started \in Nat /\ Ended(stats) \in Nat
      BY <1>1, <1>4, StatsAdd DEF CountInv, Types
    <3>2. stats'.started = Ended(stats')
      BY <3>1, <2>3
    <3>3. QED
      BY <3>2, <1>1 DEF CountInv
  <2>9. QED
    BY <1>2, <2>5, <2>6, <2>7, <2>8 DEF WriterInv
<1>5. QED
  BY <1>3, <1>4

\* Steps of the merge, and the ways the process stops.
LEMMA MergeStep ==
  ASSUME WriterInv,
         \/ Writer!DropFrame \/ Writer!OpenFiles \/ Writer!CopyRows \/ Writer!MergeFails
         \/ Writer!RemoveFile \/ Writer!CleanupEnds \/ Writer!Killed \/ Writer!Ended
         \/ UNCHANGED writerVars
  PROVE  WriterInv'
<1> USE DEF Writer!recording
<1>1. Types /\ OpenInv /\ SavedInv /\ FileInv /\ CountInv
  BY DEF WriterInv
<1>2. /\ UNCHANGED <<count, lastGoals, commandsCnt, lastMovement, start, skip, buffer, index, stats, saved>>
      /\ pc' = pc \/ (pc' = "copy" /\ pc = "merge") \/ (pc' = "cleanup" /\ pc = "copy") \/ pc' = "ended"
      /\ UNCHANGED files \/ (pc = "cleanup" /\ pc' = pc)
      /\ UNCHANGED output \/ (pc' = "copy") \/ (pc' = "cleanup" /\ Writer!CopyRows)
  BY DEF Writer!DropFrame, Writer!OpenFiles, Writer!CopyRows, Writer!MergeFails, Writer!RemoveFile,
         Writer!CleanupEnds, Writer!Killed, Writer!Ended, Writer!Arrives, Writer!vars, writerVars
<1>3. Types' /\ OpenInv'
  BY <1>1, <1>2 DEF Types, OpenInv
<1>4. SavedInv'
  BY <1>1, <1>2 DEF SavedInv
<1>5. CountInv'
  <2>1. CASE pc' = pc
    BY <1>1, <1>2, <2>1 DEF CountInv
  <2>2. CASE pc' # pc /\ pc' # "ended"
    BY <1>1, <1>2, <2>2 DEF CountInv
  <2>3. CASE pc' = "ended"
    <3>1. pc = "frames" => stats.started = Ended(stats) \/ (stats.started = Ended(stats) + 1 /\ start # 0)
      <4>1. stats.started \in Nat /\ Ended(stats) \in Nat
        BY <1>1, StatsAdd DEF Types
      <4>2. QED
        BY <4>1, <1>1 DEF CountInv
    <3>2. stats.started = Ended(stats) \/ (stats.started = Ended(stats) + 1 /\ start # 0)
      BY <3>1, <1>1 DEF CountInv, Types
    <3>3. QED
      BY <3>2, <1>2, <2>3 DEF CountInv
  <2>4. QED
    BY <2>1, <2>2, <2>3
<1>6. FileInv'
  <2>1. CASE Writer!CopyRows
    <3>1. /\ pc = "copy" /\ pc' = "cleanup" /\ output' = [i \in 1..index |-> files[i - 1]]
          /\ InFiles /\ saved \in Seq(Rows) /\ index = Len(saved) /\ saved' = saved
      BY <1>1, <2>1 DEF Writer!CopyRows, FileInv, Types
    <3>2. saved = [i \in 1..Len(saved) |-> saved[i]]
      BY <3>1
    <3>3. \A i \in 1..index : files[i - 1] = saved[i]
      BY <3>1 DEF InFiles
    <3>4. output' = saved
      BY <3>1, <3>2, <3>3
    <3>5. QED
      BY <3>1, <3>4 DEF FileInv
  <2>2. CASE ~Writer!CopyRows /\ pc' = "copy"
    BY <1>1, <1>2, <2>2 DEF FileInv, InFiles
  <2>3. CASE ~Writer!CopyRows /\ pc' # "copy" /\ pc = "cleanup"
    BY <1>1, <1>2, <2>3 DEF FileInv
  <2>4. CASE ~Writer!CopyRows /\ pc' # "copy" /\ pc # "cleanup"
    <3>1. UNCHANGED <<files, output, saved>> /\ (pc' = pc \/ pc' = "ended" \/ pc' = "cleanup")
      BY <1>2, <2>4
    <3>2. pc' # "cleanup"
      BY <2>4, <1>2 DEF Writer!DropFrame, Writer!OpenFiles, Writer!MergeFails, Writer!RemoveFile,
             Writer!CleanupEnds, Writer!Killed, Writer!Ended, Writer!Arrives, Writer!vars, writerVars
    <3>3. pc \in {"frames", "merge", "copy", "ended"}
      BY <1>1, <2>4 DEF Types
    <3>4. QED
      BY <1>1, <3>1, <3>2, <3>3 DEF FileInv, InFiles
  <2>5. QED
    BY <2>1, <2>2, <2>3, <2>4
<1>7. QED
  BY <1>3, <1>4, <1>5, <1>6 DEF WriterInv

LEMMA WriterAlways == Spec => []WriterInv
<1>1. Init => WriterInv
  <2> SUFFICES ASSUME Writer!Init PROVE WriterInv
    BY DEF Init
  <2>1. Types
    <3>1. 0 \in 0..MaxStamp /\ <<>> \in Rows /\ <<>> \in Seq(Rows) /\ Len(<<>>) = 0
      BY FileAssumption DEF Rows
    <3>2. stats \in StatsType
      BY DEF Writer!Init, StatsType
    <3>3. QED
      BY <3>1, <3>2 DEF Writer!Init, Types
  <2>2. OpenInv /\ SavedInv /\ FileInv
    BY DEF Writer!Init, OpenInv, SavedInv, FileInv, InFiles
  <2>3. CountInv
    BY DEF Writer!Init, CountInv, Ended
  <2>4. QED
    BY <2>1, <2>2, <2>3 DEF WriterInv
<1>2. WriterInv /\ [Next]_vars => WriterInv'
  <2> SUFFICES ASSUME WriterInv, [Next]_vars PROVE WriterInv'
    OBVIOUS
  <2>1. Writer!Next \/ UNCHANGED writerVars
    BY DEF Next, vars
  <2>2. CASE Writer!ProcessFrame
    BY <2>2, OutsideStep, InsideStep DEF Writer!ProcessFrame
  <2>3. CASE Writer!Finalize
    BY <2>3, FinalizeStep
  <2>4. CASE ~Writer!ProcessFrame /\ ~Writer!Finalize
    BY <2>1, <2>4, MergeStep DEF Writer!Next
  <2>5. QED
    BY <2>2, <2>3, <2>4
<1>3. QED
  BY <1>1, <1>2, PTL DEF Spec

-----------------------------------------------------------------------------
\* Whatever the stamps, the boots and the goals of a recording and wherever the writing
\* stops: an episode that was saved (trySaveCurrentEpisode) has no hole, as many commands as
\* it needs, and lasts and rests as long as it has to; and the buffer that the code indexes
\* without a check holds a row exactly in an episode.
THEOREM SavedQualifiesAlways == Spec => []SavedQualifies
<1>1. WriterInv => SavedQualifies
  <2> SUFFICES ASSUME WriterInv PROVE SavedQualifies
    OBVIOUS
  <2>1. Types /\ OpenInv /\ SavedInv
    BY DEF WriterInv
  <2>2. Writer!BufferedInEpisode
    BY <2>1 DEF OpenInv, Writer!BufferedInEpisode
  <2>3. Writer!SavedContiguous
    BY <2>1 DEF SavedInv, Kept, Contiguous, Writer!SavedContiguous
  <2>4. Writer!SavedHasCommands
    <3> SUFFICES ASSUME NEW e \in 1..Len(saved)
                 PROVE  1 + Writer!Cardinality({i \in 1..Len(saved[e]) : Writer!ChangedAt(saved[e], i)})
                          >= MinCommands
      BY DEF Writer!SavedHasCommands
    <3>1. {i \in 1..Len(saved[e]) : Writer!ChangedAt(saved[e], i)} = Changes(saved[e])
      BY DEF Changes, Writer!ChangedAt
    <3>2. 1 + Cardinality(Changes(saved[e])) >= MinCommands
      BY <2>1 DEF SavedInv, Kept
    <3>3. QED
      BY <3>1, <3>2, Names
  <2>5. Writer!SavedIsWhole
    <3> SUFFICES ASSUME NEW e \in 1..Len(saved)
                 PROVE  LET r == saved[e]
                        IN \/ /\ Writer!Last(r).stamp - Head(r).stamp >= Duration
                              /\ \A i \in 1..Len(r) : Writer!ChangedAt(r, i) =>
                                    Writer!Last(r).stamp - r[i].stamp >= Quiet
                           \/ \E i \in 1..Len(r) : r[i].goals = NoGoals
                           \/ e = Len(saved) /\ pc # "frames"
      BY DEF Writer!SavedIsWhole
    <3>1. saved[e] \in Rows /\ saved[e] # <<>>
          /\ (Lasting(saved[e]) \/ HasNone(saved[e]) \/ (e = Len(saved) /\ pc # "frames"))
      BY <2>1 DEF SavedInv, Types
    <3>2. Head(saved[e]) = saved[e][1] /\ Writer!Last(saved[e]) = End(saved[e])
      BY <3>1, Names DEF Rows
    <3>3. QED
      BY <3>1, <3>2 DEF Lasting, HasNone, Changes, Writer!ChangedAt
  <2>6. QED
    BY <2>2, <2>3, <2>4, <2>5 DEF SavedQualifies
<1>2. QED
  BY <1>1, WriterAlways, PTL

\* Whatever fails to be written, and wherever the process stops: every episode that was
\* started is saved, discarded, failed or the open one, and every episode that was saved is
\* in its file or in the merged one, since the files are removed only when the merge is done.
THEOREM NothingLostAlways == Spec => []NothingLost
<1>1. WriterInv => NothingLost
  <2> SUFFICES ASSUME WriterInv PROVE NothingLost
    OBVIOUS
  <2>1. Types /\ FileInv /\ CountInv
    BY DEF WriterInv
  <2>2. Writer!NothingLost
    BY <2>1 DEF Types, FileInv, InFiles, Writer!NothingLost
  <2>3. Writer!Accounting
    <3> DEFINE open == stats.started - stats.saved - stats.discarded - stats.failed
    <3>1. /\ stats.started \in Nat /\ stats.saved \in Nat /\ stats.discarded \in Nat /\ stats.failed \in Nat
      BY <2>1 DEF Types, StatsType
    <3>2. /\ stats.started = Ended(stats) => open = 0
          /\ stats.started = Ended(stats) + 1 => open = 1
          /\ stats.started = Ended(stats) + 0 => open = 0
      BY <3>1 DEF Ended
    <3> HIDE DEF open
    <3>3. pc \in {"frames", "merge", "copy", "cleanup", "ended"}
      BY <2>1 DEF Types
    <3>4. open \in {0, 1} /\ (open = 1 => start # 0)
          /\ (pc = "frames" => (open = 1 <=> start # 0))
          /\ (pc \in {"merge", "copy", "cleanup"} => open = 0)
      BY <2>1, <3>2, <3>3 DEF CountInv
    <3>5. QED
      BY <3>4 DEF Writer!Accounting, open
  <2>4. QED
    BY <2>2, <2>3 DEF NothingLost
<1>2. QED
  BY <1>1, WriterAlways, PTL

-----------------------------------------------------------------------------
(***************************************************************************)
(* The reader.                                                             *)
(***************************************************************************)
N == Len(rows)
Run(a, b) == [k \in 1..(b - a + 1) |-> a + k - 1]

\* Of the first n rows of the file r, those from a to b are a recording; and none is bad.
Block(r, a, b, n) == \A i \in 1..n : i \in a..b <=> r[i].start = r[a].start
Clean(r, a, b) == \A i \in a..b : r[i].two

\* The episodes eps are exactly the recordings without a bad row of the first n rows.
Collected(r, eps, n) ==
  /\ \A e \in 1..Len(eps) :
       eps[e].num = e /\ \E a \in 1..n : \E b \in a..n :
         Block(r, a, b, n) /\ Clean(r, a, b) /\ eps[e].frames = Run(a, b)
  /\ \A d, e \in 1..Len(eps) : d < e => eps[d].frames[1] < eps[e].frames[1]
  /\ \A i \in 1..n : (\A k \in 1..n : r[k].start = r[i].start => r[k].two) =>
       \E e \in 1..Len(eps) : \E k \in 1..Len(eps[e].frames) : eps[e].frames[k] = i

RowIn == [start : 1..MaxRows, two : BOOLEAN]
EpisodeType == [frames : Seq(Nat), num : Nat]
CurrentType == [start : Nat, frames : Seq(Nat) \cup {NoEpisode}, num : Nat]
CellType == [frame : Nat, num : Nat]
ReaderTypes ==
  /\ rows \in Seq(RowIn) /\ read \in 0..N
  /\ \A i, k \in 1..N : i <= k => rows[i].start <= rows[k].start
  /\ current \in CurrentType \cup {NoEpisode} /\ episodes \in Seq(EpisodeType)
  /\ gridPc \in {"collect", "grid", "frames", "closed"} /\ gridIdx \in Nat /\ frameIdx \in Nat
  /\ jobs \in Seq([1..GridSize -> CellType])

\* While rows are read, the current episode holds the rows of its recording read so far.
CollectInv ==
  IF read = 0 THEN current = NoEpisode /\ episodes = <<>>
  ELSE /\ current # NoEpisode /\ current.num = Len(episodes) + 1
       /\ \E a \in 1..read :
            /\ current.start = rows[a].start /\ Block(rows, a, read, read)
            /\ Collected(rows, episodes, a - 1)
            /\ current.frames = IF Clean(rows, a, read) THEN Run(a, read) ELSE NoEpisode

\* The episodes of the grids before g; those of the grid at hand, while its frames are sent;
\* and whether frame k of episode e was sent, with x frames of that grid sent.
Upto(g) == g * GridSize
InGrid(at, g, e) == at = "frames" /\ Upto(g) < e /\ e <= Upto(g) + GridSize
Sent(at, g, x, e, k) == e <= Upto(g) \/ (InGrid(at, g, e) /\ k <= x)
Black == [frame |-> 0, num |-> 0]
CellOf(eps, e, k) == [frame |-> eps[e].frames[k], num |-> e]

\* Of the jobs js: a cell shows a frame that was sent, or nothing; no frame is shown twice; no
\* job is all black; the episodes of the grids before g are shown, frame after frame, in one
\* cell; and so are the first x frames of those of the grid at hand, by the last x jobs.
ShowsSent(js, eps, at, g, x) ==
  \A j \in 1..Len(js), i \in 1..GridSize :
    \/ js[j][i] = Black
    \/ \E e \in 1..Len(eps) : \E k \in 1..Len(eps[e].frames) :
         Sent(at, g, x, e, k) /\ js[j][i] = CellOf(eps, e, k)
ShowsOnce(js) ==
  \A j, m \in 1..Len(js), i, l \in 1..GridSize :
    js[j][i].frame # 0 /\ js[j][i].frame = js[m][l].frame => j = m /\ i = l
NeverBlack(js) == \A j \in 1..Len(js) : \E i \in 1..GridSize : js[j][i].num # 0
GridsShown(js, eps, g) ==
  \A e \in 1..Len(eps) : e <= Upto(g) =>
    \E o \in 0..Len(js), i \in 1..GridSize : \A k \in 1..Len(eps[e].frames) :
      o + k <= Len(js) /\ js[o + k][i] = CellOf(eps, e, k)
GridShown(js, eps, at, g, x) ==
  \A e \in 1..Len(eps) : InGrid(at, g, e) =>
    \A k \in 1..Len(eps[e].frames) : k <= x =>
      js[Len(js) - x + k][e - Upto(g)] = CellOf(eps, e, k)

LayoutInv ==
  /\ ShowsSent(jobs, episodes, gridPc, gridIdx, frameIdx)
  /\ ShowsOnce(jobs) /\ NeverBlack(jobs)
  /\ GridsShown(jobs, episodes, gridIdx) /\ GridShown(jobs, episodes, gridPc, gridIdx, frameIdx)
  /\ gridPc = "frames" => Upto(gridIdx) < Len(episodes) /\ frameIdx <= Len(jobs)
  /\ gridPc = "closed" => Len(episodes) <= Upto(gridIdx)

ReaderInv ==
  /\ ReaderTypes
  /\ gridPc = "collect" => CollectInv /\ jobs = <<>> /\ gridIdx = 0
  /\ gridPc # "collect" => Collected(rows, episodes, N) /\ LayoutInv

-----------------------------------------------------------------------------
\* A set of naturals up to n has a largest element, which is the Max of the instance.
LEMMA MaxIsLargest ==
  ASSUME NEW n \in Nat, NEW S, S \subseteq 0..n, S # {}
  PROVE  Reader!Max(S) \in S /\ \A x \in S : x <= Reader!Max(S)
<1> DEFINE R == {ss \in Nat \X Nat : ss[1] < ss[2]}
           T == {n - x : x \in S}
<1>1. IsWellFoundedOn(R, Nat)
  BY NatLessThanWellFounded DEF OpToRel
<1>2. T \subseteq Nat /\ T # {}
  <2>1. PICK x \in S : TRUE
    OBVIOUS
  <2>2. n - x \in T
    BY <2>1
  <2>3. QED
    BY <2>2
<1>3. PICK t \in T : \A u \in T : ~(<<u, t>> \in R)
  <2> HIDE DEF R, T
  <2>1. QED
    BY <1>1, <1>2, WFMin
<1>4. PICK x \in S : t = n - x
  BY <1>3
<1>5. ASSUME NEW y \in S, y > x PROVE FALSE
  <2>1. n - y \in T /\ n - y \in Nat /\ t \in Nat /\ n - y < t
    BY <1>2, <1>4, <1>5
  <2>2. <<n - y, t>> \in R
    BY <2>1
  <2>3. QED
    BY <1>3, <2>1, <2>2
<1>6. \A y \in S : x >= y
  <2> HIDE DEF R, T
  <2>1. QED
    BY <1>4, <1>5
<1>7. \E z \in S : \A y \in S : z >= y
  BY <1>6
<1>8. QED
  BY <1>7 DEF Reader!Max

\* Rows that do not go back from one to the next do not go back at all.
LEMMA Sorted ==
  ASSUME NEW r \in Seq(RowIn),
         \A i \in 2..Len(r) : r[i - 1].start <= r[i].start
  PROVE  \A i, k \in 1..Len(r) : i <= k => r[i].start <= r[k].start
<1> SUFFICES ASSUME NEW h \in 1..Len(r), NEW k \in 1..Len(r), h <= k, ~(r[h].start <= r[k].start)
             PROVE  FALSE
  OBVIOUS
<1>1. MaxRows \in Nat /\ Len(r) \in Nat /\ \A i \in 1..Len(r) : r[i].start \in 1..MaxRows
  <2>1. \A i \in 1..Len(r) : r[i] \in RowIn
    OBVIOUS
  <2>2. QED
    BY <2>1, FileAssumption DEF RowIn
<1> DEFINE S == {i \in 1..k : r[i].start > r[k].start}
<1>2. S \subseteq 0..k /\ h \in S /\ k \in Nat
  BY <1>1
<1>3. PICK m \in S : \A x \in S : x <= m
  <2> HIDE DEF S
  <2>1. Reader!Max(S) \in S /\ \A x \in S : x <= Reader!Max(S)
    BY <1>2, MaxIsLargest
  <2>2. QED
    BY <2>1
<1>4. m \in 1..k /\ m # k /\ r[m].start > r[k].start
  BY <1>1, <1>3
<1>5. m + 1 \in 2..Len(r) /\ m + 1 \in 1..k /\ (m + 1) - 1 = m
  BY <1>1, <1>4
<1>6. r[m].start <= r[m + 1].start
  BY <1>5
<1>7. m + 1 \in S
  <2>1. r[m].start \in Nat /\ r[m + 1].start \in Nat /\ r[k].start \in Nat
    <3>1. m \in 1..Len(r) /\ m + 1 \in 1..Len(r)
      BY <1>1, <1>4, <1>5
    <3>2. QED
      BY <1>1, <3>1
  <2>2. r[m + 1].start > r[k].start
    BY <1>4, <1>6, <2>1
  <2>3. QED
    BY <1>5, <2>2
<1>8. QED
  BY <1>3, <1>4, <1>7

\* A run of rows is a sequence, and one row more makes it longer.
LEMMA RunIs ==
  ASSUME NEW a \in Nat \ {0}, NEW b \in Nat, a <= b
  PROVE  /\ Run(a, b) \in Seq(Nat) /\ Run(a, b) # <<>> /\ Len(Run(a, b)) = b - a + 1
         /\ \A k \in 1..(b - a + 1) : Run(a, b)[k] = a + k - 1
         /\ Append(Run(a, b), b + 1) = Run(a, b + 1)
         /\ Append(<<>>, a) = Run(a, a)
         /\ Run(a, b) # NoEpisode
<1>1. b - a + 1 \in Nat \ {0} /\ \A k \in 1..(b - a + 1) : a + k - 1 \in Nat
  OBVIOUS
<1>2. Run(a, b) \in Seq(Nat) /\ Len(Run(a, b)) = b - a + 1
      /\ \A k \in 1..(b - a + 1) : Run(a, b)[k] = a + k - 1
  BY <1>1 DEF Run
<1>3. Run(a, b) # <<>>
  BY <1>1, <1>2
<1>4. Append(Run(a, b), b + 1) = Run(a, b + 1)
  <2>1. b + 1 - a + 1 = (b - a + 1) + 1 /\ a + ((b - a + 1) + 1) - 1 = b + 1
    OBVIOUS
  <2>2. Run(a, b + 1) = [k \in 1..((b - a + 1) + 1) |-> a + k - 1]
    BY <2>1 DEF Run
  <2>3. Append(Run(a, b), b + 1) = [k \in 1..((b - a + 1) + 1) |-> IF k <= b - a + 1 THEN Run(a, b)[k] ELSE b + 1]
    <3> HIDE DEF Run
    <3> DEFINE m == b - a + 1
               q == Run(a, b)
    <3>1. m \in Nat /\ q \in Seq(Nat) /\ Len(q) = m
      BY <1>1, <1>2
    <3> HIDE DEF m, q
    <3>2. Append(q, b + 1) = [k \in 1..(m + 1) |-> IF k <= m THEN q[k] ELSE b + 1]
      BY <3>1
    <3>3. QED
      BY <3>2 DEF m, q
  <2>4. \A k \in 1..((b - a + 1) + 1) : (IF k <= b - a + 1 THEN Run(a, b)[k] ELSE b + 1) = a + k - 1
    BY <1>1, <1>2, <2>1
  <2>5. QED
    BY <2>2, <2>3, <2>4
<1>5. Append(<<>>, a) = Run(a, a)
  <2>1. a - a + 1 = 1 /\ a + 1 - 1 = a
    OBVIOUS
  <2>2. Run(a, a) = [k \in 1..1 |-> a + k - 1]
    BY <2>1 DEF Run
  <2>3. Append(<<>>, a) = [k \in 1..1 |-> a]
    OBVIOUS
  <2>4. QED
    BY <2>1, <2>2, <2>3
<1>6. Run(a, b) # NoEpisode
  BY <1>2, NilAssumption
<1>7. QED
  BY <1>2, <1>3, <1>4, <1>5, <1>6

-----------------------------------------------------------------------------
\* The end of a recording: its rows are the next episode, unless one of them is bad.
LEMMA BlockEnds ==
  ASSUME NEW r \in Seq(RowIn), NEW n \in 1..Len(r), NEW a \in 1..n, Block(r, a, n, n),
         NEW eps \in Seq(EpisodeType), Collected(r, eps, a - 1)
  PROVE  /\ ~Clean(r, a, n) => Collected(r, eps, n)
         /\ Clean(r, a, n) => Collected(r, Append(eps, [frames |-> Run(a, n), num |-> Len(eps) + 1]), n)
<1>1. n \in Nat \ {0} /\ a \in Nat \ {0} /\ a <= n /\ Len(eps) \in Nat
      /\ \A e \in 1..Len(eps) : eps[e] \in EpisodeType
  OBVIOUS
<1>2. ASSUME NEW c \in 1..(a - 1), NEW b \in c..(a - 1), Block(r, c, b, a - 1)
      PROVE  Block(r, c, b, n)
  <2> SUFFICES ASSUME NEW i \in 1..n PROVE i \in c..b <=> r[i].start = r[c].start
    BY DEF Block
  <2>1. CASE i < a
    <3>1. i \in 1..(a - 1)
      BY <1>1, <2>1
    <3>2. QED
      BY <3>1, <1>2 DEF Block
  <2>2. CASE i >= a
    <3>1. i \in a..n /\ i \notin c..b /\ c \in 1..n /\ c \notin a..n /\ a \in 1..n
      BY <1>1, <2>2
    <3>2. r[i].start = r[a].start /\ r[c].start # r[a].start
      BY <3>1 DEF Block
    <3>3. QED
      BY <3>1, <3>2
  <2>3. QED
    BY <1>1, <2>1, <2>2
<1>3. ASSUME NEW e \in 1..Len(eps)
      PROVE  /\ eps[e].num = e
             /\ \E c \in 1..n : \E b \in c..n :
                   Block(r, c, b, n) /\ Clean(r, c, b) /\ eps[e].frames = Run(c, b)
             /\ eps[e].frames[1] < a
  <2>1. PICK c \in 1..(a - 1) : \E b \in c..(a - 1) :
           Block(r, c, b, a - 1) /\ Clean(r, c, b) /\ eps[e].frames = Run(c, b)
    BY DEF Collected
  <2>2. PICK b \in c..(a - 1) : Block(r, c, b, a - 1) /\ Clean(r, c, b) /\ eps[e].frames = Run(c, b)
    BY <2>1
  <2>3. c \in 1..n /\ b \in c..n /\ c \in Nat \ {0} /\ b \in Nat /\ c <= b /\ 1 \in 1..(b - c + 1)
        /\ c + 1 - 1 = c /\ c < a
    BY <1>1
  <2>4. Block(r, c, b, n)
    BY <1>2, <2>2
  <2>5. eps[e].frames[1] = c
    <3>1. \A k \in 1..(b - c + 1) : Run(c, b)[k] = c + k - 1
      BY <2>3, RunIs
    <3>2. Run(c, b)[1] = c
      BY <2>3, <3>1
    <3>3. QED
      BY <2>2, <3>2
  <2>6. eps[e].num = e
    BY DEF Collected
  <2>7. QED
    BY <2>2, <2>3, <2>4, <2>5, <2>6
<1>4. ASSUME NEW i \in 1..n, \A k \in 1..n : r[k].start = r[i].start => r[k].two
      PROVE  \/ \E e \in 1..Len(eps) : \E k \in 1..Len(eps[e].frames) : eps[e].frames[k] = i
             \/ Clean(r, a, n) /\ i \in a..n
  <2>1. CASE i < a
    <3>1. i \in 1..(a - 1) /\ \A k \in 1..(a - 1) : k \in 1..n
      BY <1>1, <2>1
    <3>2. \A k \in 1..(a - 1) : r[k].start = r[i].start => r[k].two
      BY <3>1, <1>4
    <3>3. QED
      BY <3>1, <3>2 DEF Collected
  <2>2. CASE i >= a
    <3>1. i \in a..n /\ \A k \in a..n : k \in 1..n
      BY <1>1, <2>2
    <3>2. \A k \in a..n : r[k].start = r[a].start
      BY <3>1 DEF Block
    <3>3. \A k \in a..n : r[k].two
      BY <3>1, <3>2, <1>4
    <3>4. QED
      BY <3>1, <3>3 DEF Clean
  <2>3. i < a \/ i >= a
    BY <1>1
  <2>4. QED
    BY <2>1, <2>2, <2>3
<1>5. ASSUME ~Clean(r, a, n) PROVE Collected(r, eps, n)
  <2>1. \A d, e \in 1..Len(eps) : d < e => eps[d].frames[1] < eps[e].frames[1]
    BY DEF Collected
  <2>2. \A i \in 1..n : (\A k \in 1..n : r[k].start = r[i].start => r[k].two) =>
          \E e \in 1..Len(eps) : \E k \in 1..Len(eps[e].frames) : eps[e].frames[k] = i
    BY <1>4, <1>5
  <2>3. QED
    BY <1>3, <2>1, <2>2 DEF Collected
<1>6. ASSUME Clean(r, a, n)
      PROVE  Collected(r, Append(eps, [frames |-> Run(a, n), num |-> Len(eps) + 1]), n)
  <2> DEFINE q == Append(eps, [frames |-> Run(a, n), num |-> Len(eps) + 1])
             m == Len(eps) + 1
  <2>1. /\ Len(q) = m /\ \A e \in 1..Len(eps) : q[e] = eps[e]
        /\ q[m] = [frames |-> Run(a, n), num |-> m]
    BY <1>1
  <2>2. q[m].num = m /\ q[m].frames = Run(a, n)
    BY <2>1
  <2>3. /\ Len(Run(a, n)) = n - a + 1 /\ \A k \in 1..(n - a + 1) : Run(a, n)[k] = a + k - 1
    BY <1>1, RunIs
  <2>4. q[m].frames[1] = a
    BY <1>1, <2>2, <2>3
  <2>5. m \in Nat /\ (\A e : e \in 1..m <=> e \in 1..Len(eps) \/ e = m) /\ \A e \in 1..Len(eps) : e < m
    BY <1>1
  <2> HIDE DEF q, m
  <2>6. ASSUME NEW e \in 1..Len(q)
        PROVE  q[e].num = e /\ \E c \in 1..n : \E b \in c..n :
                 Block(r, c, b, n) /\ Clean(r, c, b) /\ q[e].frames = Run(c, b)
    <3>1. CASE e = m
      <4>1. a \in 1..n /\ n \in a..n
        BY <1>1
      <4>2. QED
        BY <3>1, <4>1, <2>2, <1>6
    <3>2. CASE e # m
      <4>1. e \in 1..Len(eps) /\ q[e] = eps[e]
        BY <3>2, <2>1, <2>5
      <4>2. QED
        BY <4>1, <1>3
    <3>3. QED
      BY <3>1, <3>2
  <2>7. ASSUME NEW d \in 1..Len(q), NEW e \in 1..Len(q), d < e
        PROVE  q[d].frames[1] < q[e].frames[1]
    <3>1. d \in 1..Len(eps)
      BY <1>1, <2>1, <2>5, <2>7
    <3>2. CASE e = m
      BY <3>1, <3>2, <1>3, <2>1, <2>4
    <3>3. CASE e # m
      BY <3>1, <3>3, <2>1, <2>5, <2>7 DEF Collected
    <3>4. QED
      BY <3>2, <3>3
  <2>8. ASSUME NEW i \in 1..n, \A k \in 1..n : r[k].start = r[i].start => r[k].two
        PROVE  \E e \in 1..Len(q) : \E k \in 1..Len(q[e].frames) : q[e].frames[k] = i
    <3>1. CASE i \in a..n
      <4>1. i - a + 1 \in 1..(n - a + 1) /\ a + (i - a + 1) - 1 = i
        BY <1>1, <3>1
      <4>2. q[m].frames[i - a + 1] = i /\ i - a + 1 \in 1..Len(q[m].frames) /\ m \in 1..Len(q)
        BY <4>1, <2>1, <2>2, <2>3, <2>5
      <4>3. QED
        BY <4>2
    <3>2. CASE i \notin a..n
      <4>1. PICK e \in 1..Len(eps) : \E k \in 1..Len(eps[e].frames) : eps[e].frames[k] = i
        BY <3>2, <1>4, <2>8
      <4>2. e \in 1..Len(q) /\ q[e] = eps[e]
        BY <2>1, <2>5
      <4>3. QED
        BY <4>1, <4>2
    <3>3. QED
      BY <3>1, <3>2
  <2>9. Collected(r, q, n)
    BY <2>6, <2>7, <2>8 DEF Collected
  <2>10. QED
    BY <2>9 DEF q
<1>7. QED
  BY <1>5, <1>6

\* SavePrevious at the end of a recording.
LEMMA SaveCollected ==
  ASSUME ReaderTypes, read # 0, CollectInv
  PROVE  Collected(rows, Reader!SavePrevious, read) /\ Reader!SavePrevious \in Seq(EpisodeType)
<1>1. PICK a \in 1..read :
        /\ current.start = rows[a].start /\ Block(rows, a, read, read)
        /\ Collected(rows, episodes, a - 1)
        /\ current.frames = IF Clean(rows, a, read) THEN Run(a, read) ELSE NoEpisode
  BY DEF CollectInv
<1>2. /\ rows \in Seq(RowIn) /\ read \in 1..Len(rows) /\ episodes \in Seq(EpisodeType)
      /\ current # NoEpisode /\ current.num = Len(episodes) + 1
      /\ a \in Nat \ {0} /\ read \in Nat /\ a <= read /\ Len(episodes) + 1 \in Nat
  BY DEF ReaderTypes, CollectInv, N
<1>3. CASE Clean(rows, a, read)
  <2>1. current.frames = Run(a, read) /\ Run(a, read) # <<>> /\ Run(a, read) # NoEpisode
        /\ Run(a, read) \in Seq(Nat)
    BY <1>1, <1>2, <1>3, RunIs
  <2>2. Reader!SavePrevious = Append(episodes, [frames |-> Run(a, read), num |-> Len(episodes) + 1])
    BY <1>2, <2>1 DEF Reader!SavePrevious
  <2>3. [frames |-> Run(a, read), num |-> Len(episodes) + 1] \in EpisodeType
    BY <1>2, <2>1 DEF EpisodeType
  <2>4. QED
    BY <1>1, <1>2, <1>3, <2>2, <2>3, BlockEnds
<1>4. CASE ~Clean(rows, a, read)
  <2>1. Reader!SavePrevious = episodes
    BY <1>1, <1>4 DEF Reader!SavePrevious
  <2>2. QED
    BY <1>1, <1>2, <1>4, <2>1, BlockEnds
<1>5. QED
  BY <1>3, <1>4

LEMMA NewCurrent ==
  ASSUME NEW ep \in CurrentType, NEW f \in Seq(Nat) \cup {NoEpisode}
  PROVE  LET c == [ep EXCEPT !.frames = f]
         IN c \in CurrentType /\ c # NoEpisode /\ c.start = ep.start /\ c.num = ep.num /\ c.frames = f
<1> DEFINE c == [ep EXCEPT !.frames = f]
<1>1. c \in CurrentType /\ c.start = ep.start /\ c.num = ep.num /\ c.frames = f
  BY DEF CurrentType
<1> HIDE DEF c
<1>2. c # NoEpisode
  BY <1>1, NilAssumption DEF CurrentType
<1>3. QED
  BY <1>1, <1>2 DEF c

\* A row begins a recording or continues the current one.
LEMMA RowStep ==
  ASSUME ReaderTypes, CollectInv, Reader!CollectRow
  PROVE  ReaderTypes' /\ CollectInv'
<1> DEFINE i == read + 1
           fresh == current = NoEpisode \/ rows[i].start # current.start
           eps == IF fresh THEN Reader!SavePrevious ELSE episodes
           ep == IF fresh THEN [start |-> rows[i].start, frames |-> <<>>, num |-> Len(eps) + 1]
                          ELSE current
           f == Reader!FramesWith(ep, i)
<1>1. /\ rows \in Seq(RowIn) /\ read \in Nat /\ i \in 1..Len(rows) /\ i \in Nat \ {0}
      /\ episodes \in Seq(EpisodeType) /\ current \in CurrentType \cup {NoEpisode}
      /\ \A h, k \in 1..Len(rows) : h <= k => rows[h].start <= rows[k].start
      /\ gridPc = "collect" /\ read' = i /\ episodes' = eps /\ current' = [ep EXCEPT !.frames = f]
      /\ UNCHANGED <<rows, gridPc, gridIdx, frameIdx, jobs>>
  BY DEF ReaderTypes, N, Reader!CollectRow
<1>2. rows[i] \in RowIn /\ rows[i].start \in Nat /\ rows[i].two \in BOOLEAN
  <2>1. rows[i] \in RowIn
    BY <1>1
  <2>2. QED
    BY <2>1, FileAssumption DEF RowIn
<1>3. \A k \in 1..Len(rows) : rows[k].start \in Nat
  <2>1. \A k \in 1..Len(rows) : rows[k] \in RowIn
    BY <1>1
  <2>2. QED
    BY <2>1, FileAssumption DEF RowIn
\* Enough for both cases.
<1>4. ASSUME NEW a \in 1..i, eps \in Seq(EpisodeType), ep \in CurrentType,
             ep.start = rows[a].start, ep.num = Len(eps) + 1,
             Block(rows, a, i, i), Collected(rows, eps, a - 1),
             f = IF Clean(rows, a, i) THEN Run(a, i) ELSE NoEpisode
      PROVE  ReaderTypes' /\ CollectInv'
  <2> HIDE DEF i, eps, ep, f
  <2>1. f \in Seq(Nat) \cup {NoEpisode}
    <3>1. a \in Nat \ {0} /\ a <= i
      BY <1>1, <1>4
    <3>2. Run(a, i) \in Seq(Nat)
      BY <1>1, <3>1, RunIs
    <3>3. QED
      BY <1>4, <3>2
  <2>2. /\ current' \in CurrentType /\ current' # NoEpisode
        /\ current'.start = ep.start /\ current'.num = ep.num /\ current'.frames = f
    BY <1>1, <1>4, <2>1, NewCurrent
  <2>3. ReaderTypes'
    <3>1. i \in 0..Len(rows)
      BY <1>1
    <3>2. QED
      BY <1>1, <1>4, <2>2, <3>1 DEF ReaderTypes, N
  <2>4. CollectInv'
    BY <1>1, <1>4, <2>2 DEF CollectInv
  <2>5. QED
    BY <2>3, <2>4
<1>5. CASE fresh
  <2>1. Collected(rows, eps, read) /\ eps \in Seq(EpisodeType)
    <3>1. eps = Reader!SavePrevious
      BY <1>5
    <3>2. CASE read = 0
      <4>1. eps = <<>>
        BY <3>1, <3>2 DEF CollectInv, Reader!SavePrevious
      <4>2. Collected(rows, <<>>, 0)
        BY DEF Collected
      <4>3. <<>> \in Seq(EpisodeType)
        OBVIOUS
      <4> HIDE DEF eps
      <4>4. QED
        BY <3>2, <4>1, <4>2, <4>3
    <3>3. CASE read # 0
      BY <3>1, <3>3, SaveCollected
    <3>4. QED
      BY <3>2, <3>3
  <2>2. \A k \in 1..read : rows[k].start # rows[i].start
    <3> SUFFICES ASSUME NEW k \in 1..read PROVE rows[k].start # rows[i].start
      OBVIOUS
    <3>1. read # 0 /\ read \in 1..read /\ read \in 1..Len(rows) /\ k \in 1..Len(rows) /\ k <= read
      BY <1>1
    <3>2. PICK a \in 1..read : current.start = rows[a].start /\ Block(rows, a, read, read)
      BY <3>1 DEF CollectInv
    <3>3. rows[read].start = rows[a].start
      <4>1. read \in a..read
        BY <3>1, <3>2
      <4>2. QED
        BY <3>1, <3>2, <4>1 DEF Block
    <3>4. rows[read].start # rows[i].start
      BY <1>5, <3>1, <3>2, <3>3 DEF CollectInv
    <3>5. rows[k].start <= rows[read].start /\ rows[read].start <= rows[i].start
      BY <1>1, <3>1
    <3>6. QED
      <4>1. rows[k].start \in Nat /\ rows[read].start \in Nat /\ rows[i].start \in Nat
        BY <1>1, <1>3, <3>1
      <4>2. QED
        BY <3>4, <3>5, <4>1
  <2>3. Block(rows, i, i, i)
    <3> HIDE DEF i
    <3>1. \A k \in 1..i : k \in i..i <=> k = i
      BY <1>1
    <3>2. \A k \in 1..i : k # i => k \in 1..read
      BY <1>1 DEF i
    <3>3. QED
      BY <2>2, <3>1, <3>2 DEF Block
  <2>4. /\ ep \in CurrentType /\ ep.start = rows[i].start /\ ep.num = Len(eps) + 1 /\ ep.frames = <<>>
    <3>1. Len(eps) + 1 \in Nat /\ <<>> \in Seq(Nat)
      BY <2>1
    <3>2. ep = [start |-> rows[i].start, frames |-> <<>>, num |-> Len(eps) + 1]
      BY <1>5
    <3> HIDE DEF ep, eps, i
    <3>3. QED
      BY <3>1, <3>2, <1>2 DEF CurrentType
  <2>5. f = IF Clean(rows, i, i) THEN Run(i, i) ELSE NoEpisode
    <3>1. <<>> # NoEpisode
      <4>1. <<>> \in Seq(Nat)
        OBVIOUS
      <4>2. QED
        BY <4>1, NilAssumption
    <3>2. Append(<<>>, i) = Run(i, i)
      BY <1>1, RunIs
    <3>3. Clean(rows, i, i) <=> rows[i].two
      <4> HIDE DEF i
      <4>1. \A k : k \in i..i <=> k = i
        BY <1>1
      <4>2. QED
        BY <4>1 DEF Clean
    <3>4. f = IF rows[i].two /\ ep.frames # NoEpisode THEN Append(ep.frames, i) ELSE NoEpisode
      BY DEF Reader!FramesWith
    <3> HIDE DEF ep, i, f
    <3>5. QED
      BY <2>4, <3>1, <3>2, <3>3, <3>4
  <2>6. i \in 1..i /\ i - 1 = read
    BY <1>1
  <2> HIDE DEF i, eps, ep, f, fresh
  <2>7. Collected(rows, eps, i - 1)
    BY <2>1, <2>6
  <2>8. QED
    BY <1>4, <2>1, <2>3, <2>4, <2>5, <2>6, <2>7
<1>6. CASE ~fresh
  <2>1. current # NoEpisode /\ rows[i].start = current.start /\ read # 0 /\ eps = episodes /\ ep = current
    BY <1>6 DEF CollectInv
  <2>2. PICK a \in 1..read :
           /\ current.start = rows[a].start /\ Block(rows, a, read, read)
           /\ Collected(rows, episodes, a - 1)
           /\ current.frames = IF Clean(rows, a, read) THEN Run(a, read) ELSE NoEpisode
    BY <2>1 DEF CollectInv
  <2>3. current.num = Len(episodes) + 1
    BY <2>1 DEF CollectInv
  <2>4. a \in 1..i /\ a \in Nat \ {0} /\ a <= read /\ \A k : k \in a..i <=> k \in a..read \/ k = i
    BY <1>1
  <2>5. Block(rows, a, i, i)
    <3> HIDE DEF i
    <3>1. \A k \in 1..i : k = i \/ k \in 1..read
      BY <1>1 DEF i
    <3>2. \A k \in 1..read : k # i
      BY <1>1 DEF i
    <3>3. QED
      BY <2>1, <2>2, <2>4, <3>1, <3>2 DEF Block
  <2>6. f = IF Clean(rows, a, i) THEN Run(a, i) ELSE NoEpisode
    <3>1. Run(a, read) # NoEpisode /\ Append(Run(a, read), i) = Run(a, i)
      BY <1>1, <2>4, RunIs
    <3>2. Clean(rows, a, i) <=> Clean(rows, a, read) /\ rows[i].two
      <4> HIDE DEF i
      <4>1. QED
        BY <2>4 DEF Clean
    <3>3. f = IF rows[i].two /\ current.frames # NoEpisode THEN Append(current.frames, i) ELSE NoEpisode
      BY <2>1 DEF Reader!FramesWith
    <3> HIDE DEF ep, i, f
    <3>4. QED
      BY <2>2, <3>1, <3>2, <3>3
  <2> HIDE DEF i, eps, ep, f, fresh
  <2>7. QED
    BY <1>1, <1>4, <2>1, <2>2, <2>3, <2>4, <2>5, <2>6
<1>7. QED
  BY <1>5, <1>6

\* A recording that has the end of the file as its end.
LEMMA EndsStep ==
  ASSUME ReaderTypes, CollectInv, jobs = <<>>, gridIdx = 0, Reader!CollectEnds
  PROVE  ReaderTypes' /\ Collected(rows, episodes, N)' /\ LayoutInv'
<1>1. /\ gridPc' = "grid" /\ episodes' = Reader!SavePrevious /\ read = Len(rows)
      /\ UNCHANGED <<rows, read, current, gridIdx, frameIdx, jobs>>
  BY DEF Reader!CollectEnds
<1>2. Collected(rows, episodes', read) /\ episodes' \in Seq(EpisodeType)
  <2>1. CASE read = 0
    <3>1. episodes' = <<>> /\ <<>> \in Seq(EpisodeType)
      BY <1>1, <2>1 DEF CollectInv, Reader!SavePrevious
    <3>2. Collected(rows, <<>>, 0)
      BY DEF Collected
    <3>3. QED
      BY <2>1, <3>1, <3>2
  <2>2. CASE read # 0
    BY <1>1, <2>2, SaveCollected
  <2>3. QED
    BY <2>1, <2>2
<1>3. ReaderTypes'
  BY <1>1, <1>2 DEF ReaderTypes, N
<1>4. LayoutInv'
  <2>1. Upto(0) = 0 /\ GridSize \in Nat
    BY FileAssumption DEF Upto
  <2>2. jobs' = <<>> /\ gridIdx' = 0 /\ gridPc' = "grid"
    BY <1>1
  <2>3. \A e \in 1..Len(episodes') : ~(e <= 0)
    OBVIOUS
  <2>4. \A j : j \notin 1..Len(<<>>)
    OBVIOUS
  <2> HIDE DEF Upto
  <2>5. QED
    BY <2>1, <2>2, <2>3, <2>4 DEF LayoutInv, ShowsSent, ShowsOnce, NeverBlack, GridsShown, GridShown, InGrid
<1>5. QED
  BY <1>1, <1>2, <1>3, <1>4 DEF N

-----------------------------------------------------------------------------
\* The first episode after a grid, and the number of grids.
LEMMA UptoIs ==
  ASSUME NEW g \in Nat
  PROVE  Upto(g) \in Nat /\ Upto(g + 1) = Upto(g) + GridSize
BY FileAssumption DEF Upto

LEMMA GridsCover ==
  ASSUME NEW n \in Nat, NEW g \in Nat
  PROVE  LET q == (n + GridSize - 1) \div GridSize
         IN /\ g < q => Upto(g) < n
            /\ g = q => n <= Upto(g)
<1> DEFINE m == n + GridSize - 1
           q == m \div GridSize
<1>1. /\ GridSize \in Nat /\ GridSize > 0 /\ m \in Nat /\ q \in Int /\ m % GridSize \in 0..(GridSize - 1)
      /\ m = GridSize * q + (m % GridSize)
  BY FileAssumption
<1> HIDE DEF q
<1>2. q >= 0
  BY <1>1
<1>3. ASSUME g < q PROVE Upto(g) < n
  <2>1. q - g >= 1 /\ q - g \in Nat
    BY <1>1, <1>3
  <2>2. GridSize * (q - g) >= GridSize
    BY <1>1, <2>1
  <2>3. GridSize * q = GridSize * g + GridSize * (q - g)
    BY <1>1
  <2>4. GridSize * g = Upto(g)
    BY <1>1 DEF Upto
  <2>5. GridSize * g \in Int /\ GridSize * q \in Int
    BY <1>1
  <2>6. QED
    BY <1>1, <2>2, <2>3, <2>4, <2>5
<1>4. ASSUME g = q PROVE n <= Upto(g)
  <2>1. GridSize * q = Upto(g)
    BY <1>1, <1>4 DEF Upto
  <2>2. QED
    BY <1>1, <2>1
<1>5. QED
  BY <1>3, <1>4 DEF q

\* The episodes of the grid at hand, their cells, and the number of its frames.
LEMMA GridIs ==
  ASSUME ReaderTypes, Upto(gridIdx) < Len(episodes)
  PROVE  LET u == Upto(gridIdx)
             m == IF u + GridSize <= Len(episodes) THEN GridSize ELSE Len(episodes) - u
         IN /\ Len(Reader!GridEpisodes) = m /\ DOMAIN Reader!GridEpisodes = 1..m
            /\ \A i \in 1..m : Reader!GridEpisodes[i] = episodes[u + i]
<1> DEFINE u == Upto(gridIdx)
           m == IF u + GridSize <= Len(episodes) THEN GridSize ELSE Len(episodes) - u
<1>1. /\ u \in Nat /\ GridSize \in Nat \ {0} /\ Len(episodes) \in Nat /\ episodes \in Seq(EpisodeType)
      /\ u < Len(episodes)
  BY FileAssumption, UptoIs DEF ReaderTypes
<1>2. Reader!Min({u + GridSize, Len(episodes)}) = u + m
  <2> DEFINE T == {u + GridSize, Len(episodes)}
  <2>1. u + m \in T /\ \A x \in T : u + m <= x
    BY <1>1
  <2>2. ASSUME NEW z \in T, \A x \in T : z <= x PROVE z = u + m
    BY <1>1, <2>1, <2>2
  <2> HIDE DEF T, u, m
  <2>3. QED
    BY <2>1, <2>2 DEF Reader!Min, T
<1>3. m \in Nat \ {0} /\ u + m <= Len(episodes)
  BY <1>1
<1>4. Reader!GridEpisodes = SubSeq(episodes, u + 1, u + m)
  BY <1>2 DEF Reader!GridEpisodes, Upto
<1> HIDE DEF u, m
<1>5. /\ Len(Reader!GridEpisodes) = m /\ DOMAIN Reader!GridEpisodes = 1..m
      /\ \A i \in 1..m : Reader!GridEpisodes[i] = episodes[u + i]
  <2>1. u + 1 \in 1..Len(episodes) /\ u + m \in 1..Len(episodes) /\ u + m - (u + 1) + 1 = m
    BY <1>1, <1>3
  <2>2. SubSeq(episodes, u + 1, u + m) = [i \in 1..m |-> episodes[u + i]]
    <3>1. SubSeq(episodes, u + 1, u + m) = [i \in 1..(u + m - (u + 1) + 1) |-> episodes[i + (u + 1) - 1]]
      BY <1>1, <1>3
    <3>2. \A i \in 1..m : i + (u + 1) - 1 = u + i
      BY <1>1, <1>3
    <3>3. QED
      BY <2>1, <3>1, <3>2
  <2>3. Len([i \in 1..m |-> episodes[u + i]]) = m
    BY <1>3
  <2>4. QED
    BY <1>4, <2>2, <2>3
<1>6. QED
  BY <1>5 DEF u, m

\* The episodes are numbered, none is longer than the file, and no two share a row.
LEMMA EpisodeFacts ==
  ASSUME ReaderTypes, Collected(rows, episodes, N)
  PROVE  /\ \A e \in 1..Len(episodes) :
              /\ episodes[e].num = e /\ episodes[e].frames \in Seq(Nat)
              /\ Len(episodes[e].frames) \in 1..N
              /\ \A k \in 1..Len(episodes[e].frames) : episodes[e].frames[k] \in 1..N
         /\ \A d, e \in 1..Len(episodes) :
              \A k \in 1..Len(episodes[d].frames), l \in 1..Len(episodes[e].frames) :
                episodes[d].frames[k] = episodes[e].frames[l] => d = e /\ k = l
<1>1. N \in Nat /\ Len(episodes) \in Nat
  BY DEF ReaderTypes, N
<1>2. ASSUME NEW e \in 1..Len(episodes)
      PROVE  \E a, b \in 1..N :
               /\ a <= b /\ episodes[e].num = e /\ episodes[e].frames \in Seq(Nat)
               /\ Len(episodes[e].frames) = b - a + 1 /\ Block(rows, a, b, N)
               /\ \A k \in 1..(b - a + 1) : episodes[e].frames[k] = a + k - 1
  <2>1. PICK a \in 1..N : \E b \in a..N : Block(rows, a, b, N) /\ episodes[e].frames = Run(a, b)
    BY DEF Collected
  <2>2. PICK b \in a..N : Block(rows, a, b, N) /\ episodes[e].frames = Run(a, b)
    BY <2>1
  <2>3. a \in Nat \ {0} /\ b \in Nat /\ a <= b /\ b \in 1..N
    BY <1>1
  <2>4. /\ Run(a, b) \in Seq(Nat) /\ Len(Run(a, b)) = b - a + 1
        /\ \A k \in 1..(b - a + 1) : Run(a, b)[k] = a + k - 1
    BY <2>3, RunIs
  <2>5. episodes[e].num = e
    BY DEF Collected
  <2>6. QED
    BY <2>2, <2>3, <2>4, <2>5
<1>3. ASSUME NEW e \in 1..Len(episodes)
      PROVE  /\ episodes[e].num = e /\ episodes[e].frames \in Seq(Nat)
             /\ Len(episodes[e].frames) \in 1..N
             /\ \A k \in 1..Len(episodes[e].frames) : episodes[e].frames[k] \in 1..N
  <2>1. PICK a, b \in 1..N :
               /\ a <= b /\ episodes[e].num = e /\ episodes[e].frames \in Seq(Nat)
               /\ Len(episodes[e].frames) = b - a + 1
               /\ \A k \in 1..(b - a + 1) : episodes[e].frames[k] = a + k - 1
    BY <1>2
  <2>2. b - a + 1 \in 1..N /\ \A k \in 1..(b - a + 1) : a + k - 1 \in 1..N
    BY <1>1, <2>1
  <2>3. QED
    BY <2>1, <2>2
<1>4. ASSUME NEW d \in 1..Len(episodes), NEW e \in 1..Len(episodes),
             NEW k \in 1..Len(episodes[d].frames), NEW l \in 1..Len(episodes[e].frames),
             episodes[d].frames[k] = episodes[e].frames[l]
      PROVE  d = e /\ k = l
  <2>1. PICK a, b \in 1..N :
               /\ a <= b /\ Len(episodes[d].frames) = b - a + 1 /\ Block(rows, a, b, N)
               /\ \A h \in 1..(b - a + 1) : episodes[d].frames[h] = a + h - 1
    BY <1>2
  <2>2. PICK c, f \in 1..N :
               /\ c <= f /\ Len(episodes[e].frames) = f - c + 1 /\ Block(rows, c, f, N)
               /\ \A h \in 1..(f - c + 1) : episodes[e].frames[h] = c + h - 1
    BY <1>2
  <2>3. k \in 1..(b - a + 1) /\ l \in 1..(f - c + 1) /\ a + k - 1 = c + l - 1
    BY <2>1, <2>2, <1>4
  <2>4. a + k - 1 \in 1..N /\ a + k - 1 \in a..b /\ a + k - 1 \in c..f
        /\ a \in 1..N /\ c \in 1..N /\ a \in a..b /\ c \in c..f
    BY <1>1, <2>1, <2>2, <2>3
  <2>5. rows[a].start = rows[c].start
    BY <2>1, <2>2, <2>4 DEF Block
  <2>6. c \in a..b /\ a \in c..f
    BY <2>1, <2>2, <2>4, <2>5 DEF Block
  <2>7. a = c /\ k = l
    BY <1>1, <2>3, <2>6
  <2>8. episodes[d].frames[1] = a /\ episodes[e].frames[1] = a
    <3>1. 1 \in 1..(b - a + 1) /\ 1 \in 1..(f - c + 1) /\ a + 1 - 1 = a
      BY <1>1, <2>1, <2>2
    <3>2. QED
      BY <3>1, <2>1, <2>2, <2>7
  <2>9. ~(d < e) /\ ~(e < d)
    <3>1. ~(a < a)
      BY <1>1
    <3>2. QED
      BY <3>1, <2>8 DEF Collected
  <2>10. QED
    BY <2>7, <2>9
<1>5. QED
  BY <1>3, <1>4

\* A grid has as many frames as its longest episode.
LEMMA MaxFramesIs ==
  ASSUME ReaderTypes, Collected(rows, episodes, N), Upto(gridIdx) < Len(episodes)
  PROVE  LET u == Upto(gridIdx)
             m == IF u + GridSize <= Len(episodes) THEN GridSize ELSE Len(episodes) - u
         IN /\ \A i \in 1..m : Len(episodes[u + i].frames) <= Reader!MaxFrames
            /\ \A x \in Nat : x < Reader!MaxFrames => \E i \in 1..m : x < Len(episodes[u + i].frames)
<1> DEFINE u == Upto(gridIdx)
           m == IF u + GridSize <= Len(episodes) THEN GridSize ELSE Len(episodes) - u
           S == {0} \cup {Len(Reader!GridEpisodes[i].frames) : i \in DOMAIN Reader!GridEpisodes}
<1>1. DOMAIN Reader!GridEpisodes = 1..m /\ \A i \in 1..m : Reader!GridEpisodes[i] = episodes[u + i]
  BY GridIs
<1>2. u \in Nat /\ m \in Nat /\ N \in Nat /\ \A i \in 1..m : u + i \in 1..Len(episodes)
  <2>1. u \in Nat /\ N \in Nat /\ Len(episodes) \in Nat /\ u < Len(episodes)
    <3>1. gridIdx \in Nat /\ rows \in Seq(RowIn) /\ episodes \in Seq(EpisodeType)
      BY DEF ReaderTypes
    <3>2. u \in Nat
      BY <3>1, UptoIs
    <3>3. QED
      BY <3>1, <3>2 DEF N
  <2> HIDE DEF u
  <2>2. QED
    BY <2>1, FileAssumption
<1> HIDE DEF u, m
<1>3. S = {0} \cup {Len(episodes[u + i].frames) : i \in 1..m}
  BY <1>1
<1>4. \A i \in 1..m : Len(episodes[u + i].frames) \in 0..N
  BY <1>2, EpisodeFacts
<1>5. S \subseteq 0..N /\ S # {}
  <2> HIDE DEF S
  <2>1. 0 \in 0..N
    BY <1>2
  <2>2. QED
    BY <2>1, <1>3, <1>4
<1>6. Reader!MaxFrames = Reader!Max(S)
  BY DEF Reader!MaxFrames
<1> HIDE DEF S
<1>7. Reader!Max(S) \in S /\ \A x \in S : x <= Reader!Max(S)
  BY <1>2, <1>5, MaxIsLargest
<1>8. \A i \in 1..m : Len(episodes[u + i].frames) <= Reader!MaxFrames
  BY <1>3, <1>6, <1>7
<1>9. ASSUME NEW x \in Nat, x < Reader!MaxFrames
      PROVE  \E i \in 1..m : x < Len(episodes[u + i].frames)
  <2>1. Reader!MaxFrames # 0
    BY <1>9
  <2>2. PICK i \in 1..m : Reader!MaxFrames = Len(episodes[u + i].frames)
    BY <1>3, <1>6, <1>7, <2>1
  <2>3. QED
    BY <1>9, <2>2
<1>10. QED
  BY <1>8, <1>9 DEF u, m

\* A frame of the grid is sent.
LEMMA JobStep ==
  ASSUME ReaderTypes, Collected(rows, episodes, N), LayoutInv, Reader!SendJob
  PROVE  ReaderTypes' /\ LayoutInv'
<1> DEFINE u == Upto(gridIdx)
           m == IF u + GridSize <= Len(episodes) THEN GridSize ELSE Len(episodes) - u
           x == frameIdx
           L == Len(jobs)
           J == [i \in 1..GridSize |-> Reader!Cell(i)]
           Frames(e) == episodes[e].frames
           Before(e, k) == Sent("frames", gridIdx, x, e, k)
           Now(e, k) == Sent("frames", gridIdx, x + 1, e, k)
<1>1. /\ gridPc = "frames" /\ x < Reader!MaxFrames /\ jobs' = Append(jobs, J) /\ frameIdx' = x + 1
      /\ UNCHANGED <<rows, read, current, episodes, gridPc, gridIdx>>
  BY DEF Reader!SendJob
<1>2. /\ u \in Nat /\ x \in Nat /\ L \in Nat /\ gridIdx \in Nat /\ Len(episodes) \in Nat
      /\ u < Len(episodes) /\ x <= L /\ jobs \in Seq([1..GridSize -> CellType])
      /\ GridSize \in Nat \ {0}
  <2>1. gridIdx \in Nat /\ x \in Nat /\ episodes \in Seq(EpisodeType)
        /\ jobs \in Seq([1..GridSize -> CellType])
    BY DEF ReaderTypes
  <2>2. u \in Nat
    BY <2>1, UptoIs
  <2>3. QED
    BY <1>1, <2>1, <2>2, FileAssumption DEF LayoutInv
<1> HIDE DEF u
<1>3. m \in 1..GridSize /\ \A i \in 1..m : u + i \in 1..Len(episodes) /\ u + i <= u + GridSize
  BY <1>2
<1>4. \A i : i \in 1..m <=> i \in 1..GridSize /\ u + i <= Len(episodes)
  BY <1>2
<1>5. /\ \A e \in 1..Len(episodes) :
           /\ episodes[e].num = e /\ Frames(e) \in Seq(Nat) /\ Len(Frames(e)) \in Nat
           /\ \A k \in 1..Len(Frames(e)) : Frames(e)[k] \in Nat \ {0}
  <2>1. N \in Nat
    BY DEF ReaderTypes, N
  <2>2. QED
    BY <2>1, EpisodeFacts
<1>25. ASSUME NEW d \in 1..Len(episodes), NEW e \in 1..Len(episodes),
              NEW k \in 1..Len(Frames(d)), NEW l \in 1..Len(Frames(e)), Frames(d)[k] = Frames(e)[l]
       PROVE  d = e /\ k = l
  BY <1>25, EpisodeFacts
<1>6. ASSUME NEW i \in 1..GridSize
      PROVE  J[i] = IF i \in 1..m /\ x < Len(Frames(u + i)) THEN CellOf(episodes, u + i, x + 1) ELSE Black
  <2>1. /\ Len(Reader!GridEpisodes) = m /\ \A h \in 1..m : Reader!GridEpisodes[h] = episodes[u + h]
    BY <1>2, GridIs DEF u
  <2>2. i <= m <=> i \in 1..m
    BY <1>3
  <2>3. i \in 1..m => episodes[u + i].num = u + i
    BY <1>3, <1>5
  <2> HIDE DEF m
  <2>4. QED
    BY <2>1, <2>2, <2>3 DEF Reader!Cell, CellOf, Black
<1> DEFINE Drawn(i) == i \in 1..m /\ x < Len(Frames(u + i))
<1>7. ASSUME NEW i \in 1..GridSize, Drawn(i)
      PROVE  /\ u + i \in 1..Len(episodes) /\ x + 1 \in 1..Len(Frames(u + i))
             /\ J[i] = CellOf(episodes, u + i, x + 1) /\ J[i].frame = Frames(u + i)[x + 1] /\ J[i].num = u + i
             /\ J[i].frame \in Nat \ {0} /\ J[i].num \in Nat \ {0}
             /\ Now(u + i, x + 1) /\ ~Before(u + i, x + 1)
  <2>1. u + i \in 1..Len(episodes) /\ x + 1 \in 1..Len(Frames(u + i))
    <3>1. u + i \in 1..Len(episodes)
      BY <1>3, <1>7
    <3>2. Len(Frames(u + i)) \in Nat
      BY <1>5, <3>1
    <3>3. QED
      BY <1>2, <1>7, <3>1, <3>2
  <2>2. J[i] = CellOf(episodes, u + i, x + 1)
    BY <1>6, <1>7
  <2>3. J[i].frame = Frames(u + i)[x + 1] /\ J[i].num = u + i
    BY <2>2 DEF CellOf
  <2>4. J[i].frame \in Nat \ {0} /\ J[i].num \in Nat \ {0}
    <3>1. Frames(u + i)[x + 1] \in Nat \ {0}
      BY <1>5, <2>1
    <3>2. u + i \in Nat \ {0}
      BY <2>1
    <3> HIDE DEF J
    <3>3. QED
      BY <2>3, <3>1, <3>2
  <2>5. Now(u + i, x + 1) /\ ~Before(u + i, x + 1)
    <3>1. u < u + i /\ u + i <= u + GridSize /\ ~(u + i <= u) /\ x + 1 <= x + 1 /\ ~(x + 1 <= x)
      BY <1>2, <1>3, <1>7
    <3>2. QED
      BY <3>1 DEF Sent, InGrid, u
  <2>6. QED
    BY <2>1, <2>2, <2>3, <2>4, <2>5
<1>8. ASSUME NEW i \in 1..GridSize, ~Drawn(i)
      PROVE  J[i] = Black /\ J[i].frame = 0
  BY <1>6, <1>8 DEF Black
<1>9. J \in [1..GridSize -> CellType]
  <2>1. \A i \in 1..GridSize : J[i] \in CellType
    <3> SUFFICES ASSUME NEW i \in 1..GridSize PROVE J[i] \in CellType
      OBVIOUS
    <3>1. CASE Drawn(i)
      BY <3>1, <1>7 DEF CellOf, CellType
    <3>2. CASE ~Drawn(i)
      BY <3>2, <1>8 DEF Black, CellType
    <3>3. QED
      BY <3>1, <3>2
  <2>2. QED
    BY <2>1
<1> HIDE DEF J, m, Drawn
<1>10. /\ jobs' \in Seq([1..GridSize -> CellType]) /\ Len(jobs') = L + 1 /\ jobs'[L + 1] = J
       /\ \A j \in 1..L : jobs'[j] = jobs[j]
  BY <1>1, <1>2, <1>9
<1>11. ReaderTypes'
  BY <1>1, <1>2, <1>10 DEF ReaderTypes, N
<1>12. \A j : j \in 1..(L + 1) <=> j \in 1..L \/ j = L + 1
  BY <1>2
<1>13. \A e, k : Before(e, k) /\ k \in Nat => Now(e, k)
  BY <1>2 DEF Sent
\* Where the frames of the jobs before come from.
<1>14. ASSUME NEW j \in 1..L, NEW i \in 1..GridSize
       PROVE  \/ jobs[j][i] = Black
              \/ \E e \in 1..Len(episodes) : \E k \in 1..Len(Frames(e)) :
                   Before(e, k) /\ jobs[j][i] = CellOf(episodes, e, k)
  BY <1>1 DEF LayoutInv, ShowsSent
<1>15. ASSUME NEW j \in 1..(L + 1), NEW i \in 1..GridSize
       PROVE  \/ jobs'[j][i] = Black
              \/ \E e \in 1..Len(episodes) : \E k \in 1..Len(Frames(e)) :
                   Now(e, k) /\ jobs'[j][i] = CellOf(episodes, e, k)
  <2>1. CASE j = L + 1
    BY <2>1, <1>7, <1>8, <1>10
  <2>2. CASE j \in 1..L
    <3>1. CASE jobs[j][i] = Black
      BY <2>2, <3>1, <1>10
    <3>2. CASE jobs[j][i] # Black
      <4>1. PICK e \in 1..Len(episodes) : \E k \in 1..Len(Frames(e)) :
              Before(e, k) /\ jobs[j][i] = CellOf(episodes, e, k)
        BY <2>2, <3>2, <1>14
      <4>2. PICK k \in 1..Len(Frames(e)) : Before(e, k) /\ jobs[j][i] = CellOf(episodes, e, k)
        BY <4>1
      <4>3. Now(e, k)
        BY <4>2, <1>13
      <4>4. QED
        BY <2>2, <4>2, <4>3, <1>10
    <3>3. QED
      BY <3>1, <3>2
  <2>3. QED
    BY <2>1, <2>2, <1>12
\* A frame of the new job is in no job before.
<1>16. ASSUME NEW j \in 1..L, NEW i \in 1..GridSize, NEW l \in 1..GridSize, J[l].frame # 0
       PROVE  jobs[j][i].frame # J[l].frame
  <2>1. Drawn(l)
    BY <1>8, <1>16
  <2>2. CASE jobs[j][i] = Black
    BY <2>2, <1>16 DEF Black
  <2>3. CASE jobs[j][i] # Black
    <3>1. PICK e \in 1..Len(episodes) : \E k \in 1..Len(Frames(e)) :
            Before(e, k) /\ jobs[j][i] = CellOf(episodes, e, k)
      BY <2>3, <1>14
    <3>2. PICK k \in 1..Len(Frames(e)) : Before(e, k) /\ jobs[j][i] = CellOf(episodes, e, k)
      BY <3>1
    <3>3. jobs[j][i].frame = Frames(e)[k]
      BY <3>2 DEF CellOf
    <3>4. /\ u + l \in 1..Len(episodes) /\ x + 1 \in 1..Len(Frames(u + l))
          /\ J[l].frame = Frames(u + l)[x + 1] /\ ~Before(u + l, x + 1)
      BY <2>1, <1>7
    <3>5. ASSUME jobs[j][i].frame = J[l].frame PROVE FALSE
      <4>1. Frames(e)[k] = Frames(u + l)[x + 1]
        BY <3>3, <3>4, <3>5
      <4>2. e = u + l /\ k = x + 1
        BY <3>4, <4>1, <1>25
      <4> HIDE DEF Before
      <4>3. QED
        BY <3>2, <3>4, <4>2
    <3>6. QED
      BY <3>5
  <2>4. QED
    BY <2>2, <2>3
<1>17. ASSUME NEW i \in 1..GridSize, NEW l \in 1..GridSize, J[i].frame # 0, J[i].frame = J[l].frame
       PROVE  i = l
  <2>1. Drawn(i) /\ Drawn(l)
    BY <1>8, <1>17
  <2>2. /\ u + i \in 1..Len(episodes) /\ x + 1 \in 1..Len(Frames(u + i)) /\ J[i].frame = Frames(u + i)[x + 1]
        /\ u + l \in 1..Len(episodes) /\ x + 1 \in 1..Len(Frames(u + l)) /\ J[l].frame = Frames(u + l)[x + 1]
    BY <2>1, <1>7
  <2>3. u + i = u + l
    <3>1. Frames(u + i)[x + 1] = Frames(u + l)[x + 1]
      BY <2>2, <1>17
    <3>2. QED
      BY <2>2, <3>1, <1>25
  <2>4. QED
    BY <2>3, <1>2
<1>18. ASSUME NEW j \in 1..(L + 1), NEW k \in 1..(L + 1), NEW i \in 1..GridSize, NEW l \in 1..GridSize,
              jobs'[j][i].frame # 0, jobs'[j][i].frame = jobs'[k][l].frame
       PROVE  j = k /\ i = l
  <2>1. CASE j \in 1..L /\ k \in 1..L
    BY <2>1, <1>10, <1>18 DEF LayoutInv, ShowsOnce
  <2>2. CASE j \in 1..L /\ k = L + 1
    BY <2>2, <1>10, <1>16, <1>18
  <2>3. CASE j = L + 1 /\ k \in 1..L
    BY <2>3, <1>10, <1>16, <1>18
  <2>4. CASE j = L + 1 /\ k = L + 1
    BY <2>4, <1>10, <1>17, <1>18
  <2>5. QED
    BY <2>1, <2>2, <2>3, <2>4, <1>12
<1>19. ASSUME NEW j \in 1..(L + 1)
       PROVE  \E i \in 1..GridSize : jobs'[j][i].num # 0
  <2>1. CASE j = L + 1
    <3>1. PICK i \in 1..m : x < Len(Frames(u + i))
      BY <1>1, <1>2, MaxFramesIs DEF u, m
    <3>2. i \in 1..GridSize /\ Drawn(i)
      BY <3>1, <1>3, <1>4 DEF Drawn
    <3>3. QED
      BY <2>1, <3>2, <1>7, <1>10
  <2>2. CASE j \in 1..L
    BY <2>2, <1>10 DEF LayoutInv, NeverBlack
  <2>3. QED
    BY <2>1, <2>2, <1>12
<1>20. ASSUME NEW e \in 1..Len(episodes), e <= u
       PROVE  \E o \in 0..(L + 1), i \in 1..GridSize : \A k \in 1..Len(Frames(e)) :
                o + k <= L + 1 /\ jobs'[o + k][i] = CellOf(episodes, e, k)
  <2>1. PICK o \in 0..L, i \in 1..GridSize : \A k \in 1..Len(Frames(e)) :
          o + k <= L /\ jobs[o + k][i] = CellOf(episodes, e, k)
    BY <1>20 DEF LayoutInv, GridsShown, u
  <2>2. \A k \in 1..Len(Frames(e)) : o + k <= L + 1 /\ o + k \in 1..L
    <3> SUFFICES ASSUME NEW k \in 1..Len(Frames(e)) PROVE o + k <= L + 1 /\ o + k \in 1..L
      OBVIOUS
    <3>1. o + k <= L /\ o \in Nat /\ k \in Nat /\ k >= 1
      BY <1>2, <2>1
    <3>2. QED
      BY <1>2, <3>1
  <2>3. o \in 0..(L + 1)
    BY <1>2
  <2>4. QED
    BY <2>1, <2>2, <2>3, <1>10
<1>21. ASSUME NEW e \in 1..Len(episodes), InGrid("frames", gridIdx, e),
              NEW k \in 1..Len(Frames(e)), k <= x + 1
       PROVE  jobs'[L + 1 - (x + 1) + k][e - u] = CellOf(episodes, e, k)
  <2>1. u < e /\ e <= u + GridSize /\ e \in Nat /\ k \in Nat /\ k >= 1
    BY <1>2, <1>21 DEF InGrid, u
  <2>2. CASE k <= x
    <3>1. jobs[L - x + k][e - u] = CellOf(episodes, e, k)
      BY <2>2, <1>1, <1>21 DEF LayoutInv, GridShown, u
    <3>2. L + 1 - (x + 1) + k = L - x + k /\ L - x + k \in 1..L
      BY <2>1, <2>2, <1>2
    <3>3. QED
      BY <3>1, <3>2, <1>10
  <2>3. CASE k = x + 1
    <3>1. e - u \in 1..GridSize /\ u + (e - u) = e /\ L + 1 - (x + 1) + k = L + 1
      BY <2>1, <2>3, <1>2
    <3>2. e - u \in 1..m /\ x < Len(Frames(u + (e - u)))
      <4>1. e - u \in 1..m
        BY <3>1, <1>4
      <4>2. Len(Frames(e)) \in Nat /\ x + 1 <= Len(Frames(e))
        BY <1>5, <2>3
      <4>3. x < Len(Frames(e))
        BY <4>2, <1>2
      <4>4. QED
        BY <3>1, <4>1, <4>3
    <3>3. J[e - u] = CellOf(episodes, u + (e - u), x + 1)
      BY <3>1, <3>2, <1>7 DEF Drawn
    <3>4. QED
      BY <2>3, <3>1, <3>3, <1>10
  <2>4. QED
    BY <2>1, <2>2, <2>3, <1>2, <1>21
<1>22. x + 1 <= L + 1
  BY <1>2
<1>23. LayoutInv'
  <2> HIDE DEF x, L
  <2>1. /\ episodes' = episodes /\ Upto(gridIdx') = u /\ Len(jobs') = L + 1 /\ frameIdx' = x + 1
        /\ gridIdx' = gridIdx /\ gridPc' = "frames"
    BY <1>1, <1>10 DEF u
  <2>2. ShowsSent(jobs', episodes, "frames", gridIdx, x + 1)
    BY <2>1, <1>15 DEF ShowsSent
  <2>3. ShowsOnce(jobs')
    BY <2>1, <1>18 DEF ShowsOnce
  <2>4. NeverBlack(jobs')
    BY <2>1, <1>19 DEF NeverBlack
  <2>5. GridsShown(jobs', episodes, gridIdx)
    <3>1. \A e \in 1..Len(episodes) : e <= u =>
            \E o \in 0..(L + 1), i \in 1..GridSize : \A k \in 1..Len(Frames(e)) :
              o + k <= L + 1 /\ jobs'[o + k][i] = CellOf(episodes, e, k)
      BY <1>20
    <3>2. QED
      BY <2>1, <3>1 DEF GridsShown, u
  <2>6. GridShown(jobs', episodes, "frames", gridIdx, x + 1)
    <3> SUFFICES ASSUME NEW e \in 1..Len(episodes), InGrid("frames", gridIdx, e),
                        NEW k \in 1..Len(Frames(e)), k <= x + 1
                 PROVE  jobs'[(L + 1) - (x + 1) + k][e - u] = CellOf(episodes, e, k)
      BY <2>1, Zenon DEF GridShown, u
    <3>1. jobs'[L + 1 - (x + 1) + k][e - u] = CellOf(episodes, e, k)
      BY <1>21
    <3>2. L \in Nat /\ x \in Nat /\ k \in Nat
      BY <1>2
    <3>3. L + 1 - (x + 1) + k = (L + 1) - (x + 1) + k
      BY <3>2
    <3>4. QED
      BY <3>1, <3>3, Zenon
  <2>7. u < Len(episodes) /\ x + 1 <= L + 1
    BY <1>2, <1>22
  <2>8. QED
    BY <2>1, <2>2, <2>3, <2>4, <2>5, <2>6, <2>7 DEF LayoutInv
<1>24. QED
  BY <1>11, <1>23

\* The next grid begins.
LEMMA GridStep ==
  ASSUME ReaderTypes, LayoutInv, Reader!NextGrid
  PROVE  ReaderTypes' /\ LayoutInv'
<1>1. /\ gridPc = "grid" /\ gridPc' = "frames" /\ frameIdx' = 0 /\ gridIdx < Reader!NumGrids
      /\ UNCHANGED <<rows, read, current, episodes, gridIdx, jobs>>
  BY DEF Reader!NextGrid
<1>2. gridIdx \in Nat /\ Len(episodes) \in Nat /\ Len(jobs) \in Nat
  BY DEF ReaderTypes
<1>3. Upto(gridIdx) < Len(episodes)
  BY <1>1, <1>2, GridsCover DEF Reader!NumGrids
<1>4. ReaderTypes'
  BY <1>1 DEF ReaderTypes, N
<1>5. \A e, k : Sent("grid", gridIdx, frameIdx, e, k) => Sent("frames", gridIdx, 0, e, k)
  BY DEF Sent, InGrid
<1>6. 0 <= Len(jobs)
  BY <1>2
<1>7. ShowsSent(jobs, episodes, "frames", gridIdx, 0)
  <2>1. ShowsSent(jobs, episodes, "grid", gridIdx, frameIdx)
    BY <1>1 DEF LayoutInv
  <2>2. QED
    BY <1>5, <2>1 DEF ShowsSent
<1>8. GridShown(jobs, episodes, "frames", gridIdx, 0)
  <2>1. \A n : \A k \in 1..n : ~(k <= 0)
    OBVIOUS
  <2>2. QED
    BY <2>1 DEF GridShown
<1>9. LayoutInv'
  BY <1>1, <1>3, <1>6, <1>7, <1>8 DEF LayoutInv
<1>10. QED
  BY <1>4, <1>9

\* Every frame of the grid's episodes was sent.
LEMMA GridEndsStep ==
  ASSUME ReaderTypes, Collected(rows, episodes, N), LayoutInv, Reader!GridEnds
  PROVE  ReaderTypes' /\ LayoutInv'
<1> DEFINE u == Upto(gridIdx)
           L == Len(jobs)
<1>1. /\ gridPc = "frames" /\ gridPc' = "grid" /\ gridIdx' = gridIdx + 1
      /\ frameIdx = Reader!MaxFrames
      /\ UNCHANGED <<rows, read, current, episodes, frameIdx, jobs>>
  BY DEF Reader!GridEnds
<1>2. /\ gridIdx \in Nat /\ Len(episodes) \in Nat /\ L \in Nat /\ frameIdx \in Nat
      /\ GridSize \in Nat \ {0}
  BY FileAssumption DEF ReaderTypes
<1>3. u \in Nat /\ Upto(gridIdx + 1) = u + GridSize /\ u < Len(episodes) /\ frameIdx <= L
  BY <1>1, <1>2, UptoIs DEF LayoutInv
<1>4. ReaderTypes'
  BY <1>1, <1>2 DEF ReaderTypes, N
<1>5. \A e, k : Sent("frames", gridIdx, frameIdx, e, k) /\ e \in Nat => e <= u + GridSize
  BY <1>2, <1>3 DEF Sent, InGrid
<1>6. ASSUME NEW e \in 1..Len(episodes), u < e, e <= u + GridSize
      PROVE  \E o \in 0..L, i \in 1..GridSize : \A k \in 1..Len(episodes[e].frames) :
               o + k <= L /\ jobs[o + k][i] = CellOf(episodes, e, k)
  <2>1. InGrid("frames", gridIdx, e)
    BY <1>6 DEF InGrid
  <2>2. /\ e - u \in 1..GridSize /\ L - frameIdx \in 0..L /\ u + (e - u) = e
    BY <1>2, <1>3, <1>6
  <2>3. Len(episodes[e].frames) <= frameIdx /\ Len(episodes[e].frames) \in Nat
    <3> DEFINE m == IF u + GridSize <= Len(episodes) THEN GridSize ELSE Len(episodes) - u
    <3>1. e - u \in 1..m
      BY <1>2, <1>3, <1>6
    <3>2. \A i \in 1..m : Len(episodes[u + i].frames) <= Reader!MaxFrames
      BY <1>3, MaxFramesIs
    <3>3. N \in Nat /\ Len(episodes[e].frames) \in 1..N
      BY EpisodeFacts DEF ReaderTypes, N
    <3> HIDE DEF m, u
    <3>4. Len(episodes[u + (e - u)].frames) <= Reader!MaxFrames
      BY <3>1, <3>2
    <3>5. QED
      BY <1>1, <2>2, <3>3, <3>4
  <2>4. ASSUME NEW k \in 1..Len(episodes[e].frames)
        PROVE  (L - frameIdx) + k <= L /\ jobs[(L - frameIdx) + k][e - u] = CellOf(episodes, e, k)
    <3>1. k <= frameIdx /\ k \in Nat
      BY <1>2, <2>3
    <3>2. jobs[(L - frameIdx) + k][e - u] = CellOf(episodes, e, k)
      BY <1>1, <2>1, <3>1 DEF LayoutInv, GridShown
    <3>3. (L - frameIdx) + k <= L
      BY <1>2, <3>1
    <3>4. QED
      BY <3>2, <3>3
  <2>5. QED
    BY <2>2, <2>4
<1>7. \A e \in 1..Len(episodes) : e \in Nat /\ (e <= u \/ u < e)
  BY <1>2, <1>3
<1>8. ShowsSent(jobs, episodes, "grid", gridIdx + 1, frameIdx)
  <2>1. ShowsSent(jobs, episodes, "frames", gridIdx, frameIdx)
    BY <1>1 DEF LayoutInv
  <2>2. \A e \in 1..Len(episodes) : \A k : Sent("frames", gridIdx, frameIdx, e, k) =>
          Sent("grid", gridIdx + 1, frameIdx, e, k)
    BY <1>3, <1>5, <1>7 DEF Sent
  <2>3. QED
    BY <2>1, <2>2 DEF ShowsSent
<1>9. GridsShown(jobs, episodes, gridIdx + 1)
  <2>1. GridsShown(jobs, episodes, gridIdx)
    BY DEF LayoutInv
  <2>2. QED
    BY <2>1, <1>3, <1>6, <1>7 DEF GridsShown
<1>10. GridShown(jobs, episodes, "grid", gridIdx + 1, frameIdx)
  BY DEF GridShown, InGrid
<1>11. LayoutInv'
  BY <1>1, <1>8, <1>9, <1>10 DEF LayoutInv
<1>12. QED
  BY <1>4, <1>11

\* After the last grid every episode is before the grid index.
LEMMA CloseStep ==
  ASSUME ReaderTypes, LayoutInv, Reader!CloseJobs
  PROVE  ReaderTypes' /\ LayoutInv'
<1>1. /\ gridPc = "grid" /\ gridPc' = "closed" /\ gridIdx = Reader!NumGrids
      /\ UNCHANGED <<rows, read, current, episodes, gridIdx, frameIdx, jobs>>
  BY DEF Reader!CloseJobs
<1>2. gridIdx \in Nat /\ Len(episodes) \in Nat
  BY DEF ReaderTypes
<1>3. Len(episodes) <= Upto(gridIdx)
  BY <1>1, <1>2, GridsCover DEF Reader!NumGrids
<1>4. ReaderTypes'
  BY <1>1 DEF ReaderTypes, N
<1>5. \A e, k : Sent("grid", gridIdx, frameIdx, e, k) <=> Sent("closed", gridIdx, frameIdx, e, k)
  BY DEF Sent, InGrid
<1>6. GridShown(jobs, episodes, "closed", gridIdx, frameIdx)
  BY DEF GridShown, InGrid
<1>7. ShowsSent(jobs, episodes, "closed", gridIdx, frameIdx)
  <2>1. ShowsSent(jobs, episodes, "grid", gridIdx, frameIdx)
    BY <1>1 DEF LayoutInv
  <2>2. QED
    BY <1>5, <2>1 DEF ShowsSent
<1>8. LayoutInv'
  BY <1>1, <1>3, <1>6, <1>7 DEF LayoutInv
<1>9. QED
  BY <1>4, <1>8

-----------------------------------------------------------------------------
\* The reader's inductive invariant: while rows are read, the current recording and the
\* episodes before it; afterwards the episodes, and which of their frames were sent where.
LEMMA ReaderAlways == Spec => []ReaderInv
<1>1. Init => ReaderInv
  <2> SUFFICES ASSUME Init PROVE ReaderInv
    OBVIOUS
  <2>1. /\ read = 0 /\ current = NoEpisode /\ episodes = <<>> /\ gridPc = "collect" /\ gridIdx = 0
        /\ frameIdx = 0 /\ jobs = <<>>
        /\ \E n \in 0..MaxRows : rows \in [1..n -> RowIn]
        /\ \A i \in 2..Len(rows) : rows[i - 1].start <= rows[i].start
    BY DEF Init, Reader!Init, RowIn
  <2>2. rows \in Seq(RowIn) /\ N \in Nat
    <3>1. PICK n \in 0..MaxRows : rows \in [1..n -> RowIn]
      BY <2>1
    <3>2. n \in Nat
      BY FileAssumption
    <3>3. rows \in Seq(RowIn)
      BY <3>1, <3>2
    <3>4. QED
      BY <3>3 DEF N
  <2>3. \A i, k \in 1..N : i <= k => rows[i].start <= rows[k].start
    BY <2>1, <2>2, Sorted DEF N
  <2>4. ReaderTypes
    <3>1. 0 \in 0..N /\ <<>> \in Seq(EpisodeType) /\ <<>> \in Seq([1..GridSize -> CellType])
      BY <2>2
    <3>2. QED
      BY <2>1, <2>2, <2>3, <3>1 DEF ReaderTypes
  <2>5. QED
    BY <2>1, <2>4 DEF ReaderInv, CollectInv
<1>2. ReaderInv /\ [Next]_vars => ReaderInv'
  <2> SUFFICES ASSUME ReaderInv, [Next]_vars PROVE ReaderInv'
    OBVIOUS
  <2>1. CASE UNCHANGED readerVars
    <3>1. UNCHANGED <<rows, read, current, episodes, gridPc, gridIdx, frameIdx, jobs>>
      BY <2>1 DEF readerVars
    <3>2. ReaderTypes' <=> ReaderTypes
      BY <3>1 DEF ReaderTypes, N
    <3>3. CollectInv' <=> CollectInv
      BY <3>1 DEF CollectInv
    <3>4. LayoutInv' <=> LayoutInv
      BY <3>1 DEF LayoutInv
    <3>5. Collected(rows, episodes, N)' <=> Collected(rows, episodes, N)
      BY <3>1 DEF N
    <3>6. QED
      BY <3>1, <3>2, <3>3, <3>4, <3>5 DEF ReaderInv
  <2>2. CASE Reader!CollectRow
    <3>1. gridPc = "collect" /\ UNCHANGED <<gridPc, gridIdx, jobs>>
      BY <2>2 DEF Reader!CollectRow
    <3>2. QED
      BY <2>2, <3>1, RowStep DEF ReaderInv
  <2>3. CASE Reader!CollectEnds
    <3>1. gridPc = "collect" /\ gridPc' = "grid"
      BY <2>3 DEF Reader!CollectEnds
    <3>2. QED
      BY <2>3, <3>1, EndsStep DEF ReaderInv
  <2>4. ASSUME Reader!NextGrid \/ Reader!SendJob \/ Reader!GridEnds \/ Reader!CloseJobs
        PROVE  ReaderInv'
    <3>1. gridPc # "collect" /\ gridPc' # "collect" /\ UNCHANGED <<rows, episodes>>
      BY <2>4 DEF Reader!NextGrid, Reader!SendJob, Reader!GridEnds, Reader!CloseJobs
    <3>2. ReaderTypes /\ Collected(rows, episodes, N) /\ LayoutInv
      BY <3>1 DEF ReaderInv
    <3>3. ReaderTypes' /\ LayoutInv'
      BY <2>4, <3>2, GridStep, JobStep, GridEndsStep, CloseStep
    <3>4. Collected(rows, episodes, N)'
      BY <3>1, <3>2 DEF N
    <3>5. QED
      BY <3>1, <3>3, <3>4 DEF ReaderInv
  <2>5. QED
    BY <2>1, <2>2, <2>3, <2>4 DEF Next, vars, readerVars, Reader!Next, Reader!Closed, Reader!vars
<1>3. QED
  BY <1>1, <1>2, PTL DEF Spec

\* What the episodes are, from the recordings they were cut from.
LEMMA EpisodesAre ==
  ASSUME ReaderInv
  PROVE  Reader!EpisodesExact
<1> SUFFICES ASSUME gridPc # "collect" PROVE Reader!EpisodesExact
  BY DEF Reader!EpisodesExact
<1>1. /\ ReaderTypes /\ Collected(rows, episodes, N) /\ N \in Nat /\ rows \in Seq(RowIn)
  BY DEF ReaderInv, ReaderTypes, N
<1>2. ASSUME NEW e \in 1..Len(episodes)
      PROVE  /\ episodes[e].num = e
             /\ \A j, k \in 1..Len(episodes[e].frames) :
                  j < k => episodes[e].frames[j] < episodes[e].frames[k]
             /\ \E s \in 1..MaxRows : /\ Reader!Valid(s) /\ Reader!RowsOf(s) # {}
                                     /\ Reader!ToSet(episodes[e].frames) = Reader!RowsOf(s)
  <2>1. PICK a \in 1..N : \E b \in a..N :
          Block(rows, a, b, N) /\ Clean(rows, a, b) /\ episodes[e].frames = Run(a, b)
    BY <1>1 DEF Collected
  <2>2. PICK b \in a..N : Block(rows, a, b, N) /\ Clean(rows, a, b) /\ episodes[e].frames = Run(a, b)
    BY <2>1
  <2>3. a \in Nat \ {0} /\ b \in Nat /\ a <= b /\ a \in 1..N
    BY <1>1
  <2>4. /\ Run(a, b) \in Seq(Nat) /\ Len(Run(a, b)) = b - a + 1
        /\ \A k \in 1..(b - a + 1) : Run(a, b)[k] = a + k - 1
    BY <2>3, RunIs
  <2>5. \A j, k \in 1..Len(Run(a, b)) : j < k => Run(a, b)[j] < Run(a, b)[k]
    BY <2>3, <2>4
  <2> DEFINE s == rows[a].start
  <2>6. s \in 1..MaxRows
    <3>1. rows[a] \in RowIn
      BY <1>1, <2>3 DEF N
    <3>2. QED
      BY <3>1 DEF RowIn
  <2>7. \A i : i \in a..b <=> i \in 1..N /\ rows[i].start = s
    <3>1. \A i \in a..b : i \in 1..N
      BY <1>1, <2>3
    <3>2. QED
      BY <2>2, <3>1 DEF Block
  <2>8. Reader!RowsOf(s) = a..b
    BY <2>7 DEF Reader!RowsOf, N
  <2>9. Reader!Valid(s)
    BY <2>2, <2>7 DEF Reader!Valid, Clean, N
  <2>10. Reader!ToSet(Run(a, b)) = a..b
    <3>1. \A i \in a..b : i - a + 1 \in 1..(b - a + 1) /\ a + (i - a + 1) - 1 = i
      BY <2>3
    <3>2. \A k \in 1..(b - a + 1) : a + k - 1 \in a..b
      BY <2>3
    <3>3. DOMAIN Run(a, b) = 1..(b - a + 1)
      BY DEF Run
    <3>4. Reader!ToSet(Run(a, b)) = {Run(a, b)[k] : k \in 1..(b - a + 1)}
      BY <3>3 DEF Reader!ToSet
    <3>5. \A i \in a..b : Run(a, b)[i - a + 1] = i
      BY <2>4, <3>1
    <3>6. \A k \in 1..(b - a + 1) : Run(a, b)[k] \in a..b
      BY <2>4, <3>2
    <3>7. ASSUME NEW i PROVE i \in Reader!ToSet(Run(a, b)) <=> i \in a..b
      <4>1. ASSUME i \in a..b PROVE \E k \in 1..(b - a + 1) : i = Run(a, b)[k]
        BY <3>1, <3>5, <4>1
      <4>2. QED
        BY <3>4, <3>6, <4>1
    <3>8. QED
      BY <3>7
  <2>11. a \in a..b
    BY <2>3
  <2>12. episodes[e].num = e
    BY <1>1 DEF Collected
  <2> HIDE DEF s
  <2>13. QED
    BY <2>2, <2>5, <2>6, <2>8, <2>9, <2>10, <2>11, <2>12
<1>3. \A d, e \in 1..Len(episodes) : d < e => episodes[d].frames[1] < episodes[e].frames[1]
  BY <1>1 DEF Collected
<1>4. ASSUME NEW i \in 1..Len(rows), Reader!Valid(rows[i].start)
      PROVE  \E e \in 1..Len(episodes) : i \in Reader!ToSet(episodes[e].frames)
  <2>1. PICK e \in 1..Len(episodes) : \E k \in 1..Len(episodes[e].frames) : episodes[e].frames[k] = i
    BY <1>1, <1>4 DEF Collected, N, Reader!Valid
  <2>2. PICK k \in 1..Len(episodes[e].frames) : episodes[e].frames[k] = i
    BY <2>1
  <2>3. episodes[e].frames \in Seq(Nat)
    BY <1>1, EpisodeFacts
  <2>4. QED
    BY <2>2, <2>3 DEF Reader!ToSet
<1>5. QED
  BY <1>2, <1>3, <1>4 DEF Reader!EpisodesExact

\* What the finished video shows.
LEMMA VideoIs ==
  ASSUME ReaderInv
  PROVE  Reader!VideoExact
<1> SUFFICES ASSUME gridPc = "closed" PROVE Reader!VideoExact
  BY DEF Reader!VideoExact
<1>1. /\ ReaderTypes /\ Collected(rows, episodes, N) /\ LayoutInv /\ N \in Nat
      /\ Len(jobs) \in Nat /\ Len(episodes) \in Nat /\ gridIdx \in Nat
      /\ Len(episodes) <= Upto(gridIdx) /\ Upto(gridIdx) \in Nat
  <2>1. ReaderTypes /\ Collected(rows, episodes, N) /\ LayoutInv
    BY DEF ReaderInv
  <2>2. Len(episodes) <= Upto(gridIdx)
    BY <2>1 DEF LayoutInv
  <2>3. N \in Nat /\ Len(jobs) \in Nat /\ Len(episodes) \in Nat /\ gridIdx \in Nat
    BY <2>1 DEF ReaderTypes, N
  <2>4. QED
    BY <2>1, <2>2, <2>3, UptoIs
<1>2. ASSUME NEW e \in 1..Len(episodes)
      PROVE  \E p \in (1..Len(jobs)) \X (1..GridSize) :
               \A k \in 1..Len(episodes[e].frames) :
                 /\ Reader!ShownIn(episodes[e].frames[k]) = {<<p[1] + k - 1, p[2]>>}
                 /\ jobs[p[1] + k - 1][p[2]].num = e
  <2>1. e <= Upto(gridIdx)
    BY <1>1
  <2>2. PICK o \in 0..Len(jobs), i \in 1..GridSize : \A k \in 1..Len(episodes[e].frames) :
          o + k <= Len(jobs) /\ jobs[o + k][i] = CellOf(episodes, e, k)
    BY <1>1, <2>1 DEF LayoutInv, GridsShown
  <2>3. /\ Len(episodes[e].frames) \in Nat /\ 1 \in 1..Len(episodes[e].frames)
        /\ \A k \in 1..Len(episodes[e].frames) : episodes[e].frames[k] \in Nat \ {0}
    <3>1. /\ Len(episodes[e].frames) \in 1..N
          /\ \A k \in 1..Len(episodes[e].frames) : episodes[e].frames[k] \in 1..N
      BY <1>1, EpisodeFacts
    <3>2. \A h \in 1..N : h \in Nat \ {0} /\ 1 \in 1..h
      BY <1>1
    <3>3. QED
      BY <3>1, <3>2
  <2>4. o \in Nat /\ o + 1 \in 1..Len(jobs)
    BY <1>1, <2>2, <2>3
  <2> DEFINE p == <<o + 1, i>>
  <2>5. p \in (1..Len(jobs)) \X (1..GridSize) /\ p[1] = o + 1 /\ p[2] = i
    BY <2>4
  <2>6. ASSUME NEW k \in 1..Len(episodes[e].frames)
        PROVE  /\ Reader!ShownIn(episodes[e].frames[k]) = {<<(o + 1) + k - 1, i>>}
               /\ jobs[(o + 1) + k - 1][i].num = e
    <3> DEFINE f == episodes[e].frames[k]
    <3>1. (o + 1) + k - 1 = o + k /\ o + k \in 1..Len(jobs)
      BY <1>1, <2>2, <2>3, <2>4
    <3>2. jobs[o + k][i].frame = f /\ jobs[o + k][i].num = e /\ f # 0
      <4>1. jobs[o + k][i] = CellOf(episodes, e, k) /\ f \in Nat \ {0}
        BY <2>2, <2>3
      <4>2. CellOf(episodes, e, k).frame = f /\ CellOf(episodes, e, k).num = e
        BY DEF CellOf
      <4> HIDE DEF f
      <4>3. QED
        BY <4>1, <4>2
    <3> HIDE DEF f
    <3>3. \A j \in 1..Len(jobs), l \in 1..GridSize : jobs[j][l].frame = f => j = o + k /\ l = i
      <4>1. \A j, n \in 1..Len(jobs), h, l \in 1..GridSize :
              jobs[j][h].frame # 0 /\ jobs[j][h].frame = jobs[n][l].frame => j = n /\ h = l
        BY <1>1 DEF LayoutInv, ShowsOnce
      <4>2. \A j \in 1..Len(jobs), l \in 1..GridSize :
              jobs[o + k][i].frame = jobs[j][l].frame => o + k = j /\ i = l
        BY <3>1, <3>2, <4>1
      <4>3. QED
        BY <3>2, <4>2
    <3>4. Reader!ShownIn(f) = {<<o + k, i>>}
      <4>1. <<o + k, i>> \in Reader!ShownIn(f)
        BY <3>1, <3>2 DEF Reader!ShownIn
      <4>2. ASSUME NEW q \in Reader!ShownIn(f) PROVE q = <<o + k, i>>
        <5>1. q \in (1..Len(jobs)) \X (1..GridSize) /\ jobs[q[1]][q[2]].frame = f
          BY <4>2 DEF Reader!ShownIn
        <5>2. q[1] = o + k /\ q[2] = i
          BY <3>3, <5>1
        <5>3. QED
          BY <5>1, <5>2
      <4>3. QED
        BY <4>1, <4>2
    <3>5. QED
      BY <3>1, <3>2, <3>4 DEF f
  <2>7. QED
    BY <2>5, <2>6
<1>3. ASSUME NEW p \in (1..Len(jobs)) \X (1..GridSize), jobs[p[1]][p[2]].frame # 0
      PROVE  \E e \in 1..Len(episodes) : jobs[p[1]][p[2]].frame \in Reader!ToSet(episodes[e].frames)
  <2>1. p[1] \in 1..Len(jobs) /\ p[2] \in 1..GridSize
    OBVIOUS
  <2>2. jobs[p[1]][p[2]] # Black
    BY <1>3 DEF Black
  <2>3. PICK e \in 1..Len(episodes) : \E k \in 1..Len(episodes[e].frames) :
          jobs[p[1]][p[2]] = CellOf(episodes, e, k)
    BY <1>1, <2>1, <2>2 DEF LayoutInv, ShowsSent
  <2>4. PICK k \in 1..Len(episodes[e].frames) : jobs[p[1]][p[2]] = CellOf(episodes, e, k)
    BY <2>3
  <2>5. jobs[p[1]][p[2]].frame = episodes[e].frames[k]
    BY <2>4 DEF CellOf
  <2>6. episodes[e].frames \in Seq(Nat)
    BY <1>1, EpisodeFacts
  <2>7. episodes[e].frames[k] \in Reader!ToSet(episodes[e].frames)
    BY <2>6 DEF Reader!ToSet
  <2>8. QED
    BY <2>5, <2>7
<1>4. QED
  BY <1>2, <1>3 DEF Reader!VideoExact

\* VideoExact for every file and every size of the grid: collectEpisodes keeps exactly the
\* recordings without a bad row, and the jobs main sends show every row of them in one cell
\* of one frame, under its episode's number, and nothing else (dataset-mp4.go).
THEOREM VideoExactAlways == Spec => []VideoExact
<1>1. ReaderInv => VideoExact
  <2> SUFFICES ASSUME ReaderInv PROVE VideoExact
    OBVIOUS
  <2>1. Reader!NoBlackFrame
    <3>1. CASE gridPc = "collect"
      <4>1. jobs = <<>>
        BY <3>1 DEF ReaderInv
      <4>2. QED
        BY <4>1 DEF Reader!NoBlackFrame
    <3>2. CASE gridPc # "collect"
      BY <3>2 DEF ReaderInv, LayoutInv, NeverBlack, Reader!NoBlackFrame
    <3>3. QED
      BY <3>1, <3>2
  <2>2. QED
    BY <2>1, EpisodesAre, VideoIs DEF VideoExact
<1>2. QED
  BY <1>1, ReaderAlways, PTL
=============================================================================
