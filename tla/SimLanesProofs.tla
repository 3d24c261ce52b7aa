--------------------------- MODULE SimLanesProofs ---------------------------
(***************************************************************************)
(* Proofs about SimLanes for lanes and channels of any capacity: batches   *)
(* of a lane keep their order and arrive at most once.                     *)
(***************************************************************************)
EXTENDS SimLanes, SequenceTheorems, TLAPS

LEMMA Assoc ==
  ASSUME NEW a \in Seq(Batches), NEW b \in Seq(Batches), NEW c \in Seq(Batches)
  PROVE  (a \o b) \o c = a \o (b \o c)
  BY ConcatAssociative

\* A batch of a line, named by its place.
LEMMA OfPlace ==
  ASSUME NEW s \in Seq(Batches), NEW l \in Lanes, NEW b
  PROVE  b \in Of(s, l) <=> \E i \in 1..Len(s) : s[i] = b /\ s[i].lane = l
<1>1. DOMAIN s = 1..Len(s)
  OBVIOUS
<1>2. QED
  BY <1>1 DEF Of

\* The pair p stands at two places of a line.
PairIn(s, l, p) ==
  \E i, j \in 1..Len(s) : i < j /\ s[i].lane = l /\ s[j].lane = l /\ p = <<s[i], s[j]>>

LEMMA AheadPlace ==
  ASSUME NEW s \in Seq(Batches), NEW l \in Lanes, NEW p
  PROVE  p \in Ahead(s, l) <=> PairIn(s, l, p)
<1>1. DOMAIN s = 1..Len(s)
  OBVIOUS
<1>2. ASSUME p \in Ahead(s, l)
      PROVE  PairIn(s, l, p)
  <2>1. PICK i, j \in 1..Len(s) : i < j /\ p = <<s[i], s[j]>>
    BY <1>1, <1>2 DEF Ahead
  <2>2. s[i] \in Of(s, l) /\ s[j] \in Of(s, l)
    BY <1>2, <2>1 DEF Ahead
  <2>3. s[i].lane = l /\ s[j].lane = l
    BY <2>2, OfPlace
  <2>4. QED
    BY <2>1, <2>3 DEF PairIn
<1>3. ASSUME NEW i \in 1..Len(s), NEW j \in 1..Len(s), i < j, s[i].lane = l, s[j].lane = l,
             p = <<s[i], s[j]>>
      PROVE  p \in Ahead(s, l)
  <2>1. s[i] \in Of(s, l) /\ s[j] \in Of(s, l)
    BY <1>3, OfPlace
  <2>2. QED
    BY <1>1, <1>3, <2>1 DEF Ahead
<1>4. QED
  BY <1>2, <1>3 DEF PairIn

\* A line that a batch of its own lane joins at the end.
LEMMA JoinOwn ==
  ASSUME NEW s \in Seq(Batches), NEW l \in Lanes, NEW b \in Batches, b.lane = l
  PROVE  /\ \A x : x \in Of(Append(s, b), l) <=> x \in Of(s, l) \/ x = b
         /\ \A p : p \in Ahead(Append(s, b), l) <=>
                     p \in Ahead(s, l) \/ \E x \in Of(s, l) : p = <<x, b>>
<1> DEFINE t == Append(s, b)
<1>1. /\ t \in Seq(Batches) /\ Len(t) = Len(s) + 1 /\ t[Len(s) + 1] = b
      /\ \A i \in 1..Len(s) : t[i] = s[i]
  OBVIOUS
<1>2. Len(s) \in Nat
  OBVIOUS
<1> HIDE DEF t
<1>3. ASSUME NEW x PROVE x \in Of(t, l) <=> x \in Of(s, l) \/ x = b
  <2>1. x \in Of(t, l) <=> \E i \in 1..Len(t) : t[i] = x /\ t[i].lane = l
    BY <1>1, OfPlace
  <2>2. x \in Of(s, l) <=> \E i \in 1..Len(s) : s[i] = x /\ s[i].lane = l
    BY OfPlace
  <2>3. QED
    BY <1>1, <1>2, <2>1, <2>2
<1>4. ASSUME NEW p
      PROVE  p \in Ahead(t, l) <=> p \in Ahead(s, l) \/ \E x \in Of(s, l) : p = <<x, b>>
  <2>1. ASSUME p \in Ahead(t, l) PROVE p \in Ahead(s, l) \/ \E x \in Of(s, l) : p = <<x, b>>
    <3>0. PairIn(t, l, p)
      BY <1>1, <2>1, AheadPlace
    <3>1. PICK i, j \in 1..Len(t) : i < j /\ t[i].lane = l /\ t[j].lane = l /\ p = <<t[i], t[j]>>
      BY <3>0 DEF PairIn
    <3>2. i \in 1..Len(s) /\ t[i] = s[i]
      BY <1>1, <1>2, <3>1
    <3>3. CASE j \in 1..Len(s)
      BY <1>1, <3>1, <3>2, <3>3, AheadPlace DEF PairIn
    <3>4. CASE j = Len(s) + 1
      <4>1. s[i] \in Of(s, l)
        BY <3>1, <3>2, OfPlace
      <4>2. QED
        BY <1>1, <3>1, <3>2, <3>4, <4>1
    <3>5. QED
      BY <1>1, <1>2, <3>1, <3>3, <3>4
  <2>2. ASSUME p \in Ahead(s, l) PROVE p \in Ahead(t, l)
    <3>0. PairIn(s, l, p)
      BY <2>2, AheadPlace
    <3>1. PICK i, j \in 1..Len(s) : i < j /\ s[i].lane = l /\ s[j].lane = l /\ p = <<s[i], s[j]>>
      BY <3>0 DEF PairIn
    <3>2. i \in 1..Len(t) /\ j \in 1..Len(t) /\ t[i] = s[i] /\ t[j] = s[j]
      BY <1>1, <1>2, <3>1
    <3>3. QED
      BY <1>1, <3>1, <3>2, AheadPlace DEF PairIn
  <2>3. ASSUME NEW x \in Of(s, l), p = <<x, b>> PROVE p \in Ahead(t, l)
    <3>1. PICK i \in 1..Len(s) : s[i] = x /\ s[i].lane = l
      BY OfPlace
    <3>2. i \in 1..Len(t) /\ Len(s) + 1 \in 1..Len(t) /\ i < Len(s) + 1 /\ t[i] = x
      BY <1>1, <1>2, <3>1
    <3>3. QED
      BY <1>1, <2>3, <3>1, <3>2, AheadPlace DEF PairIn
  <2>4. QED
    BY <2>1, <2>2, <2>3
<1>5. QED
  BY <1>3, <1>4 DEF t

\* A line that a batch of the other lane enters, anywhere.
LEMMA JoinOther ==
  ASSUME NEW s \in Seq(Batches), NEW u \in Seq(Batches), NEW l \in Lanes,
         NEW b \in Batches, b.lane # l
  PROVE  /\ Of(s \o <<b>> \o u, l) = Of(s \o u, l)
         /\ Ahead(s \o <<b>> \o u, l) = Ahead(s \o u, l)
<1> DEFINE t == s \o <<b>> \o u
           r == s \o u
           into(i) == IF i <= Len(s) THEN i ELSE i + 1
           outof(i) == IF i <= Len(s) THEN i ELSE i - 1
<1>1. /\ t \in Seq(Batches) /\ r \in Seq(Batches)
      /\ Len(t) = Len(s) + 1 + Len(u) /\ Len(r) = Len(s) + Len(u)
      /\ Len(s) \in Nat /\ Len(u) \in Nat
  OBVIOUS
<1>2. ASSUME NEW i \in 1..Len(r)
      PROVE  into(i) \in 1..Len(t) /\ t[into(i)] = r[i]
  BY <1>1
<1>3. ASSUME NEW i \in 1..Len(t), t[i].lane = l
      PROVE  outof(i) \in 1..Len(r) /\ r[outof(i)] = t[i] /\ i # Len(s) + 1
  <2>1. t[Len(s) + 1] = b
    BY <1>1
  <2>2. i # Len(s) + 1
    BY <1>3, <2>1
  <2>3. QED
    BY <1>1, <2>2
<1>4. \A i, j \in 1..Len(r) : i < j => into(i) < into(j)
  BY <1>1
<1>5. \A i, j \in 1..Len(t) : i < j /\ i # Len(s) + 1 /\ j # Len(s) + 1 => outof(i) < outof(j)
  BY <1>1
<1>s. t \in Seq(Batches) /\ r \in Seq(Batches)
  BY <1>1
<1> HIDE DEF t, r, into, outof
<1>6. ASSUME NEW x PROVE x \in Of(t, l) <=> x \in Of(r, l)
  <2>1. x \in Of(t, l) <=> \E i \in 1..Len(t) : t[i] = x /\ t[i].lane = l
    BY <1>s, OfPlace
  <2>2. x \in Of(r, l) <=> \E i \in 1..Len(r) : r[i] = x /\ r[i].lane = l
    BY <1>s, OfPlace
  <2>3. QED
    BY <1>2, <1>3, <2>1, <2>2
<1>7. ASSUME NEW p \in Ahead(t, l) PROVE p \in Ahead(r, l)
  <2>0. PairIn(t, l, p)
    BY <1>s, AheadPlace
  <2>1. PICK i, j \in 1..Len(t) : i < j /\ t[i].lane = l /\ t[j].lane = l /\ p = <<t[i], t[j]>>
    BY <2>0 DEF PairIn
  <2>2. /\ outof(i) \in 1..Len(r) /\ r[outof(i)] = t[i] /\ outof(j) \in 1..Len(r) /\ r[outof(j)] = t[j]
        /\ outof(i) < outof(j)
    BY <1>3, <1>5, <2>1
  <2>3. QED
    BY <1>s, <2>1, <2>2, AheadPlace DEF PairIn
<1>8. ASSUME NEW p \in Ahead(r, l) PROVE p \in Ahead(t, l)
  <2>0. PairIn(r, l, p)
    BY <1>s, AheadPlace
  <2>1. PICK i, j \in 1..Len(r) : i < j /\ r[i].lane = l /\ r[j].lane = l /\ p = <<r[i], r[j]>>
    BY <2>0 DEF PairIn
  <2>2. /\ into(i) \in 1..Len(t) /\ t[into(i)] = r[i] /\ into(j) \in 1..Len(t) /\ t[into(j)] = r[j]
        /\ into(i) < into(j)
    BY <1>2, <1>4, <2>1
  <2>3. QED
    BY <1>s, <2>1, <2>2, AheadPlace DEF PairIn
<1>9. Of(t, l) = Of(r, l) /\ Ahead(t, l) = Ahead(r, l)
  BY <1>6, <1>7, <1>8
<1>10. QED
  BY <1>9 DEF t, r

-----------------------------------------------------------------------------
\* The types of what is on its way.
LaneTypes ==
  /\ sent \in Seq(Lanes) /\ Len(sent) <= MaxBatches /\ tasks \subseteq Batches
  /\ lane \in [Lanes -> Seq(Batches)] /\ hold \in [Lanes -> Batches \cup {None}]
  /\ out \in Seq(Batches) /\ wire \in Seq(Batches)
  /\ writing \in BOOLEAN

\* A lane and its forwarder hold only batches of the lane.
Own(chan, held, l) ==
  /\ \A i \in 1..Len(chan[l]) : chan[l][i].lane = l
  /\ held[l] # None => held[l].lane = l

\* No batch is twice in a line, none that is still with its task is there already, and none
\* comes from a command that has not been given.
Fresh(s, l, waiting, n) ==
  Once(s, l) /\ \A b \in Of(s, l) : b \notin waiting /\ b.id <= n

\* The inductive invariant.  Of the lines it speaks until the writer stops.
LaneInv ==
  /\ LaneTypes
  /\ \A l \in Lanes : Own(lane, hold, l)
  /\ \A b \in tasks : b.id <= Len(sent)
  /\ writing => \A l \in Lanes : Fresh(Line(l), l, tasks, Len(sent))

LEMMA LineType ==
  ASSUME LaneTypes, NEW l \in Lanes
  PROVE  Held(l) \in Seq(Batches) /\ Line(l) \in Seq(Batches)
<1>1. hold[l] \in Batches \cup {None} /\ lane[l] \in Seq(Batches)
  BY DEF LaneTypes
<1>2. Held(l) \in Seq(Batches)
  BY <1>1 DEF Held
<1>3. wire \in Seq(Batches) /\ out \in Seq(Batches)
  BY DEF LaneTypes
<1>4. QED
  BY <1>1, <1>2, <1>3 DEF Line

\* A lane that takes a batch from its task.
LEMMA LineTakes ==
  ASSUME NEW s \in Seq(Batches), NEW l \in Lanes, NEW waiting, NEW n \in Nat, NEW b \in waiting,
         b \in Batches, b.lane = l, b.id <= n, Fresh(s, l, waiting, n)
  PROVE  Extends(s, Append(s, b), l) /\ Fresh(Append(s, b), l, waiting \ {b}, n)
<1> DEFINE t == Append(s, b)
<1>1. b \notin Of(s, l)
  BY DEF Fresh
<1>2. \A x : x \in Of(t, l) <=> x \in Of(s, l) \/ x = b
  BY JoinOwn
<1>3. \A p : p \in Ahead(t, l) <=> p \in Ahead(s, l) \/ \E x \in Of(s, l) : p = <<x, b>>
  BY JoinOwn
<1>4. \A p \in Ahead(s, l) : p[1] \in Of(s, l) /\ p[2] \in Of(s, l)
  BY DEF Ahead
<1> HIDE DEF t
<1>5. Extends(s, t, l)
  <2>1. Of(s, l) \subseteq Of(t, l)
    BY <1>2
  <2>2. ASSUME NEW p \in Ahead(t, l), p[2] \in Of(s, l) PROVE p \in Ahead(s, l)
    <3>1. ASSUME NEW x \in Of(s, l), p = <<x, b>> PROVE FALSE
      BY <1>1, <2>2, <3>1
    <3>2. QED
      BY <1>3, <3>1
  <2>3. QED
    BY <1>3, <1>4, <2>1, <2>2 DEF Extends
<1>6. ASSUME NEW x \in Of(t, l)
      PROVE  <<x, x>> \notin Ahead(t, l) /\ x \notin waiting \ {b} /\ x.id <= n
  <2>1. CASE x = b
    <3>1. <<b, b>> \notin Ahead(s, l)
      BY <1>1, <1>4
    <3>2. \A y \in Of(s, l) : <<b, b>> # <<y, b>>
      BY <1>1
    <3>3. QED
      BY <1>3, <2>1, <3>1, <3>2
  <2>2. CASE x \in Of(s, l) /\ x # b
    <3>1. <<x, x>> \notin Ahead(s, l) /\ x \notin waiting /\ x.id <= n
      BY <2>2 DEF Fresh, Once
    <3>2. \A y \in Of(s, l) : <<x, x>> # <<y, b>>
      BY <2>2
    <3>3. QED
      BY <1>3, <3>1, <3>2
  <2>3. QED
    BY <1>2, <2>1, <2>2
<1>7. QED
  BY <1>5, <1>6 DEF t, Fresh, Once

\* A line in which nothing changes for the lane.
LEMMA LineStays ==
  ASSUME NEW s, NEW t, NEW l, NEW w, NEW v, NEW n \in Nat, NEW m \in Nat,
         Of(t, l) = Of(s, l), Ahead(t, l) = Ahead(s, l), n <= m,
         \A b \in v : b \in w \/ b.id > n,
         \A b \in Of(s, l) : b.id \in Int, Fresh(s, l, w, n)
  PROVE  Extends(s, t, l) /\ Fresh(t, l, v, m)
<1>1. \A p \in Ahead(s, l) : p[2] \in Of(s, l)
  BY DEF Ahead
<1>2. Extends(s, t, l)
  BY <1>1 DEF Extends
<1>3. Once(t, l)
  BY DEF Fresh, Once
<1>4. ASSUME NEW b \in Of(s, l) PROVE b \notin v /\ b.id <= m
  <2>1. b \notin w /\ b.id <= n /\ b.id \in Int
    BY DEF Fresh
  <2>2. ~(b.id > n) /\ b.id <= m
    BY <2>1
  <2>3. QED
    BY <2>1, <2>2
<1>5. QED
  BY <1>2, <1>3, <1>4 DEF Fresh

LEMMA BatchParts == ASSUME NEW b \in Batches PROVE b.id \in Nat /\ b.lane \in Lanes
<1>1. MaxBatches \in Nat
  BY LanesAssumption
<1>2. QED
  BY <1>1 DEF Batches

LEMMA TypesStep == LaneTypes /\ [Next]_vars => LaneTypes'
<1> SUFFICES ASSUME LaneTypes, [Next]_vars PROVE LaneTypes'
  OBVIOUS
<1> USE DEF LaneTypes
<1>1. ASSUME NEW l \in Lanes, Command(l) PROVE LaneTypes'
  <2>1. sent' \in Seq(Lanes) /\ Len(sent') = Len(sent) + 1 /\ Len(sent) \in Nat
    BY <1>1 DEF Command
  <2>2. Len(sent') \in 1..MaxBatches
    BY <1>1, <2>1, LanesAssumption DEF Command
  <2>3. [id |-> Len(sent'), lane |-> l] \in Batches
    BY <2>2 DEF Batches
  <2>4. QED
    BY <1>1, <2>1, <2>2, <2>3 DEF Command
<1>2. ASSUME NEW b \in tasks, SendLossy(b) \/ SendReliable(b) PROVE LaneTypes'
  <2>1. ASSUME NEW l \in Lanes PROVE [lane EXCEPT ![l] = Append(@, b)] \in [Lanes -> Seq(Batches)]
    <3>1. b \in Batches /\ lane[l] \in Seq(Batches)
      OBVIOUS
    <3>2. Append(lane[l], b) \in Seq(Batches)
      BY <3>1
    <3>3. QED
      BY <3>2
  <2>2. "lossy" \in Lanes /\ "reliable" \in Lanes
    BY DEF Lanes
  <2>3. lane' \in [Lanes -> Seq(Batches)]
    BY <1>2, <2>1, <2>2 DEF SendLossy, SendReliable
  <2>4. QED
    BY <1>2, <2>3 DEF SendLossy, SendReliable
<1>3. ASSUME NEW l \in Lanes, Take(l) PROVE LaneTypes'
  <2>1. lane[l] \in Seq(Batches) /\ lane[l] # <<>>
    BY <1>3 DEF Take
  <2>2. Head(lane[l]) \in Batches /\ Tail(lane[l]) \in Seq(Batches)
    BY <2>1
  <2>3. QED
    BY <1>3, <2>2 DEF Take
<1>4. ASSUME NEW l \in Lanes, Forward(l) PROVE LaneTypes'
  <2>1. hold[l] \in Batches
    BY <1>4 DEF Forward
  <2>2. QED
    BY <1>4, <2>1 DEF Forward
<1>n. <<>> \in Seq(Batches)
  OBVIOUS
<1>5. ASSUME NEW l \in Lanes, ForwardFails(l) PROVE LaneTypes'
  BY <1>n, <1>5 DEF ForwardFails
<1>6. CASE Write
  <2>1. Head(out) \in Batches /\ Tail(out) \in Seq(Batches)
    BY <1>6 DEF Write
  <2>2. QED
    BY <1>6, <2>1 DEF Write
<1>7. CASE WriteFails
  BY <1>n, <1>7 DEF WriteFails
<1>8. CASE SessionCloses \/ ProcessExits \/ \E c \in BOOLEAN : Supervise(c)
  BY <1>8 DEF SessionCloses, ProcessExits, Supervise
<1>9. CASE UNCHANGED vars
  BY <1>9 DEF vars
<1>10. QED
  BY <1>1, <1>2, <1>3, <1>4, <1>5, <1>6, <1>7, <1>8, <1>9 DEF Next

LEMMA OwnStep ==
  ASSUME LaneTypes, [Next]_vars, \A l \in Lanes : Own(lane, hold, l), NEW k \in Lanes
  PROVE  Own(lane', hold', k)
<1>0. LaneTypes' /\ Own(lane, hold, k)
  BY TypesStep
<1>1. ASSUME NEW l \in Lanes, Command(l) PROVE Own(lane', hold', k)
  BY <1>0, <1>1 DEF Command
<1>2. ASSUME NEW b \in tasks, SendLossy(b) \/ SendReliable(b) PROVE Own(lane', hold', k)
  <2>1. CASE lane'[k] = lane[k]
    BY <1>0, <1>2, <2>1 DEF Own, SendLossy, SendReliable
  <2>2. CASE lane'[k] = Append(lane[k], b) /\ b.lane = k
    <3>1. lane[k] \in Seq(Batches)
      BY DEF LaneTypes
    <3>2. Len(lane'[k]) = Len(lane[k]) + 1 /\ Len(lane[k]) \in Nat
          /\ lane'[k][Len(lane[k]) + 1] = b
          /\ \A i \in 1..Len(lane[k]) : lane'[k][i] = lane[k][i]
      BY <2>2, <3>1
    <3>3. QED
      BY <1>0, <1>2, <2>2, <3>2 DEF Own, SendLossy, SendReliable
  <2>3. QED
    BY <1>2, <2>1, <2>2 DEF SendLossy, SendReliable, LaneTypes, Lanes
<1>3. ASSUME NEW l \in Lanes, Take(l) PROVE Own(lane', hold', k)
  <2>1. CASE k = l
    <3>1. lane[k] \in Seq(Batches) /\ lane[k] # <<>>
      BY <1>3, <2>1 DEF LaneTypes, Take
    <3>2. lane'[k] = Tail(lane[k]) /\ hold'[k] = Head(lane[k])
      BY <1>3, <2>1 DEF LaneTypes, Take
    <3>3. /\ Len(lane'[k]) = Len(lane[k]) - 1 /\ Len(lane[k]) \in Nat /\ Len(lane[k]) >= 1
          /\ hold'[k] = lane[k][1]
          /\ \A i \in 1..(Len(lane[k]) - 1) : lane'[k][i] = lane[k][i + 1]
      BY <3>1, <3>2
    <3>4. 1 \in 1..Len(lane[k]) /\ \A i \in 1..Len(lane'[k]) : i + 1 \in 1..Len(lane[k])
      BY <3>3
    <3>5. \A i \in 1..Len(lane'[k]) : lane'[k][i].lane = k
      BY <1>0, <3>3, <3>4 DEF Own
    <3>6. hold'[k].lane = k
      BY <1>0, <3>3, <3>4 DEF Own
    <3>7. QED
      BY <3>5, <3>6 DEF Own
  <2>2. CASE k # l
    <3>1. lane'[k] = lane[k] /\ hold'[k] = hold[k]
      BY <1>3, <2>2 DEF LaneTypes, Take
    <3>2. QED
      BY <1>0, <3>1 DEF Own
  <2>3. QED
    BY <2>1, <2>2
<1>4. ASSUME NEW l \in Lanes, Forward(l) PROVE Own(lane', hold', k)
  BY <1>0, <1>4 DEF Own, Forward, LaneTypes
<1>5. ASSUME NEW l \in Lanes, ForwardFails(l) PROVE Own(lane', hold', k)
  <2>1. hold'[k] = None \/ hold'[k] = hold[k]
    BY <1>5 DEF ForwardFails, LaneTypes
  <2>2. lane'[k] = <<>> \/ lane'[k] = lane[k]
    BY <1>5 DEF ForwardFails, LaneTypes
  <2>3. QED
    BY <1>0, <2>1, <2>2 DEF Own
<1>6. CASE Write \/ WriteFails \/ SessionCloses \/ ProcessExits \/ (\E c \in BOOLEAN : Supervise(c)) \/ UNCHANGED vars
  BY <1>0, <1>6 DEF Own, Write, WriteFails, SessionCloses, ProcessExits, Supervise, vars, simVars
<1>7. QED
  BY <1>1, <1>2, <1>3, <1>4, <1>5, <1>6 DEF Next

\* What a step does to the line of a lane while the writer runs.
LEMMA LineStep ==
  ASSUME LaneInv, [Next]_vars, writing', NEW l \in Lanes
  PROVE  Extends(Line(l), Line(l)', l) /\ Fresh(Line(l)', l, tasks', Len(sent'))
<1> DEFINE s == Line(l)
           t == Line(l)'
<1>0. LaneTypes /\ LaneTypes' /\ s \in Seq(Batches) /\ t \in Seq(Batches)
  <2>1. LaneTypes /\ LaneTypes'
    BY TypesStep DEF LaneInv
  <2>2. s \in Seq(Batches)
    BY <2>1, LineType
  <2>3. t \in Seq(Batches)
    <3>1. hold'[l] \in Batches \cup {None} /\ lane'[l] \in Seq(Batches)
      BY <2>1 DEF LaneTypes
    <3>2. Held(l)' \in Seq(Batches)
      BY <3>1 DEF Held
    <3>3. wire' \in Seq(Batches) /\ out' \in Seq(Batches)
      BY <2>1 DEF LaneTypes
    <3>4. QED
      BY <3>1, <3>2, <3>3 DEF Line
  <2>4. QED
    BY <2>1, <2>2, <2>3
<1>n. Len(sent) \in Nat /\ Len(sent') \in Nat
  BY <1>0 DEF LaneTypes
<1>w. writing /\ Fresh(s, l, tasks, Len(sent))
  <2>1. writing
    BY DEF Next, Command, Take, Forward, ForwardFails, SendLossy, SendReliable, Write, WriteFails,
           SessionCloses, ProcessExits, Supervise, vars, simVars
  <2>2. QED
    BY <2>1 DEF LaneInv
<1>i. \A b \in Of(s, l) : b.id \in Int
  <2>1. ASSUME NEW b \in Of(s, l) PROVE b.id \in Int
    <3>1. b \in Batches
      BY <1>0, OfPlace
    <3>2. QED
      BY <3>1, BatchParts
  <2>2. QED
    BY <2>1
<1>s. ASSUME t = s, sent' = sent, \A b \in tasks' : b \in tasks
      PROVE  Extends(s, t, l) /\ Fresh(t, l, tasks', Len(sent'))
  <2>1. Of(t, l) = Of(s, l) /\ Ahead(t, l) = Ahead(s, l) /\ Len(sent) <= Len(sent')
    BY <1>n, <1>s
  <2> HIDE DEF s, t
  <2>2. QED
    BY <1>n, <1>w, <1>i, <1>s, <2>1, LineStays
<1>l. /\ lane[l] \in Seq(Batches) /\ Held(l) \in Seq(Batches) /\ wire \in Seq(Batches)
      /\ out \in Seq(Batches)
  BY <1>0, LineType DEF LaneTypes
<1>1. ASSUME NEW k \in Lanes, Command(k) PROVE Extends(s, t, l) /\ Fresh(t, l, tasks', Len(sent'))
  <2>1. t = s
    BY <1>1 DEF Command, Line, Held
  <2>2. Len(sent') = Len(sent) + 1
    BY <1>0, <1>1 DEF Command, LaneTypes
  <2>3. ASSUME NEW b \in tasks' PROVE b \in tasks \/ b.id > Len(sent)
    <3>1. b \in tasks \/ b.id = Len(sent')
      BY <1>1 DEF Command
    <3>2. QED
      BY <1>n, <2>2, <3>1
  <2>4. Of(t, l) = Of(s, l) /\ Ahead(t, l) = Ahead(s, l) /\ Len(sent) <= Len(sent')
    BY <1>n, <2>1, <2>2
  <2> HIDE DEF s, t
  <2>5. QED
    BY <1>n, <1>w, <1>i, <2>3, <2>4, LineStays
<1>2. ASSUME NEW b \in tasks, SendLossy(b) \/ SendReliable(b)
      PROVE  Extends(s, t, l) /\ Fresh(t, l, tasks', Len(sent'))
  <2>1. /\ tasks' = tasks \ {b} /\ sent' = sent /\ wire' = wire /\ out' = out /\ hold' = hold
        /\ \/ lane'[l] = lane[l]
           \/ lane'[l] = Append(lane[l], b) /\ b.lane = l
    BY <1>0, <1>2 DEF SendLossy, SendReliable, LaneTypes, Lanes
  <2>2. CASE lane'[l] = lane[l]
    <3>1. t = s
      BY <2>1, <2>2 DEF Line, Held
    <3>2. QED
      BY <1>s, <2>1, <3>1
  <2>3. CASE lane'[l] = Append(lane[l], b) /\ b.lane = l
    <3>1. b \in Batches /\ b.id <= Len(sent)
      BY <1>0 DEF LaneInv, LaneTypes
    <3>2. t = wire \o out \o Held(l) \o Append(lane[l], b)
      BY <2>1, <2>3 DEF Line, Held
    <3>3. wire \o out \o Held(l) \in Seq(Batches)
      BY <1>l
    <3>4. t = Append(s, b)
      <4> DEFINE a == wire \o out \o Held(l)
      <4>1. a \o Append(lane[l], b) = a \o (lane[l] \o <<b>>)
        BY <1>l, <3>1, AppendIsConcat
      <4>2. a \o (lane[l] \o <<b>>) = (a \o lane[l]) \o <<b>>
        <5>1. a \in Seq(Batches) /\ lane[l] \in Seq(Batches) /\ <<b>> \in Seq(Batches)
          BY <1>l, <3>1, <3>3
        <5> HIDE DEF a
        <5>2. QED
          BY <5>1, Assoc, Zenon
      <4>3. Append(s, b) = s \o <<b>>
        BY <1>0, <3>1, AppendIsConcat
      <4>4. QED
        BY <3>2, <4>1, <4>2, <4>3 DEF Line
    <3> HIDE DEF s, t
    <3>5. Extends(s, Append(s, b), l) /\ Fresh(Append(s, b), l, tasks \ {b}, Len(sent))
      BY <1>0, <1>n, <1>w, <2>3, <3>1, LineTakes
    <3>6. QED
      BY <2>1, <3>4, <3>5
  <2>4. QED
    BY <2>1, <2>2, <2>3
<1>3. ASSUME NEW k \in Lanes, Take(k) PROVE Extends(s, t, l) /\ Fresh(t, l, tasks', Len(sent'))
  <2>1. CASE k = l
    <3>1. Held(l) = <<>> /\ Held(l)' = <<Head(lane[l])>> /\ lane'[l] = Tail(lane[l])
      <4>1. hold[l] = None /\ hold'[l] = Head(lane[l]) /\ lane'[l] = Tail(lane[l])
        BY <1>0, <1>3, <2>1 DEF Take, LaneTypes
      <4>2. Head(lane[l]) # None
        BY <1>3, <1>l, <2>1, LanesAssumption DEF Take
      <4>3. QED
        BY <4>1, <4>2 DEF Held
    <3>2. lane[l] = <<Head(lane[l])>> \o Tail(lane[l]) /\ Head(lane[l]) \in Batches
      BY <1>3, <1>l, <2>1 DEF Take
    <3>3. wire' = wire /\ out' = out /\ tasks' = tasks /\ sent' = sent
      BY <1>3 DEF Take
    <3>4. wire \o out \in Seq(Batches)
      BY <1>l
    <3>5. t = s
      <4>1. s = (wire \o out) \o lane[l]
        BY <1>l, <3>1, <3>4 DEF Line
      <4>2. t = (wire \o out) \o <<Head(lane[l])>> \o Tail(lane[l])
        BY <3>1, <3>3 DEF Line
      <4>3. <<Head(lane[l])>> \in Seq(Batches) /\ Tail(lane[l]) \in Seq(Batches)
        BY <1>3, <1>l, <2>1, <3>2 DEF Take
      <4>4. ((wire \o out) \o <<Head(lane[l])>>) \o Tail(lane[l])
              = (wire \o out) \o (<<Head(lane[l])>> \o Tail(lane[l]))
        BY <3>4, <4>3, Assoc, Zenon
      <4>5. QED
        BY <3>2, <4>1, <4>2, <4>4
    <3>6. QED
      BY <1>s, <3>3, <3>5
  <2>2. CASE k # l
    <3>1. hold'[l] = hold[l] /\ lane'[l] = lane[l]
      BY <1>0, <1>3, <2>2 DEF Take, LaneTypes
    <3>2. wire' = wire /\ out' = out /\ tasks' = tasks /\ sent' = sent
      BY <1>3 DEF Take
    <3>3. t = s
      BY <3>1, <3>2 DEF Line, Held
    <3>4. QED
      BY <1>s, <3>2, <3>3
  <2>3. QED
    BY <2>1, <2>2
<1>4. ASSUME NEW k \in Lanes, Forward(k) PROVE Extends(s, t, l) /\ Fresh(t, l, tasks', Len(sent'))
  <2>1. hold[k] \in Batches /\ hold[k] # None /\ hold[k].lane = k
    BY <1>0, <1>4, LanesAssumption DEF Forward, LaneTypes, LaneInv, Own
  <2>2. wire' = wire /\ out' = Append(out, hold[k]) /\ lane' = lane /\ tasks' = tasks /\ sent' = sent
    BY <1>4 DEF Forward
  <2>3. CASE k = l
    <3>1. Held(l) = <<hold[l]>> /\ Held(l)' = <<>>
      BY <1>0, <1>4, <2>1, <2>3 DEF Held, Forward, LaneTypes
    <3>2. t = wire \o Append(out, hold[l]) \o <<>> \o lane[l]
      BY <2>2, <2>3, <3>1 DEF Line
    <3>3. s = wire \o out \o <<hold[l]>> \o lane[l]
      BY <3>1 DEF Line
    <3>4. wire \o Append(out, hold[l]) \o <<>> = wire \o out \o <<hold[l]>>
      <4>1. <<hold[l]>> \in Seq(Batches) /\ Append(out, hold[l]) = out \o <<hold[l]>>
        BY <1>l, <2>1, <2>3, AppendIsConcat
      <4>2. wire \o (out \o <<hold[l]>>) = (wire \o out) \o <<hold[l]>>
        BY <1>l, <4>1, Assoc, Zenon
      <4>3. wire \o Append(out, hold[l]) \in Seq(Batches)
        BY <1>l, <2>1, <2>3
      <4>4. wire \o Append(out, hold[l]) \o <<>> = wire \o Append(out, hold[l])
        BY <4>3, ConcatEmptySeq
      <4>5. QED
        BY <4>1, <4>2, <4>4
    <3>5. t = s
      BY <3>2, <3>3, <3>4
    <3>6. QED
      BY <1>s, <2>2, <3>5
  <2>4. CASE k # l
    <3>1. hold'[l] = hold[l]
      BY <1>0, <1>4, <2>4 DEF Forward, LaneTypes
    <3> DEFINE a == wire \o out
               u == Held(l) \o lane[l]
    <3>2. a \in Seq(Batches) /\ u \in Seq(Batches)
      BY <1>l
    <3>3. s = a \o u
      <4>1. s = a \o Held(l) \o lane[l]
        BY DEF Line
      <4>2. (a \o Held(l)) \o lane[l] = a \o (Held(l) \o lane[l])
        <5>1. a \in Seq(Batches) /\ Held(l) \in Seq(Batches) /\ lane[l] \in Seq(Batches)
          BY <1>l, <3>2
        <5> HIDE DEF a
        <5>2. QED
          BY <5>1, Assoc, Zenon
      <4>3. QED
        BY <4>1, <4>2
    <3>4. t = a \o <<hold[k]>> \o u
      <4>1. t = wire \o Append(out, hold[k]) \o Held(l) \o lane[l]
        BY <2>2, <3>1 DEF Line, Held
      <4>2. wire \o Append(out, hold[k]) = a \o <<hold[k]>>
        <5>1. <<hold[k]>> \in Seq(Batches) /\ Append(out, hold[k]) = out \o <<hold[k]>>
          BY <1>l, <2>1, AppendIsConcat
        <5>2. wire \o (out \o <<hold[k]>>) = (wire \o out) \o <<hold[k]>>
          BY <1>l, <5>1, ConcatAssociative
        <5>3. QED
          BY <5>1, <5>2
      <4>3. a \o <<hold[k]>> \in Seq(Batches)
        BY <2>1, <3>2
      <4>4. t = (a \o <<hold[k]>>) \o Held(l) \o lane[l]
        BY <4>1, <4>2
      <4> HIDE DEF a
      <4>5. ((a \o <<hold[k]>>) \o Held(l)) \o lane[l] = (a \o <<hold[k]>>) \o (Held(l) \o lane[l])
        BY <1>l, <4>3, Assoc, Zenon
      <4>6. QED
        BY <4>4, <4>5
    <3> HIDE DEF a, u, s, t
    <3>5. Of(t, l) = Of(s, l) /\ Ahead(t, l) = Ahead(s, l)
      BY <2>1, <2>4, <3>2, <3>3, <3>4, JoinOther
    <3>6. tasks' = tasks /\ sent' = sent /\ Len(sent) <= Len(sent')
      BY <1>n, <2>2
    <3>7. \A b \in tasks' : b \in tasks \/ b.id > Len(sent)
      BY <3>6
    <3>8. QED
      BY <1>n, <1>w, <1>i, <3>5, <3>6, <3>7, LineStays
  <2>5. QED
    BY <2>3, <2>4
<1>5. ASSUME NEW k \in Lanes, ForwardFails(k) PROVE FALSE
  BY <1>w, <1>5 DEF ForwardFails
<1>6. CASE Write
  <2>1. wire' = Append(wire, Head(out)) /\ out' = Tail(out)
    BY <1>6 DEF Write
  <2>2. UNCHANGED <<lane, hold, tasks, sent>>
    BY <1>6 DEF Write
  <2>3. wire' \o out' = wire \o out
    BY <1>6, <1>l, <2>1 DEF Write
  <2>4. t = s
    BY <2>2, <2>3 DEF Line, Held
  <2>5. QED
    BY <1>s, <2>2, <2>4
<1>7. CASE WriteFails
  BY <1>7 DEF WriteFails
<1>8. CASE SessionCloses \/ ProcessExits \/ (\E c \in BOOLEAN : Supervise(c)) \/ UNCHANGED vars
  <2>1. UNCHANGED <<wire, out, lane, hold, tasks, sent>>
    BY <1>8 DEF SessionCloses, ProcessExits, Supervise, vars, simVars
  <2>2. t = s
    BY <2>1 DEF Line, Held
  <2>3. QED
    BY <1>s, <2>1, <2>2
<1>9. QED
  BY <1>1, <1>2, <1>3, <1>4, <1>5, <1>6, <1>7, <1>8 DEF Next

LEMMA LaneInvStep == LaneInv /\ [Next]_vars => LaneInv'
<1> SUFFICES ASSUME LaneInv, [Next]_vars PROVE LaneInv'
  OBVIOUS
<1>1. LaneTypes /\ LaneTypes'
  BY TypesStep DEF LaneInv
<1>2. \A l \in Lanes : Own(lane', hold', l)
  BY <1>1, OwnStep DEF LaneInv
<1>3. ASSUME NEW b \in tasks' PROVE b.id <= Len(sent')
  <2>1. Len(sent) \in Nat /\ Len(sent') \in Nat
    BY <1>1 DEF LaneTypes
  <2>2. b \in Batches
    BY <1>1 DEF LaneTypes
  <2>3. b.id \in Nat
    BY <2>2, BatchParts
  <2>4. CASE b \in tasks
    <3>1. b.id <= Len(sent)
      BY <2>4 DEF LaneInv
    <3>2. sent' = sent \/ \E l \in Lanes : sent' = Append(sent, l)
      BY DEF Next, Command, Take, Forward, ForwardFails, SendLossy, SendReliable, Write,
             WriteFails, SessionCloses, ProcessExits, Supervise, vars, simVars
    <3>3. Len(sent) <= Len(sent')
      BY <1>1, <2>1, <3>2 DEF LaneTypes
    <3>4. QED
      BY <2>1, <2>3, <3>1, <3>3
  <2>5. CASE b \notin tasks
    <3>1. \E l \in Lanes : Command(l)
      BY <2>5 DEF Next, Take, Forward, ForwardFails, SendLossy, SendReliable, Write,
             WriteFails, SessionCloses, ProcessExits, Supervise, vars, simVars
    <3>2. b.id = Len(sent')
      BY <2>5, <3>1 DEF Command
    <3>3. QED
      BY <2>1, <3>2
  <2>6. QED
    BY <2>4, <2>5
<1>4. ASSUME writing', NEW l \in Lanes PROVE Fresh(Line(l)', l, tasks', Len(sent'))
  BY <1>4, LineStep
<1>5. QED
  BY <1>1, <1>2, <1>3, <1>4 DEF LaneInv

LEMMA LaneInvInit == Init => LaneInv
<1> SUFFICES ASSUME Init PROVE LaneInv
  OBVIOUS
<1>1. LaneTypes
  <2>1. <<>> \in Seq(Batches) /\ <<>> \in Seq(Lanes) /\ Len(<<>>) <= MaxBatches
    BY LanesAssumption
  <2>2. QED
    BY <2>1 DEF Init, LaneTypes
<1>2. ASSUME NEW l \in Lanes PROVE Own(lane, hold, l)
  BY DEF Init, Own
<1>3. ASSUME NEW l \in Lanes PROVE Fresh(Line(l), l, tasks, Len(sent))
  <2>1. wire = <<>> /\ out = <<>> /\ Held(l) = <<>> /\ lane[l] = <<>>
    BY DEF Init, Held
  <2>2. Line(l) = <<>>
    BY <2>1 DEF Line
  <2>3. Of(<<>>, l) = {}
    BY DEF Of
  <2>4. QED
    BY <2>2, <2>3 DEF Fresh, Once
<1>4. QED
  BY <1>1, <1>2, <1>3 DEF LaneInv, Init

\* Whatever the capacities, the number of commands and the moments at which tasks,
\* forwarders and writer run: the batches of a lane keep the order in which the lane took
\* them, none is lost or doubled on the way, until the writer stops.
THEOREM LanesInOrderAlways == Spec => LanesInOrder
<1>1. LaneInv /\ [Next]_vars =>
        [\A l \in Lanes : writing' => Extends(Line(l), Line(l)', l) /\ Once(Line(l)', l)]_vars
  BY LineStep DEF Fresh
<1>2. QED
  BY <1>1, LaneInvInit, LaneInvStep, PTL DEF Spec, LanesInOrder

NoFalseEnd ==
  \A to \in DOMAIN health : health[to] = "dead" => mode = "internal" /\ ~alive

\* The supervisor says of a simulator that it is dead only when it is a child that exited: the
\* safety half of EndReported, for lanes of any capacity.
THEOREM NoFalseEndAlways == Spec => []NoFalseEnd
<1>1. Init => NoFalseEnd
  BY DEF Init, NoFalseEnd
<1>2. NoFalseEnd /\ [Next]_vars => NoFalseEnd'
  <2> SUFFICES ASSUME NoFalseEnd, [Next]_vars PROVE NoFalseEnd'
    OBVIOUS
  <2>1. CASE \E c \in BOOLEAN : Supervise(c)
    BY <2>1 DEF NoFalseEnd, Supervise
  <2>2. CASE ProcessExits
    BY <2>2 DEF NoFalseEnd, ProcessExits
  <2>3. CASE UNCHANGED <<health, mode, alive>>
    BY <2>3 DEF NoFalseEnd
  <2>4. QED
    BY <2>1, <2>2, <2>3 DEF Next, Command, Take, Forward, ForwardFails, SendLossy, SendReliable,
       Write, WriteFails, SessionCloses, vars, simVars
<1>3. QED
  BY <1>1, <1>2, PTL DEF Spec
=============================================================================
