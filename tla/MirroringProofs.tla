--------------------------- MODULE MirroringProofs ---------------------------
(***************************************************************************)
(* Proofs about motor mirroring: who follows whom (Mirroring), for any set *)
(* of arms and any number of commands, and how one follower motor is moved *)
(* (CurrentProtection), for any ranges: goals are positions inside the     *)
(* calibrated arc, for ranges that wrap around or not, and a follower is   *)
(* not driven into what it met.                                            *)
(***************************************************************************)
EXTENDS Mirroring, CurrentProtection, TLAPS

\* The types of what the proofs below argue about.
MapTypes ==
  /\ leaders \subseteq Buses /\ fromTo \in [Buses -> SUBSET Buses]
  /\ toFrom \in [Buses -> Buses \cup {None}]
  /\ pass \in [Buses -> SUBSET Buses]

\* The inductive invariant: the pass is a copy of from_to, thinned out, and from_to never
\* lists a follower twice because to_from gives it one leader.
MapInv == MapTypes /\ MapsAgree /\ NoTwoLeaders

LEMMA MoveKeeps ==
  ASSUME MapInv, NEW from \in Buses, NEW to \in SUBSET Buses, Move(from, to), UNCHANGED pass
  PROVE  MapInv'
<1>1. MapTypes'
  <2>1. toFrom' \in [Buses -> Buses \cup {None}]
    BY DEF Move, MapInv, MapTypes
  <2>2. fromTo' \in [Buses -> SUBSET Buses]
    BY DEF Move, MapInv, MapTypes
  <2> QED
    BY <2>1, <2>2 DEF Move, MapInv, MapTypes
<1>2. ASSUME NEW f \in Buses, NEW t \in Buses
      PROVE  (t \in fromTo[f] <=> toFrom[t] = f)'
  BY <1>2, MirroringAssumption DEF Move, MapInv, MapTypes, MapsAgree
<1>3. ASSUME NEW f \in Buses, fromTo'[f] # {} PROVE f \in leaders'
  BY <1>3 DEF Move, MapInv, MapTypes, MapsAgree
<1> QED
  BY <1>1, <1>2, <1>3 DEF MapInv, MapsAgree, NoTwoLeaders

LEMMA RemoveKeeps ==
  ASSUME MapInv, NEW bus \in Buses, Remove(bus), UNCHANGED pass
  PROVE  MapInv'
<1> DEFINE cleared == [b \in Buses |-> IF b \in fromTo[bus] THEN None ELSE toFrom[b]]
           lists == [fromTo EXCEPT ![bus] = {}]
<1>1. cleared \in [Buses -> Buses \cup {None}] /\ lists \in [Buses -> SUBSET Buses]
  BY DEF MapInv, MapTypes
<1>2. \A f, t \in Buses : t \in lists[f] <=> cleared[t] = f
  BY <1>1, MirroringAssumption DEF MapInv, MapTypes, MapsAgree
<1>3. \A f \in Buses : lists[f] # {} => f \in leaders \ {bus}
  BY <1>1 DEF MapInv, MapTypes, MapsAgree
<1>4. toFrom' = [cleared EXCEPT ![bus] = None]
  BY DEF Remove
<1> HIDE DEF cleared, lists
<1>5. CASE cleared[bus] = None
  <2>1. fromTo' = lists /\ leaders' = leaders \ {bus}
    BY <1>5 DEF Remove, cleared, lists
  <2>2. MapTypes'
    BY <1>1, <1>4, <2>1 DEF MapInv, MapTypes
  <2>3. \A f, t \in Buses : (t \in fromTo[f] <=> toFrom[t] = f)'
    BY <1>1, <1>2, <1>4, <1>5, <2>1, MirroringAssumption
  <2> QED
    BY <1>3, <2>1, <2>2, <2>3 DEF MapInv, MapsAgree, NoTwoLeaders
<1>6. CASE cleared[bus] # None
  <2> DEFINE from == cleared[bus]
  <2>0. from \in Buses
    BY <1>1, <1>6
  <2>1. /\ fromTo' = [lists EXCEPT ![from] = @ \ {bus}]
        /\ leaders' = leaders \ ({bus} \cup {b \in {from} : lists[from] \ {bus} = {}})
    BY <1>6 DEF Remove, cleared, lists
  <2>2. MapTypes'
    BY <1>1, <1>4, <2>0, <2>1 DEF MapInv, MapTypes
  <2> HIDE DEF from
  <2>3. \A f, t \in Buses : (t \in fromTo[f] <=> toFrom[t] = f)'
    BY <1>1, <1>2, <1>4, <2>0, <2>1, MirroringAssumption DEF from
  <2>4. \A f \in Buses : fromTo'[f] # {} => f \in leaders'
    BY <1>1, <1>3, <2>0, <2>1
  <2> QED
    BY <2>2, <2>3, <2>4 DEF MapInv, MapsAgree, NoTwoLeaders
<1> QED
  BY <1>5, <1>6

LEMMA MapStep == MapInv /\ [Next]_vars => MapInv'
<1> SUFFICES ASSUME MapInv, [Next]_vars PROVE MapInv'
  OBVIOUS
<1>1. ASSUME NEW from \in Buses, NEW to \in SUBSET Buses, StartMirror(from, to) PROVE MapInv'
  BY <1>1, MoveKeeps DEF StartMirror
<1>2. ASSUME NEW bus \in Buses, StopMirror(bus) PROVE MapInv'
  BY <1>2, RemoveKeeps DEF StopMirror
<1>3. CASE UNCHANGED <<mapVars, pass>>
  BY <1>3 DEF mapVars, MapInv, MapTypes, MapsAgree, NoTwoLeaders
<1>4. CASE HandlerMerge \/ Restore
  BY <1>3, <1>4 DEF HandlerMerge, Restore
<1>5. ASSUME NEW t \in tasks, EndTask(t) PROVE MapInv'
  BY <1>3, <1>5 DEF EndTask
<1>6. ASSUME NEW t \in tasks, NEW b \in t.buses, NEW taken \in BOOLEAN, SendTorque(t, b, taken)
      PROVE  MapInv'
  BY <1>3, <1>6 DEF SendTorque
<1>7. CASE BeginPass
  <2>1. NoTwoLeaders'
    BY <1>7 DEF BeginPass, MapInv, MapTypes, MapsAgree, NoTwoLeaders
  <2> QED
    BY <1>7, <2>1 DEF BeginPass, mapVars, MapInv, MapTypes, MapsAgree
<1>8. ASSUME NEW from \in Buses, Drive(from) PROVE MapInv'
  BY <1>8 DEF Drive, mapVars, MapInv, MapTypes, MapsAgree, NoTwoLeaders
<1>9. CASE UNCHANGED vars
  BY <1>3, <1>9 DEF vars
<1> QED
  BY <1>1, <1>2, <1>4, <1>5, <1>6, <1>7, <1>8, <1>9 DEF Next

LEMMA MapInvAlways == Spec => []MapInv
<1>1. Init => MapInv
  BY MirroringAssumption
  DEF Init, Nothing, MapInv, MapTypes, MapsAgree, NoTwoLeaders
<1> QED
  BY <1>1, MapStep, PTL DEF Spec

\* from_to and to_from always describe the same relation between arms.
THEOREM MapsAgreeAlways == Spec => []MapsAgree
  BY MapInvAlways, PTL DEF MapInv

\* No pass of the mirror loop drives an arm for two leaders.
THEOREM NoTwoLeadersAlways == Spec => []NoTwoLeaders
  BY MapInvAlways, PTL DEF MapInv

-----------------------------------------------------------------------------
LEMMA PublishedStep ==
  PublishedCurrent /\ [Next]_vars => PublishedCurrent'
<1> SUFFICES ASSUME PublishedCurrent, [Next]_vars PROVE PublishedCurrent'
  OBVIOUS
<1>1. ASSUME NEW from \in Buses, NEW to \in SUBSET Buses, StartMirror(from, to)
      PROVE  PublishedCurrent'
  <2>1. handler' \in Handled
    BY <1>1 DEF StartMirror, Handled
  <2> QED
    BY <2>1, MirroringAssumption DEF PublishedCurrent
<1>2. ASSUME NEW bus \in Buses, StopMirror(bus) PROVE PublishedCurrent'
  <2>1. handler' \in Handled
    BY <1>2 DEF StopMirror, Handled
  <2> QED
    BY <2>1, MirroringAssumption DEF PublishedCurrent
<1>3. CASE HandlerMerge \/ Restore
  BY <1>3 DEF HandlerMerge, Restore, MergeModes, mapVars, Mirrorings, PublishedCurrent
<1>4. CASE UNCHANGED <<mapVars, modes, handler, pubVars>>
  BY <1>4 DEF mapVars, pubVars, Mirrorings, PublishedCurrent
<1>5. ASSUME NEW t \in tasks, EndTask(t) PROVE PublishedCurrent'
  BY <1>4, <1>5 DEF EndTask
<1>6. ASSUME NEW t \in tasks, NEW b \in t.buses, NEW taken \in BOOLEAN, SendTorque(t, b, taken)
      PROVE  PublishedCurrent'
  BY <1>4, <1>6 DEF SendTorque
<1>7. CASE BeginPass \/ \E from \in Buses : Drive(from)
  BY <1>4, <1>7 DEF BeginPass, Drive
<1>8. CASE UNCHANGED vars
  BY <1>4, <1>8 DEF vars
<1> QED
  BY <1>1, <1>2, <1>3, <1>5, <1>6, <1>7, <1>8 DEF Next

\* Clients that read the last RxEnvelope see the modes and mirrorings as they are, unless
\* the queue refused the envelope of the last merge (PublishedCurrent).
THEOREM PublishedCurrentAlways == Spec => []PublishedCurrent
<1>1. Init => PublishedCurrent
  BY DEF Init, PublishedCurrent
<1> QED
  BY <1>1, PublishedStep, PTL DEF Spec

-----------------------------------------------------------------------------
LEMMA TypeStep == TypeOK /\ [Next]_vars => TypeOK'
<1> SUFFICES ASSUME TypeOK, [Next]_vars PROVE TypeOK'
  OBVIOUS
<1> USE DEF TypeOK, taskVars, mapVars, pubVars
<1>1. ASSUME NEW from \in Buses, NEW to \in SUBSET Buses, StartMirror(from, to) PROVE TypeOK'
  <2>1. handler' \in Handled /\ count' \in 0..MaxCommands
    BY <1>1, MirroringAssumption DEF StartMirror, Handled
  <2>2. [id |-> count, on |-> TRUE, buses |-> to] \in [id : 0..MaxCommands, on : BOOLEAN, buses : SUBSET Buses]
    OBVIOUS
  <2>3. fromTo' \in [Buses -> SUBSET Buses] /\ toFrom' \in [Buses -> Buses \cup {None}]
    BY <1>1 DEF StartMirror, Move
  <2>4. leaders' \subseteq Buses
    BY <1>1 DEF StartMirror, Move
  <2> QED
    BY <1>1, <2>1, <2>2, <2>3, <2>4 DEF StartMirror, Spawn
<1>2. ASSUME NEW bus \in Buses, StopMirror(bus) PROVE TypeOK'
  <2>1. handler' \in Handled /\ count' \in 0..MaxCommands
    BY <1>2, MirroringAssumption DEF StopMirror, Handled
  <2>2. [id |-> count, on |-> FALSE, buses |-> Freed(bus)]
          \in [id : 0..MaxCommands, on : BOOLEAN, buses : SUBSET Buses]
    BY DEF Freed
  <2>3. fromTo' \in [Buses -> SUBSET Buses] /\ toFrom' \in [Buses -> Buses \cup {None}]
    BY <1>2 DEF StopMirror, Remove
  <2>4. leaders' \subseteq Buses
    BY <1>2 DEF StopMirror, Remove
  <2>5. Freed(bus) \subseteq Buses
    BY DEF Freed
  <2> QED
    BY <1>2, <2>1, <2>2, <2>3, <2>4, <2>5 DEF StopMirror, Spawn
<1>3. CASE HandlerMerge \/ Restore
  <2>1. \A h : Asked(h) \in [Buses -> {"leader", "follower", "none"}]
    BY DEF Asked
  <2>2. \A new \in [Buses -> {"leader", "follower", "none"}] :
          Merged(new) \in [Buses -> {"leader", "follower", "none"}]
    BY DEF Merged
  <2>3. modes' \in [Buses -> {"leader", "follower", "none"}]
    BY <1>3, <2>1, <2>2, MirroringAssumption DEF HandlerMerge, Restore, MergeModes
  <2> QED
    BY <1>3, <2>3 DEF HandlerMerge, Restore, MergeModes
<1>4. ASSUME NEW t \in tasks, EndTask(t) PROVE TypeOK'
  BY <1>4 DEF EndTask
<1>5. ASSUME NEW t \in tasks, NEW b \in t.buses, NEW taken \in BOOLEAN, SendTorque(t, b, taken)
      PROVE  TypeOK'
  <2>1. [t EXCEPT !.buses = @ \ {b}] \in [id : 0..MaxCommands, on : BOOLEAN, buses : SUBSET Buses]
    OBVIOUS
  <2>2. torque' \in [Buses -> BOOLEAN] /\ missed' \subseteq Buses
    BY <1>5 DEF SendTorque
  <2> QED
    BY <1>5, <2>1, <2>2 DEF SendTorque
<1>6. CASE BeginPass \/ \E from \in Buses : Drive(from)
  BY <1>6 DEF BeginPass, Drive
<1>7. CASE UNCHANGED vars
  BY <1>7 DEF vars
<1> QED
  BY <1>1, <1>2, <1>3, <1>4, <1>5, <1>6, <1>7 DEF Next

\* The variables of the mirroring driver keep their types.
THEOREM TypeCorrect == Spec => []TypeOK
<1>1. ASSUME Init PROVE TypeOK
  <2>1. refused \in BOOLEAN /\ restoring \in BOOLEAN
    BY <1>1 DEF Init
  <2>2. QED
    BY <1>1, <2>1, MirroringAssumption DEF Init, Nothing, TypeOK
<1> QED
  BY <1>1, TypeStep, PTL DEF Spec

-----------------------------------------------------------------------------
\* TorqueSettled, and what makes it inductive: the tasks that still have to serve an arm
\* agree with whether the arm follows, unless tasks of both kinds met on it.
TorqueInv ==
  /\ TorqueSettled
  /\ \A b \in Buses \ raced : \A t \in tasks : b \in t.buses => (t.on <=> toFrom[b] # None)

\* A torque task is spawned for exactly the arms whose leader changes, of the kind that fits
\* their new leader.
LEMMA SpawnKeeps ==
  ASSUME TypeOK, TorqueInv, NEW T \in SUBSET Buses, NEW on \in BOOLEAN, Spawn(T, on),
         \A b \in Buses : IF b \in T THEN on <=> toFrom'[b] # None ELSE toFrom'[b] = toFrom[b]
  PROVE  TorqueInv'
<1> DEFINE new == [id |-> count, on |-> on, buses |-> T]
<1>1. tasks' = tasks \cup {new} /\ new.on = on /\ new.buses = T /\ torque' = torque
  BY DEF Spawn
<1>2. ASSUME NEW b \in T
      PROVE  /\ b \in new.buses
             /\ b \notin raced' => \A t \in tasks : b \in t.buses => t.on = on
  BY <1>1 DEF Spawn
<1>3. ASSUME NEW b \in Buses, b \notin T
      PROVE  (b \in raced' <=> b \in raced) /\ (b \in missed' <=> b \in missed)
  BY <1>3 DEF Spawn
<1> HIDE DEF new
<1>4. ASSUME NEW b \in Buses \ raced', NEW t \in tasks', b \in t.buses
      PROVE  t.on <=> toFrom'[b] # None
  <2>1. CASE b \in T
    BY <1>1, <1>2, <1>4, <2>1
  <2>2. CASE b \notin T
    BY <1>1, <1>3, <1>4, <2>2 DEF TorqueInv
  <2> QED
    BY <2>1, <2>2
<1>5. ASSUME NEW b \in Buses \ (raced' \cup missed'), \A t \in tasks' : b \notin t.buses
      PROVE  torque'[b] <=> toFrom'[b] # None
  <2>1. b \notin T
    BY <1>1, <1>2, <1>5
  <2> QED
    BY <1>1, <1>3, <1>5, <2>1 DEF TorqueInv, TorqueSettled
<1> QED
  BY <1>4, <1>5 DEF TorqueInv, TorqueSettled

LEMMA SendKeeps ==
  ASSUME TypeOK, TorqueInv, NEW t \in tasks, NEW b \in t.buses, NEW taken \in BOOLEAN,
         SendTorque(t, b, taken)
  PROVE  TorqueInv'
<1> DEFINE rest == [t EXCEPT !.buses = @ \ {b}]
<1>1. b \in Buses /\ rest.on = t.on /\ rest.buses = t.buses \ {b}
  BY DEF TypeOK
<1>2. tasks' = (tasks \ {t}) \cup (IF t.buses = {b} THEN {} ELSE {rest})
  BY DEF SendTorque
<1>3. UNCHANGED <<toFrom, raced>>
  BY DEF SendTorque, mapVars
<1> HIDE DEF rest
<1>4. \A u \in tasks' : \E v \in tasks : u.buses \subseteq v.buses /\ u.on = v.on
  BY <1>1, <1>2
<1>5. ASSUME NEW c \in Buses, c # b, \A u \in tasks' : c \notin u.buses
      PROVE  \A u \in tasks : c \notin u.buses
  BY <1>1, <1>2, <1>5
<1>6. ASSUME NEW c \in Buses \ raced', NEW u \in tasks', c \in u.buses
      PROVE  u.on <=> toFrom'[c] # None
  BY <1>3, <1>4, <1>6 DEF TorqueInv
<1>7. ASSUME NEW c \in Buses \ (raced' \cup missed'), \A u \in tasks' : c \notin u.buses
      PROVE  torque'[c] <=> toFrom'[c] # None
  <2>1. CASE c = b
    <3>1. taken
      BY <1>1, <1>7, <2>1 DEF SendTorque
    <3>2. torque'[b] = t.on
      BY <1>1, <3>1 DEF SendTorque, TypeOK
    <3> QED
      BY <1>3, <1>7, <2>1, <3>2 DEF TorqueInv
  <2>2. CASE c # b
    <3>1. torque'[c] = torque[c] /\ c \notin missed
      BY <1>7, <2>2 DEF SendTorque, TypeOK
    <3> QED
      BY <1>3, <1>5, <1>7, <2>2, <3>1 DEF TorqueInv, TorqueSettled
  <2> QED
    BY <2>1, <2>2
<1> QED
  BY <1>6, <1>7 DEF TorqueInv, TorqueSettled

LEMMA TorqueStep == TypeOK /\ TorqueInv /\ [Next]_vars => TorqueInv'
<1> SUFFICES ASSUME TypeOK, TorqueInv, [Next]_vars PROVE TorqueInv'
  OBVIOUS
<1>1. ASSUME NEW from \in Buses, NEW to \in SUBSET Buses, StartMirror(from, to) PROVE TorqueInv'
  <2>1. \A b \in Buses : IF b \in to THEN TRUE <=> toFrom'[b] # None ELSE toFrom'[b] = toFrom[b]
    BY <1>1, MirroringAssumption DEF StartMirror, Move, TypeOK
  <2> QED
    BY <1>1, <2>1, SpawnKeeps DEF StartMirror
<1>2. ASSUME NEW bus \in Buses, StopMirror(bus) PROVE TorqueInv'
  <2>1. Freed(bus) \subseteq Buses
    BY DEF Freed, TypeOK
  <2>2. \A b \in Buses : IF b \in Freed(bus) THEN FALSE <=> toFrom'[b] # None
                                             ELSE toFrom'[b] = toFrom[b]
    BY <1>2 DEF StopMirror, Remove, Freed, TypeOK
  <2> QED
    BY <1>2, <2>1, <2>2, SpawnKeeps DEF StopMirror
<1>3. CASE UNCHANGED <<mapVars, taskVars>>
  BY <1>3 DEF mapVars, taskVars, TorqueInv, TorqueSettled
<1>4. CASE HandlerMerge \/ Restore \/ BeginPass \/ \E from \in Buses : Drive(from)
  BY <1>3, <1>4 DEF HandlerMerge, Restore, BeginPass, Drive
<1>5. ASSUME NEW t \in tasks, EndTask(t) PROVE TorqueInv'
  <2>1. UNCHANGED <<toFrom, torque, raced, missed>> /\ tasks' = tasks \ {t} /\ t.buses = {}
    BY <1>5 DEF EndTask, mapVars
  <2> QED
    BY <2>1 DEF TorqueInv, TorqueSettled
<1>6. ASSUME NEW t \in tasks, NEW b \in t.buses, NEW taken \in BOOLEAN, SendTorque(t, b, taken)
      PROVE  TorqueInv'
  BY <1>6, SendKeeps
<1>7. CASE UNCHANGED vars
  BY <1>3, <1>7 DEF vars
<1> QED
  BY <1>1, <1>2, <1>4, <1>5, <1>6, <1>7 DEF Next

\* When its torque tasks are done, the torque of an arm is on exactly if it follows, for
\* any number of arms and commands, unless a start and a stop overlapped on it or a task
\* did not find it (TorqueSettled).
THEOREM TorqueSettledAlways == Spec => []TorqueSettled
<1>1. Init => TorqueInv
  BY DEF Init, TorqueInv, TorqueSettled
<1>2. TorqueInv => TorqueSettled
  BY DEF TorqueInv
<1> QED
  BY <1>1, <1>2, TorqueStep, TypeCorrect, PTL DEF Spec

-----------------------------------------------------------------------------
\* A share of a size is at most the size.
LEMMA ShareBound ==
  ASSUME NEW r \in Nat, NEW d \in Nat \ {0}, NEW s \in Nat, r <= d
  PROVE  /\ (r * s) \div d \in Nat
         /\ (r * s) \div d <= s
<1> DEFINE x == r * s
           q == x \div d
<1>1. x \in Nat /\ x <= d * s
  <2>1. (d - r) * s \in Nat
    <3>1. d - r \in Nat
      OBVIOUS
    <3>2. \A a \in Nat : a * s \in Nat
      OBVIOUS
    <3>3. QED
      BY <3>1, <3>2
  <2>2. (d - r) * s = d * s - r * s
    OBVIOUS
  <2>3. r * s \in Nat /\ d * s \in Nat
    OBVIOUS
  <2>4. QED
    BY <2>1, <2>2, <2>3
<1>2. q \in Nat /\ d * q <= x
  <2>1. x \in Nat
    BY <1>1
  <2> HIDE DEF x
  <2>2. QED
    BY <2>1 DEF q
<1>3. ASSUME q > s PROVE FALSE
  <2>1. d * q >= d * (s + 1)
    BY <1>2, <1>3
  <2>2. d * (s + 1) = d * s + d
    OBVIOUS
  <2>3. QED
    BY <2>1, <2>2, <1>1, <1>2
<1>4. QED
  BY <1>2, <1>3

\* get_steps_range is the length of the arc, modulo a turn.
LEMMA ArcLength ==
  ASSUME NEW min \in Positions, NEW max \in Positions
  PROVE  /\ StepsRange(min, max) \in Positions
         /\ StepsRange(min, max) = (max - min) % MaxSteps
<1>1. MaxSteps \in Nat /\ min \in 0..(MaxSteps - 1) /\ max \in 0..(MaxSteps - 1)
  BY ProtectionAssumption DEF Positions
<1>2. CASE max >= min
  <2>1. max - min \in 0..(MaxSteps - 1)
    BY <1>1, <1>2
  <2>2. (max - min) % MaxSteps = max - min
    BY <1>1, <2>1
  <2>3. QED
    BY <1>2, <2>1, <2>2 DEF StepsRange, Positions
<1>3. CASE max < min
  <2>1. max - min + MaxSteps \in 0..(MaxSteps - 1)
    BY <1>1, <1>3
  <2>2. (max - min) % MaxSteps = max - min + MaxSteps
    BY <1>1, <2>1, <1>3
  <2>3. QED
    BY <1>1, <1>3, <2>1, <2>2 DEF StepsRange, Positions
<1>4. QED
  BY <1>1, <1>2, <1>3

\* normalize_position stays within the range, for a leader outside of it too.
LEMMA RelativeBound ==
  ASSUME NEW p \in Positions, NEW min \in Positions, NEW max \in Positions
  PROVE  Relative(p, min, max) \in 0..StepsRange(min, max)
  BY ProtectionAssumption DEF Relative, StepsRange, Positions

\* The offset of a goal lies in the follower's range without its margins.
LEMMA OffsetBound ==
  ASSUME src \in Positions, ~Unusable
  PROVE  TgtSize \in Nat /\ Scaled(TgtSize) \in 0..TgtSize
<1> DEFINE range == StepsRange(SrcMin, SrcMax)
           r == Relative(src, SrcMin, SrcMax)
           offset == Scaled(TgtSize)
<1>1. {SrcMin, SrcMax, TgtMin, TgtMax} \subseteq Positions /\ Margin \in Nat
  BY ProtectionAssumption
<1>2. TgtSize \in Nat
  <2>1. StepsRange(TgtMin, TgtMax) \in Nat
    BY <1>1, ArcLength, ProtectionAssumption DEF Positions
  <2>2. QED
    BY <2>1, <1>1 DEF TgtSize, Unusable
<1>3. range \in Nat /\ r \in 0..range
  <2>1. range \in Positions
    BY <1>1, ArcLength
  <2>2. r \in 0..range
    BY <1>1, RelativeBound
  <2>3. QED
    BY <2>1, <2>2, ProtectionAssumption DEF Positions
<1> HIDE DEF range, r
<1>5. CASE range = 0
  <2> DEFINE e == TgtSize \div 2
  <2>1. e \in 0..TgtSize
    BY <1>2
  <2>2. offset = e \/ (e > 0 /\ offset = e - 1)
    BY <1>5 DEF Scaled, range, r
  <2> HIDE DEF e, offset
  <2>3. offset \in 0..TgtSize
    BY <2>1, <2>2, <1>2
  <2>4. QED
    BY <1>2, <2>3 DEF offset
<1>6. CASE range # 0
  <2> DEFINE e == (r * TgtSize) \div range
  <2>1. e \in Nat /\ e <= TgtSize
    BY <1>2, <1>3, <1>6, ShareBound
  <2>2. offset = e \/ (e > 0 /\ offset = e - 1)
    BY <1>6 DEF Scaled, range, r
  <2> HIDE DEF e, offset
  <2>3. offset \in 0..TgtSize
    BY <2>1, <2>2, <1>2
  <2>4. QED
    BY <1>2, <2>3 DEF offset
<1>7. QED
  BY <1>5, <1>6

\* The goal is a position of the calibrated arc with the margin kept.
LEMMA GoalPlace ==
  ASSUME src \in Positions, ~Unusable
  PROVE  Goal \in Positions /\ Safe(Goal)
<1> DEFINE offset == Scaled(TgtSize)
           goal == Goal
           y == offset + Margin
<1>1. goal = (TgtMin + offset + Margin) % MaxSteps
  BY DEF Goal
<1>2. MaxSteps \in Nat /\ Margin \in Nat /\ TgtMin \in Positions /\ TgtMax \in Positions
  BY ProtectionAssumption
<1>3. TgtMin \in 0..(MaxSteps - 1)
  BY <1>2 DEF Positions
<1>4. StepsRange(TgtMin, TgtMax) \in 0..(MaxSteps - 1)
  BY <1>2, ArcLength DEF Positions
<1>5. offset \in 0..(StepsRange(TgtMin, TgtMax) - 2 * Margin)
  BY OffsetBound DEF TgtSize
<1> HIDE DEF offset, goal
<1>6. y \in Margin..(StepsRange(TgtMin, TgtMax) - Margin) /\ y \in 0..(MaxSteps - 1)
  BY <1>2, <1>4, <1>5
<1>7. goal = (TgtMin + y) % MaxSteps
  <2>1. TgtMin + offset + Margin = TgtMin + y
    BY <1>2, <1>3, <1>4, <1>5
  <2>2. QED
    BY <1>1, <2>1
<1> HIDE DEF y
<1>8. goal \in 0..(MaxSteps - 1) /\ (goal - TgtMin) % MaxSteps = y
  <2>1. CASE TgtMin + y < MaxSteps
    <3>1. goal = TgtMin + y
      BY <1>2, <1>3, <1>6, <1>7, <2>1
    <3>2. goal - TgtMin = y
      BY <3>1, <1>3, <1>6
    <3>3. QED
      BY <3>1, <3>2, <1>2, <1>3, <1>6, <2>1
  <2>2. CASE TgtMin + y >= MaxSteps
    <3>1. goal = TgtMin + y - MaxSteps
      BY <1>2, <1>3, <1>6, <1>7, <2>2
    <3>2. goal - TgtMin = y - MaxSteps
      BY <3>1, <1>2, <1>3, <1>6
    <3>3. (y - MaxSteps) % MaxSteps = y
      BY <1>2, <1>6
    <3>4. QED
      BY <3>1, <3>2, <3>3, <1>2, <1>3, <1>6, <2>2
  <2>3. QED
    BY <1>2, <1>3, <1>6, <2>1, <2>2
<1>9. StepsRange(TgtMin, TgtMax) = (TgtMax - TgtMin) % MaxSteps
  BY <1>2, ArcLength
<1>10. goal \in Positions /\ Safe(goal)
  BY <1>2, <1>4, <1>6, <1>8, <1>9 DEF Safe, Positions
<1>11. QED
  BY <1>10 DEF goal

-----------------------------------------------------------------------------
\* What a pass sends is appended, and becomes the goal the follower ends at; what is
\* delivered leaves that goal alone.
LEMMA SentGoal ==
  ASSUME sent \in Seq(Positions), NEW goal \in Positions, NEW accepted \in BOOLEAN,
         Enqueue(goal, accepted), UNCHANGED reg
  PROVE  /\ sent' \in Seq(Positions)
         /\ Len(sent') <= MaxSent \/ sent' = sent
         /\ FinalGoal' = IF accepted THEN goal ELSE FinalGoal
<1>1. MaxSent \in Nat
  BY ProtectionAssumption
<1>2. CASE accepted
  <2>1. sent' = Append(sent, goal) /\ Len(sent) < MaxSent
    BY <1>2 DEF Enqueue
  <2>2. sent' \in Seq(Positions) /\ Len(sent') = Len(sent) + 1 /\ sent'[Len(sent')] = goal
    BY <2>1
  <2>3. sent' # <<>> /\ Len(sent) \in Nat
    BY <2>2
  <2>4. QED
    BY <1>1, <1>2, <2>1, <2>2, <2>3 DEF FinalGoal
<1>3. CASE ~accepted
  BY <1>3 DEF Enqueue, FinalGoal
<1>4. QED
  BY <1>2, <1>3

LEMMA DeliveredGoal ==
  ASSUME sent \in Seq(Positions), Deliver
  PROVE  /\ sent' \in Seq(Positions) /\ Len(sent') <= Len(sent)
         /\ reg' \in Positions /\ FinalGoal' = FinalGoal
<1>1. sent # <<>> /\ sent' = Tail(sent) /\ reg' = Head(sent)
  BY DEF Deliver
<1>2. sent' \in Seq(Positions) /\ Len(sent') = Len(sent) - 1 /\ reg' = sent[1]
  BY <1>1
<1>3. Len(sent) \in Nat \ {0} /\ sent[1] \in Positions
  BY <1>1
<1>4. CASE Len(sent) = 1
  <2>1. sent' = <<>>
    BY <1>2, <1>4
  <2>2. QED
    BY <1>1, <1>2, <1>3, <1>4, <2>1 DEF FinalGoal
<1>5. CASE Len(sent) # 1
  <2>1. sent' # <<>> /\ sent'[Len(sent')] = sent[Len(sent)]
    BY <1>1, <1>2, <1>3, <1>5
  <2>2. QED
    BY <1>1, <1>2, <1>3, <2>1 DEF FinalGoal
<1>6. QED
  BY <1>4, <1>5

LEMMA FinalGoalPlace ==
  ASSUME sent \in Seq(Positions), reg \in Positions
  PROVE  FinalGoal \in Positions
<1>1. Len(sent) \in Nat /\ (sent # <<>> => Len(sent) \in 1..Len(sent))
  OBVIOUS
<1>2. QED
  BY <1>1 DEF FinalGoal

-----------------------------------------------------------------------------
LEMMA TypeInit == MotorInit => MotorTypeOK
<1> SUFFICES ASSUME MotorInit PROVE MotorTypeOK
  OBVIOUS
<1>1. 0 \in Positions /\ MaxSent \in Nat /\ Leads \subseteq Positions
  BY ProtectionAssumption DEF Positions
<1>2. seen \in Images
  BY DEF MotorInit, Images
<1>3. sent \in Seq(Positions) /\ Len(sent) = 0
  BY DEF MotorInit
<1>4. calm \in BOOLEAN
  BY DEF MotorInit
<1>5. QED
  BY <1>1, <1>2, <1>3, <1>4 DEF MotorInit, MotorTypeOK

\* A wall stays a wall.
LEMMA WallType ==
  ASSUME MotorTypeOK, NEW accepted \in BOOLEAN, Meet(accepted)
  PROVE  wall' \in Walls \cup {Unset}
<1>0. \A p, q : Direction(p, q) \in Directions \cup {Unset}
  BY DEF Direction, Directions
<1>1. Block \in Directions \cup {Unset}
  BY <1>0 DEF Block, MotorTypeOK
<1>2. seen.pos \in Positions
  BY DEF MotorTypeOK, Images
<1>3. \A d : Farther(d, seen.pos, pos) \in Positions
  BY <1>2 DEF Farther, MotorTypeOK
<1>4. Owed(accepted) \in Positions \cup {Unset}
  BY FinalGoalPlace DEF Owed, MotorTypeOK
<1>5. Block # Unset => [dir |-> Block, far |-> Farther(Block, seen.pos, pos),
                        owed |-> Owed(accepted)] \in Walls
  BY <1>1, <1>3, <1>4 DEF Walls
<1>6. wall \in Walls => [wall EXCEPT !.owed = Unset] \in Walls
  BY DEF Walls
<1>7. QED
  BY <1>5, <1>6 DEF Meet, MotorTypeOK

LEMMA MotorTypeStep == MotorTypeOK /\ [MotorNext]_motorVars => MotorTypeOK'
<1> SUFFICES ASSUME MotorTypeOK, [MotorNext]_motorVars PROVE MotorTypeOK'
  OBVIOUS
<1>0. /\ MaxSteps \in Nat /\ MaxSent \in Nat /\ Unset \notin Directions
      /\ \A p, q : Direction(p, q) \in Directions \cup {Unset}
      /\ seen.pos \in Positions /\ Len(sent) \in Nat
  BY ProtectionAssumption DEF Direction, Directions, MotorTypeOK, Images
<1>1. CASE PassSkip
  BY <1>1 DEF PassSkip, MotorTypeOK, motorVars
<1>2. ASSUME NEW accepted \in BOOLEAN, PassHold(accepted) PROVE MotorTypeOK'
  <2>1. Block \in Directions \cup {Unset}
    BY <1>0 DEF Block, MotorTypeOK
  <2>2. wall' \in Walls \cup {Unset}
    BY <1>2, WallType DEF PassHold
  <2>3. sent' \in Seq(Positions) /\ Len(sent') <= MaxSent
    <3>1. CASE HoldDue
      BY <1>0, <1>2, <3>1, SentGoal DEF PassHold, MotorTypeOK
    <3>2. CASE ~HoldDue
      BY <1>2, <3>2 DEF PassHold, MotorTypeOK
    <3>3. QED
      BY <3>1, <3>2
  <2>4. QED
    BY <1>2, <2>1, <2>2, <2>3 DEF PassHold, MotorTypeOK
<1>3. ASSUME NEW accepted \in BOOLEAN, PassMove(accepted) PROVE MotorTypeOK'
  <2>1. Goal \in Positions
    BY <1>3, GoalPlace DEF PassMove, MotorTypeOK
  <2>2. Unblocked \in Directions \cup {Unset}
    BY DEF Unblocked, MotorTypeOK
  <2>3. wall' \in Walls \cup {Unset}
    BY <1>3 DEF PassMove, TurnedFrom, MotorTypeOK
  <2>4. sent' = sent \/ Enqueue(Goal, accepted)
    BY <1>3 DEF PassMove
  <2>5. sent' \in Seq(Positions) /\ Len(sent') <= MaxSent
    BY <1>3, <2>1, <2>4, SentGoal DEF PassMove, MotorTypeOK
  <2>6. prev' \in Positions
    BY <1>0, <1>3 DEF PassMove, MotorTypeOK
  <2>7. QED
    BY <1>3, <2>2, <2>3, <2>5, <2>6 DEF PassMove, MotorTypeOK
<1>4. ASSUME NEW p \in Positions, ComeTo(p), UNCHANGED <<src, reg, seen, sent, blocked, prev, calm>>
      PROVE  MotorTypeOK'
  <2>1. moved' \in Directions \cup {Unset}
    BY <1>0, <1>4 DEF ComeTo, MotorTypeOK
  <2>2. wall' \in Walls \cup {Unset}
    BY <1>4 DEF ComeTo, MotorTypeOK, Walls, Farther
  <2>3. QED
    BY <1>4, <2>1, <2>2 DEF ComeTo, MotorTypeOK
<1>5. CASE Turn
  <2>1. (IF reg > pos THEN pos + 1 ELSE pos - 1) \in Positions
    BY <1>0, <1>5 DEF Turn, MotorTypeOK, Positions
  <2>2. QED
    BY <1>4, <1>5, <2>1 DEF Turn
<1>6. CASE \E p \in Leads : Lead(p)
  <2>1. Leads \subseteq Positions
    BY ProtectionAssumption
  <2>2. QED
    BY <1>6, <2>1 DEF Lead, MotorTypeOK
<1>7. CASE \E p \in Positions : Push(p)
  BY <1>4, <1>7 DEF Push
<1>8. CASE Deliver
  <2>1. /\ sent' \in Seq(Positions) /\ Len(sent') <= Len(sent) /\ reg' \in Positions
    BY <1>8, DeliveredGoal DEF MotorTypeOK
  <2>2. Len(sent') <= MaxSent
    BY <1>0, <2>1 DEF MotorTypeOK
  <2>3. QED
    BY <1>8, <2>1, <2>2 DEF Deliver, MotorTypeOK
<1>9. ASSUME NEW high \in BOOLEAN, Publish(high) PROVE MotorTypeOK'
  <2>1. seen' \in Images
    BY <1>9 DEF Publish, Images, MotorTypeOK
  <2>2. QED
    BY <1>9, <2>1 DEF Publish, MotorTypeOK
<1>10. CASE ComeToRest
  BY <1>10 DEF ComeToRest, MotorTypeOK
<1>11. CASE UNCHANGED motorVars
  BY <1>11 DEF motorVars, MotorTypeOK
<1>12. QED
  BY <1>1, <1>2, <1>3, <1>5, <1>6, <1>7, <1>8, <1>9, <1>10, <1>11 DEF MotorNext, Pass, Publishes

\* Every variable of the protected follower keeps its type: goals are positions for every
\* pair of calibrated ranges.
THEOREM MotorTypeCorrect == MotorSpec => []MotorTypeOK
  BY TypeInit, MotorTypeStep, PTL DEF MotorSpec

\* A goal that get_movement_sequence_with_goal sends is where the follower was seen or lies
\* in its calibrated arc with the margin kept, whatever the leader's and follower's ranges
\* are and however late images and goals arrive (GoalStaysSafe).
THEOREM GoalStaysSafeAlways == MotorSpec => GoalStaysSafe
<1>1. ASSUME MotorTypeOK, [MotorNext]_motorVars
      PROVE  [FinalGoal' # FinalGoal => FinalGoal' = seen.pos \/ Safe(FinalGoal')]_motorVars
  <2>0. seen.pos \in Positions /\ sent \in Seq(Positions) /\ src \in Positions
    BY <1>1 DEF MotorTypeOK, Images
  <2>1. ASSUME NEW accepted \in BOOLEAN, PassHold(accepted)
        PROVE  FinalGoal' = FinalGoal \/ FinalGoal' = seen.pos
    <3>1. CASE HoldDue
      BY <2>0, <2>1, <3>1, SentGoal DEF PassHold
    <3>2. CASE ~HoldDue
      BY <2>1, <3>2 DEF PassHold, FinalGoal
    <3>3. QED
      BY <3>1, <3>2
  <2>2. ASSUME NEW accepted \in BOOLEAN, PassMove(accepted)
        PROVE  FinalGoal' = FinalGoal \/ Safe(FinalGoal')
    <3>1. Goal \in Positions /\ Safe(Goal)
      BY <2>0, <2>2, GoalPlace DEF PassMove
    <3>2. CASE sent' = sent
      BY <2>2, <3>2 DEF PassMove, FinalGoal
    <3>3. CASE Enqueue(Goal, accepted)
      <4>1. FinalGoal' = Goal \/ FinalGoal' = FinalGoal
        BY <2>0, <2>2, <3>1, <3>3, SentGoal DEF PassMove
      <4>2. QED
        BY <3>1, <4>1
    <3>4. QED
      BY <2>2, <3>2, <3>3 DEF PassMove
  <2>3. CASE Deliver
    BY <2>0, <2>3, DeliveredGoal
  <2>4. CASE UNCHANGED <<sent, reg>>
    BY <2>4 DEF FinalGoal
  <2>5. QED
    BY <1>1, <2>1, <2>2, <2>3, <2>4
    DEF MotorNext, Pass, PassSkip, Publishes, Publish, Turn, ComeToRest, Lead, Push, motorVars
<1>2. QED
  BY <1>1, MotorTypeCorrect, PTL DEF MotorSpec, GoalStaysSafe

-----------------------------------------------------------------------------
\* p is not beyond w.far by more than d.
Within(p, w, d) == IF w.dir = "positive" THEN p <= w.far + d ELSE p >= w.far - d

\* NoDriveIntoWall, and what makes it inductive: the block stands as long as the wall does,
\* and the follower, as it is and as it is seen, has not been farther than wall.far.
WallInv ==
  /\ NoDriveIntoWall
  /\ wall # Unset => blocked = wall.dir /\ Within(pos, wall, 0) /\ Within(seen.pos, wall, 0)

LEMMA WallStep == MotorTypeOK /\ WallInv /\ [MotorNext]_motorVars => WallInv'
<1> SUFFICES ASSUME MotorTypeOK, WallInv, [MotorNext]_motorVars PROVE WallInv'
  OBVIOUS
<1>0. /\ MaxSteps \in Nat /\ Deadband \in Nat
      /\ Unset \notin Walls /\ Unset # "positive" /\ Unset # "negative"
  BY ProtectionAssumption DEF Directions
<1>1. pos \in Int /\ seen.pos \in Int /\ seen.reg \in Int /\ FinalGoal \in Int
  <2>1. FinalGoal \in Positions
    BY FinalGoalPlace DEF MotorTypeOK
  <2>2. QED
    BY <1>0, <2>1 DEF MotorTypeOK, Positions, Images
<1>2. wall # Unset => wall \in Walls /\ wall.dir \in Directions /\ wall.far \in Int
  BY <1>0 DEF MotorTypeOK, Positions, Walls
<1>3. NoDriveIntoWall <=> (wall # Unset => FinalGoal = wall.owed \/ Within(FinalGoal, wall, Deadband))
  BY DEF NoDriveIntoWall, Within
<1>4. ASSUME wall' = Unset PROVE WallInv'
  BY <1>4 DEF WallInv, NoDriveIntoWall
<1>5. ASSUME NEW accepted \in BOOLEAN, PassHold(accepted) PROVE WallInv'
  <2>0. UNCHANGED <<pos, seen, reg>> /\ seen.pos \in Positions
    BY <1>5 DEF PassHold, MotorTypeOK, Images
  <2>1. FinalGoal' = IF HoldDue /\ accepted THEN seen.pos ELSE FinalGoal
    <3>1. CASE HoldDue
      BY <1>5, <2>0, <3>1, SentGoal DEF PassHold, MotorTypeOK
    <3>2. CASE ~HoldDue
      BY <1>5, <3>2 DEF PassHold, FinalGoal
    <3>3. QED
      BY <3>1, <3>2
  <2>2. CASE blocked = Unset /\ Block # Unset /\ Block = seen.moved
    <3> DEFINE far == Farther(Block, seen.pos, pos)
    <3>1. wall' = [dir |-> Block, far |-> far, owed |-> Owed(accepted)] /\ blocked' = Block
      BY <1>5, <2>2 DEF PassHold, Meet
    <3>2. wall'.dir = Block /\ wall'.far = far /\ wall'.owed = Owed(accepted)
      BY <3>1
    <3>3. Block \in {"positive", "negative"}
      BY <2>2 DEF Block, Direction
    <3>4. /\ far \in Int
          /\ Block = "positive" => pos <= far /\ seen.pos <= far
          /\ Block = "negative" => pos >= far /\ seen.pos >= far
      BY <1>0, <1>1, <3>3 DEF Farther, Direction
    <3> HIDE DEF far
    <3>5. Within(pos', wall', 0) /\ Within(seen'.pos, wall', 0)
      BY <1>1, <2>0, <3>2, <3>3, <3>4 DEF Within
    <3>6. FinalGoal' = Owed(accepted) \/ Within(FinalGoal', wall', Deadband)
      <4>1. CASE HoldDue /\ accepted
        <5>1. FinalGoal' = seen.pos
          BY <2>1, <4>1
        <5>2. QED
          BY <1>0, <1>1, <3>2, <3>3, <3>4, <5>1 DEF Within
      <4>2. CASE HoldDue /\ ~accepted
        BY <2>1, <4>2 DEF Owed
      <4>3. CASE ~HoldDue /\ seen.reg # FinalGoal
        BY <2>1, <4>3 DEF Owed
      <4>4. CASE ~HoldDue /\ seen.reg = FinalGoal
        <5>1. FinalGoal' <= seen.pos + Deadband /\ FinalGoal' >= seen.pos - Deadband
          BY <1>0, <1>1, <2>1, <4>4 DEF HoldDue, AbsDiff
        <5>2. QED
          BY <1>0, <1>1, <2>1, <3>2, <3>3, <3>4, <4>4, <5>1 DEF Within
      <4>5. QED
        BY <4>1, <4>2, <4>3, <4>4
    <3>7. QED
      BY <3>1, <3>2, <3>5, <3>6 DEF WallInv, NoDriveIntoWall, Within
  <2>3. CASE blocked = Unset /\ ~(Block # Unset /\ Block = seen.moved)
    BY <1>4, <1>5, <2>3 DEF PassHold, Meet
  <2>4. CASE blocked # Unset /\ wall = Unset
    BY <1>4, <1>5, <2>4 DEF PassHold, Meet
  <2>5. CASE blocked # Unset /\ wall # Unset
    <3>1. blocked' = blocked
      BY <1>5, <2>5 DEF PassHold, Block
    <3>2. wall' = IF HoldDue /\ accepted THEN [wall EXCEPT !.owed = Unset] ELSE wall
      BY <1>5, <2>5 DEF PassHold, Meet
    <3>3. wall'.dir = wall.dir /\ wall'.far = wall.far
      BY <1>2, <2>5, <3>2 DEF Walls
    <3>4. Within(pos', wall', 0) /\ Within(seen'.pos, wall', 0)
      BY <2>0, <2>5, <3>3 DEF WallInv, Within
    <3>5. FinalGoal' = wall'.owed \/ Within(FinalGoal', wall', Deadband)
      <4>1. CASE HoldDue /\ accepted
        <5>1. FinalGoal' = seen.pos /\ Within(seen.pos, wall, 0)
          BY <2>1, <2>5, <4>1 DEF WallInv
        <5>2. QED
          BY <1>0, <1>1, <1>2, <2>5, <3>3, <5>1 DEF Within
      <4>2. CASE ~(HoldDue /\ accepted)
        BY <1>3, <2>1, <2>5, <3>2, <4>2 DEF WallInv
      <4>3. QED
        BY <4>1, <4>2
    <3>6. QED
      BY <2>5, <3>1, <3>3, <3>4, <3>5 DEF WallInv, NoDriveIntoWall, Within
  <2>6. QED
    BY <2>2, <2>3, <2>4, <2>5
<1>6. ASSUME NEW accepted \in BOOLEAN, PassMove(accepted) PROVE WallInv'
  <2>1. CASE wall = Unset \/ Direction(seen.pos, Goal) \notin {Unset, wall.dir}
    BY <1>4, <1>6, <2>1 DEF PassMove, TurnedFrom
  <2>2. CASE wall # Unset /\ Direction(seen.pos, Goal) \in {Unset, wall.dir}
    <3>1. Unblocked = blocked /\ blocked # Unset
      BY <1>0, <1>2, <2>2 DEF Unblocked, WallInv, Directions
    <3>2. UNCHANGED <<wall, blocked, pos, seen, sent, reg>>
      BY <1>6, <2>2, <3>1 DEF PassMove, TurnedFrom
    <3>3. QED
      BY <3>2 DEF WallInv, NoDriveIntoWall, FinalGoal
  <2>3. QED
    BY <2>1, <2>2
<1>7. ASSUME NEW p \in Positions, ComeTo(p), UNCHANGED <<reg, sent, seen, blocked>>
      PROVE  WallInv'
  <2>1. CASE wall = Unset
    BY <1>4, <1>7, <2>1 DEF ComeTo
  <2>2. CASE wall # Unset
    <3> DEFINE far == Farther(wall.dir, wall.far, p)
    <3>1. wall' = [wall EXCEPT !.far = far] /\ pos' = p
      BY <1>7, <2>2 DEF ComeTo
    <3>2. wall'.dir = wall.dir /\ wall'.far = far /\ wall'.owed = wall.owed
      BY <1>2, <2>2, <3>1 DEF Walls
    <3>3. wall.dir \in {"positive", "negative"} /\ wall.far \in Int /\ p \in Int
      BY <1>0, <1>2, <2>2 DEF Directions, Positions
    <3>4. /\ far \in Int
          /\ wall.dir = "positive" => p <= far /\ wall.far <= far
          /\ wall.dir = "negative" => p >= far /\ wall.far >= far
      BY <1>0, <3>3 DEF Farther, Direction
    <3> HIDE DEF far
    <3>5. FinalGoal' = FinalGoal
      BY <1>7 DEF FinalGoal
    <3>6. \A q, d \in Int : Within(q, wall, d) => Within(q, wall', d)
      BY <3>2, <3>3, <3>4 DEF Within
    <3>7. Within(pos', wall', 0)
      BY <3>1, <3>2, <3>3, <3>4 DEF Within
    <3>8. Within(seen'.pos, wall', 0)
      BY <1>1, <1>7, <2>2, <3>6 DEF WallInv
    <3>9. FinalGoal' = wall'.owed \/ Within(FinalGoal', wall', Deadband)
      BY <1>0, <1>1, <1>3, <2>2, <3>2, <3>5, <3>6 DEF WallInv
    <3>10. QED
      BY <1>7, <2>2, <3>2, <3>7, <3>8, <3>9 DEF WallInv, NoDriveIntoWall, Within
  <2>3. QED
    BY <2>1, <2>2
<1>8. ASSUME UNCHANGED <<pos, seen, reg, sent, blocked, wall>> PROVE WallInv'
  BY <1>8 DEF WallInv, NoDriveIntoWall, FinalGoal
<1>9. CASE Turn
  <2>1. PICK p : p = (IF reg > pos THEN pos + 1 ELSE pos - 1)
    OBVIOUS
  <2>2. p \in Positions
    BY <1>0, <1>9, <2>1 DEF Turn, MotorTypeOK, Positions
  <2>3. ComeTo(p) /\ UNCHANGED <<reg, sent, seen, blocked>>
    BY <1>9, <2>1 DEF Turn
  <2>4. QED
    BY <1>7, <2>2, <2>3
<1>10. CASE \E p \in Positions : Push(p)
  BY <1>7, <1>10 DEF Push
<1>11. CASE PassSkip \/ ComeToRest \/ UNCHANGED motorVars
  BY <1>8, <1>11 DEF PassSkip, ComeToRest, motorVars
<1>12. CASE \E p \in Leads : Lead(p)
  BY <1>8, <1>12 DEF Lead
<1>13. CASE Deliver
  <2>1. FinalGoal' = FinalGoal /\ UNCHANGED <<pos, seen, blocked, wall>>
    BY <1>13, DeliveredGoal DEF Deliver, MotorTypeOK
  <2>2. QED
    BY <2>1 DEF WallInv, NoDriveIntoWall
<1>14. ASSUME NEW high \in BOOLEAN, Publish(high) PROVE WallInv'
  <2>1. seen'.pos = pos /\ UNCHANGED <<pos, blocked, wall, sent, reg>>
    BY <1>14 DEF Publish
  <2>2. QED
    BY <2>1 DEF WallInv, NoDriveIntoWall, FinalGoal
<1>15. QED
  BY <1>5, <1>6, <1>9, <1>10, <1>11, <1>12, <1>13, <1>14 DEF MotorNext, Pass, Publishes

\* A follower that met a high current, with the way it moved in blocked, is not driven on
\* into what it met, for any ranges and deadband, any number of passes and however late
\* images and goals arrive (NoDriveIntoWall).
THEOREM NoDriveIntoWallAlways == MotorSpec => []NoDriveIntoWall
<1>1. MotorInit => WallInv
  BY DEF MotorInit, WallInv, NoDriveIntoWall
<1>2. WallInv => NoDriveIntoWall
  BY DEF WallInv
<1>3. QED
  BY <1>1, <1>2, MotorTypeCorrect, WallStep, PTL DEF MotorSpec
=============================================================================
