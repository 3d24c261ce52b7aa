-------------------------- MODULE CurrentProtection --------------------------
(***************************************************************************)
(* How one follower motor is moved: get_movement_sequence_with_goal of     *)
(* motors-mirroring/src/inference/mirror.rs with normalize.rs.  Every pass *)
(* of the mirror loop maps the leader's position into the follower's       *)
(* calibrated range and sends a goal, unless the follower's current is     *)
(* high: then the follower holds, and the direction it moved in is blocked *)
(* until the leader goes the other way.                                    *)
(*                                                                         *)
(* The motor, with its torque on, is modelled by its position and its goal *)
(* register.  The loop does not see them: it reads the last image that the *)
(* port worker published, and its goals wait in the commands queue before  *)
(* they reach the register, so that a pass may act on an image that is     *)
(* older than its own last goal.  An image older than MAX_DATA_AGE_NS, or  *)
(* one with a servo error, is no pass at all.  Speed and acceleration are  *)
(* left out.                                                               *)
(***************************************************************************)
EXTENDS Integers, Sequences

CONSTANTS
  MaxSteps,        \* config.max_steps: positions are 0..MaxSteps-1
  Margin,          \* config.safety_margin
  Deadband,        \* config.deadband
  Protected,       \* current_threshold > 0
  SrcMin, SrcMax,  \* calibrated range of the leader's motor
  TgtMin, TgtMax,  \* calibrated range of the follower's motor
  BelowAt,         \* leader positions whose quotient below is rounded down from a whole number
  Leads,           \* bound: positions that the leader is moved to
  MaxSent,         \* bound: goals in the commands queue that the worker has not written
  Unset

Positions == 0..(MaxSteps - 1)
Directions == {"positive", "negative"}
Images == [pos : Positions, reg : Positions, high : BOOLEAN, moved : Directions \cup {Unset}]
Walls == [dir : Directions, far : Positions, owed : Positions \cup {Unset}]   \* see wall

ASSUME ProtectionAssumption ==
  /\ MaxSteps \in Nat /\ \E k \in 1..16 : MaxSteps = 2^k   \* the code masks with max_steps - 1
  /\ Margin \in Nat /\ Deadband \in Nat /\ Protected \in BOOLEAN
  /\ {SrcMin, SrcMax, TgtMin, TgtMax} \subseteq Positions
  /\ Leads \subseteq Positions /\ BelowAt \subseteq Positions /\ MaxSent \in Nat \ {0}
  /\ Unset \notin Directions /\ Unset \notin Walls /\ Unset \notin Positions

VARIABLES
  src,      \* source.present_position, as last published
  pos,      \* the position of the follower
  reg,      \* its goal register
  moved,    \* the direction in which it last really moved
  seen,     \* target: the image the loop reads, [pos, reg, high, moved]; high is whether
            \* current >= current_threshold, moved is what the code does not see
  sent,     \* the goals in the commands queue
  blocked,  \* protection_state.blocked_direction
  prev,     \* protection_state.previous_position
  wall,     \* history: what the follower met, [dir, far, owed]: the way it moved into it, how
            \* far that way it has been since, and a goal sent before that no hold has
            \* replaced; Unset once the leader turned, or when another direction was blocked
  calm      \* the environment has come to rest for good

motorVars == <<src, pos, reg, moved, seen, sent, blocked, prev, wall, calm>>

MotorInit ==
  /\ src \in Leads /\ pos \in Positions /\ reg = pos /\ moved = Unset
  /\ seen = [pos |-> pos, reg |-> pos, high |-> FALSE, moved |-> Unset]
  /\ sent = <<>> /\ blocked = Unset /\ prev = 0 /\ wall = Unset /\ calm = FALSE

-----------------------------------------------------------------------------
AbsDiff(a, b) == IF a >= b THEN a - b ELSE b - a

\* get_steps_range
StepsRange(min, max) == IF max >= min THEN max - min ELSE (MaxSteps - min) + max

\* normalize_position as the number of steps from the start of the range.
Relative(p, min, max) ==
  IF max >= min
  THEN IF p < min THEN 0 ELSE IF p > max THEN StepsRange(min, max) ELSE p - min
  ELSE IF p >= min THEN p - min
  ELSE IF p <= max THEN (MaxSteps - min) + p
  ELSE IF min - p < p - max THEN 0 ELSE StepsRange(min, max)

\* (percent / 100 * size) as u16, with percent = 50 for an empty range.  The quotient is
\* computed in f64: when it is a whole number it may come out just below it.
Scaled(size) ==
  LET range == StepsRange(SrcMin, SrcMax)
      num == IF range = 0 THEN size ELSE Relative(src, SrcMin, SrcMax) * size
      den == IF range = 0 THEN 2 ELSE range
      exact == num \div den
  IN IF num % den = 0 /\ exact > 0 /\ src \in BelowAt THEN exact - 1 ELSE exact

\* Mutant: the margin is kept at one end of the range only.
TgtSizeOneEnd == StepsRange(TgtMin, TgtMax) - Margin

\* target_range_size, without the margins.
TgtSize == StepsRange(TgtMin, TgtMax) - 2 * Margin

\* goal_position
Goal == (TgtMin + Scaled(TgtSize) + Margin) % MaxSteps

\* calculate_shortest_distance
Distance(a, b) ==
  IF AbsDiff(a, b) > MaxSteps \div 2 THEN MaxSteps - AbsDiff(a, b) ELSE AbsDiff(a, b)

\* The direction from a to b as the code sees it: by comparing numbers.
Direction(a, b) == IF b > a THEN "positive" ELSE IF b < a THEN "negative" ELSE Unset

-----------------------------------------------------------------------------
\* A position that reads 0 or a range without room: nothing is sent.
Unusable == src = 0 \/ seen.pos = 0 \/ StepsRange(TgtMin, TgtMax) < 2 * Margin

PassSkip == Unusable /\ UNCHANGED motorVars

\* The goal where the follower ends when all that was sent has reached it.
FinalGoal == IF sent = <<>> THEN reg ELSE sent[Len(sent)]

\* A goal goes to the commands queue, which may refuse it (the result is dropped).
Enqueue(goal, accepted) ==
  /\ Len(sent) < MaxSent /\ (calm => accepted)
  /\ sent' = IF accepted THEN Append(sent, goal) ELSE sent

\* The direction to block: the one in which the position changed since prev.
Block == IF blocked = Unset THEN Direction(prev, seen.pos) ELSE blocked

\* The hold is sent unless the register reads within the deadband of the position.
HoldDue == AbsDiff(seen.reg, seen.pos) > Deadband

Farther(dir, a, b) == IF Direction(a, b) = dir THEN b ELSE a

\* The goal that the follower still ends at after a pass at high current although that pass
\* did not judge it: the hold was refused, or the image does not show the last goal.
Owed(accepted) ==
  IF HoldDue THEN IF accepted THEN Unset ELSE FinalGoal
             ELSE IF seen.reg = FinalGoal THEN Unset ELSE FinalGoal

\* What the follower has met is remembered with the first block, if the direction that is
\* blocked is the one in which the follower was moving.
Meet(accepted) ==
  wall' = IF blocked = Unset
          THEN IF Block # Unset /\ Block = seen.moved
               THEN [dir |-> Block, far |-> Farther(Block, seen.pos, pos),
                     owed |-> Owed(accepted)]
               ELSE Unset
          ELSE IF wall # Unset /\ HoldDue /\ accepted THEN [wall EXCEPT !.owed = Unset] ELSE wall

\* The current is high: block the direction of the movement, unless one is blocked or
\* none can be told, and hold the position.
PassHold(accepted) ==
  /\ ~Unusable /\ Protected /\ seen.high
  /\ blocked' = Block /\ Meet(accepted)
  /\ IF HoldDue THEN Enqueue(seen.pos, accepted) ELSE sent' = sent
  /\ UNCHANGED <<src, pos, reg, moved, seen, prev, calm>>

\* Mutant: a normal current clears the block at once.
UnblockedAlways == Unset

\* The current is normal: the block ends when the leader goes the other way.
Unblocked ==
  IF Direction(seen.pos, Goal) \notin {Unset, blocked} THEN Unset ELSE blocked

\* A pass at normal current that sees the leader on the other side forgets the wall.
TurnedFrom ==
  wall' = IF wall # Unset /\ Direction(seen.pos, Goal) \notin {Unset, wall.dir}
          THEN Unset ELSE wall

\* Mutant: the goal is sent only when it is above the register's value by the deadband.
PassMoveUp(accepted) ==
  /\ ~Unusable /\ ~(Protected /\ seen.high)
  /\ blocked' = Unblocked /\ TurnedFrom
  /\ IF Unblocked # Unset
     THEN prev' = seen.pos /\ UNCHANGED sent
     ELSE IF Distance(seen.pos, Goal) <= Deadband \/ Goal - seen.reg <= Deadband
          THEN UNCHANGED <<prev, sent>>
          ELSE Enqueue(Goal, accepted) /\ prev' = seen.pos
  /\ UNCHANGED <<src, pos, reg, moved, seen, calm>>

\* The rest of the function: nothing into a blocked direction, nothing within the
\* deadband, else the goal.
PassMove(accepted) ==
  /\ ~Unusable /\ ~(Protected /\ seen.high)
  /\ blocked' = Unblocked /\ TurnedFrom
  /\ IF Unblocked # Unset
     THEN prev' = seen.pos /\ UNCHANGED sent
     ELSE IF Distance(seen.pos, Goal) <= Deadband \/ AbsDiff(seen.reg, Goal) <= Deadband
          THEN UNCHANGED <<prev, sent>>
          ELSE Enqueue(Goal, accepted) /\ prev' = seen.pos
  /\ UNCHANGED <<src, pos, reg, moved, seen, calm>>

Pass ==
  \/ PassSkip
  \/ \E accepted \in BOOLEAN : PassHold(accepted) \/ PassMove(accepted)

-----------------------------------------------------------------------------
\* The port worker writes the oldest goal in the queue to the register ...
Deliver ==
  /\ sent # <<>> /\ reg' = Head(sent) /\ sent' = Tail(sent)
  /\ UNCHANGED <<src, pos, moved, seen, blocked, prev, wall, calm>>

\* ... and publishes what it reads from the motor.
Publish(high) ==
  /\ calm => ~high
  /\ seen' = [pos |-> pos, reg |-> reg, high |-> high, moved |-> moved]
  /\ UNCHANGED <<src, pos, reg, moved, sent, blocked, prev, wall, calm>>

Publishes == \E high \in BOOLEAN : Publish(high)

\* The follower comes to p, by itself or pushed.
ComeTo(p) ==
  /\ pos' = p /\ moved' = Direction(pos, p)
  /\ wall' = IF wall = Unset THEN Unset ELSE [wall EXCEPT !.far = Farther(wall.dir, @, p)]

\* The servo moves a step towards its goal register.
Turn ==
  /\ pos # reg
  /\ ComeTo(IF reg > pos THEN pos + 1 ELSE pos - 1)
  /\ UNCHANGED <<src, reg, seen, sent, blocked, prev, calm>>

\* Until it comes to rest the environment moves the leader and pushes the follower.
Lead(p) ==
  /\ ~calm /\ src' = p
  /\ UNCHANGED <<pos, reg, moved, seen, sent, blocked, prev, wall, calm>>
Push(p) ==
  /\ ~calm /\ AbsDiff(p, pos) = 1 /\ ComeTo(p)
  /\ UNCHANGED <<src, reg, seen, sent, blocked, prev, calm>>
ComeToRest ==
  /\ ~calm /\ calm' = TRUE
  /\ UNCHANGED <<src, pos, reg, moved, seen, sent, blocked, prev, wall>>

MotorNext ==
  \/ Pass \/ Deliver \/ Turn \/ ComeToRest
  \/ Publishes
  \/ \E p \in Leads : Lead(p)
  \/ \E p \in Positions : Push(p)

MotorSpec == MotorInit /\ [][MotorNext]_motorVars

\* The mirror loop runs every MIRRORING_REFRESH_INTERVAL, the port worker takes commands
\* and publishes, and the servo obeys.
MotorFairSpec ==
  /\ MotorSpec /\ WF_motorVars(Pass) /\ WF_motorVars(Turn)
  /\ WF_motorVars(Deliver) /\ WF_motorVars(Publishes)

-----------------------------------------------------------------------------
\* Type invariant.
MotorTypeOK ==
  /\ src \in Positions /\ pos \in Positions /\ reg \in Positions /\ prev \in Positions
  /\ moved \in Directions \cup {Unset} /\ seen \in Images
  /\ sent \in Seq(Positions) /\ Len(sent) <= MaxSent
  /\ blocked \in Directions \cup {Unset} /\ wall \in Walls \cup {Unset} /\ calm \in BOOLEAN

\* p lies on the follower's calibrated arc, at least Margin away from its ends.
Safe(p) ==
  LET offset == (p - TgtMin) % MaxSteps
  IN Margin <= offset /\ offset <= ((TgtMax - TgtMin) % MaxSteps) - Margin

\* A goal that is sent is where the follower was seen (hold) or lies inside its calibrated
\* arc with the safety margin kept, for every leader position, inside its arc or not, and
\* for arcs that wrap around: the code adds offsets and masks.
GoalStaysSafe ==
  [][FinalGoal' # FinalGoal => FinalGoal' = seen.pos \/ Safe(FinalGoal')]_motorVars

\* A follower that met resistance, with protection blocking the way in which it moved, is
\* not driven on: from the pass that sees the high current until the leader turns round,
\* what is sent to it ends within the deadband of the farthest point it has been to, however
\* late images and goals arrive and however its current and the leader change meanwhile.
\* The one goal beyond is one that was on its way, or whose hold was refused.
NoDriveIntoWall ==
  wall # Unset =>
    \/ FinalGoal = wall.owed
    \/ IF wall.dir = "positive" THEN FinalGoal <= wall.far + Deadband
                                ELSE FinalGoal >= wall.far - Deadband

\* When everything comes to rest the follower ends within the deadband of the leader's
\* position, or stands still against a direction that protection has blocked.
Settled == Distance(pos, Goal) <= Deadband \/ blocked = Direction(pos, Goal)
FollowerSettles == calm ~> [](Settled \/ Unusable)

\* "track direction that causes high current and block it" (mirror.rs): a follower that has
\* moved gets the direction blocked in which it moved last, when the image was taken.
BlocksTheCause ==
  [][blocked = Unset /\ blocked' # Unset /\ seen.moved # Unset
       => blocked' = seen.moved]_motorVars
=============================================================================
