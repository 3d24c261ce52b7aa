------------------------------ MODULE Mirroring ------------------------------
(***************************************************************************)
(* Teleoperation: software/drivers/motors-mirroring.  A command makes one  *)
(* bus (an arm) the leader of others; Inference keeps who follows whom in  *)
(* two maps, a loop moves every follower to its leader's position, and     *)
(* spawned tasks switch the torque of arms that start or stop following.   *)
(*                                                                         *)
(* Commands come one at a time from a subscription callback.  The restore  *)
(* task, the mirror loop and the torque tasks run beside it.  What goals   *)
(* are sent to a follower is CurrentProtection's subject; here a pass of   *)
(* the loop is the set of followers that each leader drives.               *)
(***************************************************************************)
EXTENDS Naturals, FiniteSets

CONSTANTS Buses,        \* the arms
          StoredModes,  \* what the modes queue may hold (nothing here writes it)
          MaxCommands,  \* bound: start and stop commands in a behaviour
          None

\* A start or stop command, as far as the rest of its handler needs it.
Handled == [start : BOOLEAN, from : Buses, to : SUBSET Buses]

ASSUME MirroringAssumption ==
  /\ None \notin Buses /\ None \notin Handled
  /\ StoredModes \subseteq [Buses -> {"leader", "follower", "none"}]
  /\ MaxCommands \in Nat

VARIABLES
  leaders,    \* keys of from_to
  fromTo,     \* from_to: followers of each leader
  toFrom,     \* to_from: the leader of each follower, or None
  modes,      \* modes: "none" when the map has no key
  handler,    \* the command whose maps are updated but whose modes are not, or None
  published,  \* state of the last RxEnvelope that the queue took, or None
  refused,    \* history: the queue refused the RxEnvelope of the last merge
  restoring,  \* the task that reads the modes queue at start has still to merge
  tasks,      \* torque tasks: [id, on, buses]
  torque,     \* the arms: torque switched on
  pass,       \* what the running pass of the mirror loop still has to drive
  count,      \* commands handled
  raced,      \* history: arms with an on-task and an off-task alive together
  missed      \* history: arms that a torque task did not find or could not send to

mapVars == <<leaders, fromTo, toFrom>>
pubVars == <<published, refused>>
taskVars == <<tasks, torque, raced, missed>>
vars == <<mapVars, modes, handler, pubVars, restoring, taskVars, pass, count>>

Nothing == [b \in Buses |-> {}]

Init ==
  /\ leaders = {} /\ fromTo = Nothing /\ toFrom = [b \in Buses |-> None]
  /\ modes = [b \in Buses |-> "none"]
  /\ handler = None /\ published = None /\ refused = FALSE /\ restoring = TRUE
  /\ tasks = {} /\ torque = [b \in Buses |-> FALSE] /\ raced = {} /\ missed = {}
  /\ pass = Nothing /\ count = 0

-----------------------------------------------------------------------------
\* A torque task for the buses T is spawned.  An arm is raced when a task of the other
\* kind is still alive, until it is given to a task that has it for itself.
Spawn(T, on) ==
  LET busy(b) == \E t \in tasks : b \in t.buses
      opposed(b) == \E t \in tasks : b \in t.buses /\ t.on # on
  IN /\ tasks' = tasks \cup {[id |-> count, on |-> on, buses |-> T]}
     /\ raced' = {b \in raced : b \notin T \/ busy(b)} \cup {b \in T : opposed(b)}
     /\ missed' = {b \in missed : b \notin T \/ busy(b)}
     /\ UNCHANGED torque

\* Mutant: a follower is not taken from its previous leader.
MoveAddsOnly(from, to) ==
  /\ toFrom' = [b \in Buses |-> IF b \in to THEN from ELSE toFrom[b]]
  /\ leaders' = leaders \cup {from}
  /\ fromTo' = [b \in Buses |-> fromTo[b] \cup (IF b = from THEN to ELSE {})]

\* start: each target leaves its old leader, whose list may stay behind empty.
Move(from, to) ==
  /\ toFrom' = [b \in Buses |-> IF b \in to THEN from ELSE toFrom[b]]
  /\ leaders' = leaders \cup {from}
  /\ fromTo' = [b \in Buses |-> IF b = from THEN fromTo[b] \cup to
                                ELSE fromTo[b] \ {t \in to : toFrom[t] = b}]

\* handle_start_mirror, up to inference.start.
StartMirror(from, to) ==
  /\ handler = None /\ count < MaxCommands /\ count' = count + 1
  /\ Move(from, to)
  /\ Spawn(to, TRUE)
  /\ handler' = [start |-> TRUE, from |-> from, to |-> to]
  /\ UNCHANGED <<modes, pubVars, restoring, pass>>

\* Mutant: only the leader that is stopped is freed.
FreedAlone(bus) == {bus}

\* buses_to_free: the bus and, if it leads, its followers.
Freed(bus) == {bus} \cup fromTo[bus]

\* stop: forget bus as a leader with its followers, and as a follower; a leader that
\* lost its last follower this way is forgotten too.
Remove(bus) ==
  LET cleared == [b \in Buses |-> IF b \in fromTo[bus] THEN None ELSE toFrom[b]]
      lists == [fromTo EXCEPT ![bus] = {}]
      from == cleared[bus]
  IN /\ toFrom' = [cleared EXCEPT ![bus] = None]
     /\ IF from = None
        THEN fromTo' = lists /\ leaders' = leaders \ {bus}
        ELSE /\ fromTo' = [lists EXCEPT ![from] = @ \ {bus}]
             /\ leaders' = leaders \ ({bus} \cup {b \in {from} : lists[from] \ {bus} = {}})

\* handle_stop_mirror, up to inference.stop.
StopMirror(bus) ==
  /\ handler = None /\ count < MaxCommands /\ count' = count + 1
  /\ Remove(bus)
  /\ Spawn(Freed(bus), FALSE)
  /\ handler' = [start |-> FALSE, from |-> bus, to |-> {}]
  /\ UNCHANGED <<modes, pubVars, restoring, pass>>

\* The modes a command asks for: targets are written after the source.
Asked(h) == [b \in Buses |-> IF ~h.start THEN "none"
                             ELSE IF b \in h.to THEN "follower"
                             ELSE IF b = h.from THEN "leader" ELSE "none"]

Merged(new) == [b \in Buses |-> IF new[b] = "none" THEN modes[b] ELSE new[b]]

Mirrorings == [b \in leaders |-> fromTo[b]]

\* merge_modes: the modes lock is held while the state is put together and published.  The
\* result of enqueue is dropped: when the queue refuses the envelope nobody tries again.
MergeModes(new, accepted) ==
  /\ modes' = Merged(new)
  /\ published' = IF accepted THEN [modes |-> Merged(new), mirroring |-> Mirrorings]
                  ELSE published
  /\ refused' = ~accepted

\* Mutant: the restored modes are merged but not published.
RestoreSilent ==
  /\ restoring /\ restoring' = FALSE
  /\ \E old \in StoredModes : modes' = Merged(old)
  /\ UNCHANGED <<mapVars, handler, pubVars, taskVars, pass, count>>

\* The second half of a command's handler.
HandlerMerge ==
  /\ handler # None /\ handler' = None
  /\ \E accepted \in BOOLEAN : MergeModes(Asked(handler), accepted)
  /\ UNCHANGED <<mapVars, restoring, taskVars, pass, count>>

\* The modes read from NormFS are merged, over newer ones too.
Restore ==
  /\ restoring /\ restoring' = FALSE
  /\ \E old \in StoredModes, accepted \in BOOLEAN : MergeModes(old, accepted)
  /\ UNCHANGED <<mapVars, handler, taskVars, pass, count>>

-----------------------------------------------------------------------------
\* A torque task sends its commands for one bus, unless the bus is not in the last inference
\* state or the commands queue refuses them (taken = FALSE).  The queue keeps the order in
\* which tasks wrote to it.
SendTorque(t, b, taken) ==
  /\ t \in tasks /\ b \in t.buses
  /\ tasks' = (tasks \ {t}) \cup
                (IF t.buses = {b} THEN {} ELSE {[t EXCEPT !.buses = @ \ {b}]})
  /\ torque' = IF taken THEN [torque EXCEPT ![b] = t.on] ELSE torque
  /\ missed' = IF taken THEN missed ELSE missed \cup {b}
  /\ UNCHANGED <<mapVars, modes, handler, pubVars, restoring, pass, count, raced>>

\* A task without buses just ends.
EndTask(t) ==
  /\ t \in tasks /\ t.buses = {} /\ tasks' = tasks \ {t}
  /\ UNCHANGED <<mapVars, modes, handler, pubVars, restoring, torque, pass, count, raced,
                 missed>>

\* The mirror loop clones from_to under the lock ...
BeginPass ==
  /\ pass = Nothing /\ pass' = fromTo
  /\ UNCHANGED <<mapVars, modes, handler, pubVars, restoring, taskVars, count>>

\* ... and then drives the followers of each leader, if the data of all of them is fresh.
Drive(from) ==
  /\ pass[from] # {} /\ pass' = [pass EXCEPT ![from] = {}]
  /\ UNCHANGED <<mapVars, modes, handler, pubVars, restoring, taskVars, count>>

Next ==
  \/ \E from \in Buses, to \in SUBSET Buses : StartMirror(from, to)
  \/ \E bus \in Buses : StopMirror(bus)
  \/ HandlerMerge \/ Restore
  \/ \E t \in tasks : EndTask(t) \/ \E b \in t.buses, taken \in BOOLEAN : SendTorque(t, b, taken)
  \/ BeginPass \/ \E from \in Buses : Drive(from)

Spec == Init /\ [][Next]_vars

-----------------------------------------------------------------------------
\* Type invariant.
TypeOK ==
  /\ leaders \subseteq Buses /\ fromTo \in [Buses -> SUBSET Buses]
  /\ toFrom \in [Buses -> Buses \cup {None}]
  /\ modes \in [Buses -> {"leader", "follower", "none"}]
  /\ handler \in Handled \cup {None} /\ refused \in BOOLEAN
  /\ restoring \in BOOLEAN /\ torque \in [Buses -> BOOLEAN]
  /\ tasks \subseteq [id : 0..MaxCommands, on : BOOLEAN, buses : SUBSET Buses]
  /\ pass \in [Buses -> SUBSET Buses] /\ count \in 0..MaxCommands
  /\ raced \subseteq Buses /\ missed \subseteq Buses

\* The two maps of Inference describe one relation, whatever order starts and stops come
\* in, with an arm that leads, follows, does both or follows itself.
MapsAgree ==
  /\ \A f, t \in Buses : t \in fromTo[f] <=> toFrom[t] = f
  /\ \A f \in Buses : fromTo[f] # {} => f \in leaders

\* No arm is driven by two leaders in one pass of the mirror loop, although the pass works
\* on a copy that start and stop overtake.
NoTwoLeaders ==
  \A f, g \in Buses : f # g => pass[f] \cap pass[g] = {}

\* When no command is being handled, the last RxEnvelope tells clients the modes and the
\* mirrorings as they are, although the restore task publishes beside the handler; the
\* one way to leave clients behind is a queue that refused the last envelope, and the next
\* merge that gets through ends that too.
PublishedCurrent ==
  handler = None /\ published # None /\ ~refused
    => published = [modes |-> modes, mirroring |-> Mirrorings]

\* When the torque tasks of an arm are done, its torque is on exactly if it follows, except
\* where a start and a stop overlapped (their tasks run in any order) or a task did not
\* find the arm or could not send to it.
TorqueSettled ==
  \A b \in Buses \ (raced \cup missed) :
    (\A t \in tasks : b \notin t.buses) => (torque[b] <=> toFrom[b] # None)
=============================================================================
