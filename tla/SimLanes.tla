------------------------------ MODULE SimLanes ------------------------------
(***************************************************************************)
(* From a station command to the simulator: the bridge starts a task for   *)
(* every command (command_task.rs), which gives its batch to one of two    *)
(* bounded lanes (actuation_sender.rs); a forwarder per lane moves batches *)
(* to the outbound channel and a writer sends them through the socket      *)
(* (transport.rs).  The simulator is a child process or an independent     *)
(* one (backend/*.rs); a supervisor reports the end of a child             *)
(* (supervisor.rs).  The station's session in the simulator (session.py)   *)
(* may close while the process goes on, and the writer may end while the   *)
(* session goes on.                                                        *)
(*                                                                         *)
(* A batch is its number, in the order of the commands, and its lane.      *)
(***************************************************************************)
EXTENDS Integers, Sequences, SequencesExt

CONSTANTS
  LossyCap, ReliableCap, OutCap,   \* capacities: 256, 32, 256
  None,
  MaxBatches                       \* bound: batches of one behaviour

Lanes == {"lossy", "reliable"}
Batches == [id : 1..MaxBatches, lane : Lanes]

ASSUME LanesAssumption ==
  /\ {LossyCap, ReliableCap, OutCap, MaxBatches} \subseteq Nat \ {0}
  /\ None \notin Batches

VARIABLES
  sent,     \* lanes of the commands so far
  tasks,    \* batches whose task has not finished send_actuation
  lane,     \* lane -> batches in its channel
  hold,     \* lane -> batch its forwarder is sending on, or None
  up,       \* lane -> forwarder is running
  out,      \* outbound channel of the transport
  writing,  \* writer task is running
  wire,     \* batches written to the socket of an open session
  mode,     \* SimMode: Internal (a child process) or External
  alive,    \* the simulator process runs
  session,  \* the simulator keeps its end of the socket open
  health    \* what the last SimHealth says to the subscribers and in the queue sim/health

vars == <<sent, tasks, lane, hold, up, out, writing, wire, mode, alive, session, health>>
simVars == <<mode, alive, session, health>>

Init ==
  /\ sent = <<>> /\ tasks = {} /\ out = <<>> /\ wire = <<>>
  /\ lane = [l \in Lanes |-> <<>>] /\ hold = [l \in Lanes |-> None] /\ up = [l \in Lanes |-> TRUE]
  /\ writing = TRUE /\ mode \in {"internal", "external"} /\ alive = TRUE /\ session = TRUE
  /\ health = [to \in {"subscribers", "queue"} |-> "alive"]

-----------------------------------------------------------------------------
\* A command of the station: position setpoints are lossy, torque and reset reliable.
Command(l) ==
  /\ Len(sent) < MaxBatches
  /\ sent' = Append(sent, l) /\ tasks' = tasks \cup {[id |-> Len(sent'), lane |-> l]}
  /\ UNCHANGED <<lane, hold, up, out, writing, wire, simVars>>

\* try_send: on a full lane the new batch is dropped.
SendLossy(b) ==
  /\ b \in tasks /\ b.lane = "lossy"
  /\ tasks' = tasks \ {b}
  /\ lane' = IF up["lossy"] /\ Len(lane["lossy"]) < LossyCap
             THEN [lane EXCEPT !["lossy"] = Append(@, b)] ELSE lane
  /\ UNCHANGED <<sent, hold, up, out, writing, wire, simVars>>

\* Mutant: the reliable lane drops batches too.
SendReliableTry(b) ==
  /\ b \in tasks /\ b.lane = "reliable"
  /\ tasks' = tasks \ {b}
  /\ lane' = IF up["reliable"] /\ Len(lane["reliable"]) < ReliableCap
             THEN [lane EXCEPT !["reliable"] = Append(@, b)] ELSE lane
  /\ UNCHANGED <<sent, hold, up, out, writing, wire, simVars>>
\* send: waits for room; an error when the forwarder has ended.
SendReliable(b) ==
  /\ b \in tasks /\ b.lane = "reliable"
  /\ Len(lane["reliable"]) < ReliableCap \/ ~up["reliable"]
  /\ tasks' = tasks \ {b}
  /\ lane' = IF up["reliable"] THEN [lane EXCEPT !["reliable"] = Append(@, b)] ELSE lane
  /\ UNCHANGED <<sent, hold, up, out, writing, wire, simVars>>

Take(l) ==
  /\ up[l] /\ hold[l] = None /\ lane[l] # <<>>
  /\ hold' = [hold EXCEPT ![l] = Head(lane[l])] /\ lane' = [lane EXCEPT ![l] = Tail(@)]
  /\ UNCHANGED <<sent, tasks, up, out, writing, wire, simVars>>

\* Mutant: what a forwarder takes overtakes what waits in the outbound channel.
ForwardFront(l) ==
  /\ hold[l] # None /\ writing /\ Len(out) < OutCap
  /\ out' = <<hold[l]>> \o out /\ hold' = [hold EXCEPT ![l] = None]
  /\ UNCHANGED <<sent, tasks, lane, up, writing, wire, simVars>>
Forward(l) ==
  /\ hold[l] # None /\ writing /\ Len(out) < OutCap
  /\ out' = Append(out, hold[l]) /\ hold' = [hold EXCEPT ![l] = None]
  /\ UNCHANGED <<sent, tasks, lane, up, writing, wire, simVars>>

\* The outbound channel is closed: the forwarder ends and its lane with it.
ForwardFails(l) ==
  /\ hold[l] # None /\ ~writing
  /\ hold' = [hold EXCEPT ![l] = None] /\ up' = [up EXCEPT ![l] = FALSE]
  /\ lane' = [lane EXCEPT ![l] = <<>>]
  /\ UNCHANGED <<sent, tasks, out, writing, wire, simVars>>

Write ==
  /\ writing /\ out # <<>> /\ session
  /\ out' = Tail(out) /\ wire' = Append(wire, Head(out))
  /\ UNCHANGED <<sent, tasks, lane, hold, up, writing, simVars>>

\* The writer ends and drops what waits: the socket is closed, or the envelope cannot be
\* encoded or makes a frame above the limit, whereupon the reading half keeps the session.
WriteFails ==
  /\ writing /\ out # <<>>
  /\ writing' = FALSE /\ out' = <<>>
  /\ UNCHANGED <<sent, tasks, lane, hold, up, wire, simVars>>

\* ClientSession.run: one of the two loops returns or raises (a frame that cannot be decoded,
\* the end of snapshots) and the session closes; the process goes on.
SessionCloses ==
  /\ session /\ session' = FALSE
  /\ UNCHANGED <<sent, tasks, lane, hold, up, out, writing, wire, mode, alive, health>>

\* The process exits or is killed, which closes the socket.
ProcessExits ==
  /\ alive /\ alive' = FALSE /\ session' = FALSE
  /\ UNCHANGED <<sent, tasks, lane, hold, up, out, writing, wire, mode, health>>

\* wait_terminated, then publish_health: the exit of a child process is broadcast, and written
\* to the queue unless that refuses it.  Of an independent process nothing is observed, and
\* shutdown, which would end the wait, has no caller.
Supervise(accepted) ==
  /\ mode = "internal" /\ ~alive /\ health["subscribers"] = "alive"
  /\ health' = [to \in DOMAIN health |->
                  IF to = "subscribers" \/ accepted THEN "dead" ELSE health[to]]
  /\ UNCHANGED <<sent, tasks, lane, hold, up, out, writing, wire, mode, alive, session>>

Next ==
  \/ \E l \in Lanes : Command(l) \/ Take(l) \/ Forward(l) \/ ForwardFails(l)
  \/ \E b \in tasks : SendLossy(b) \/ SendReliable(b)
  \/ Write \/ WriteFails \/ SessionCloses \/ ProcessExits
  \/ \E accepted \in BOOLEAN : Supervise(accepted)

\* The runtime runs every task that can go on, and an open session reads what is written to
\* it; commands, the end of the session or of the simulator and a failing encoder are not
\* under their control.
Fairness ==
  /\ \A l \in Lanes : WF_vars(Take(l)) /\ SF_vars(Forward(l)) /\ WF_vars(ForwardFails(l))
  /\ \A b \in Batches : WF_vars(b \in tasks /\ SendLossy(b)) /\ SF_vars(b \in tasks /\ SendReliable(b))
  /\ WF_vars(Write) /\ WF_vars(~session /\ WriteFails)
  /\ WF_vars(\E accepted \in BOOLEAN : Supervise(accepted))

Spec == Init /\ [][Next]_vars
FairSpec == Spec /\ Fairness

-----------------------------------------------------------------------------
Held(l) == IF hold[l] = None THEN <<>> ELSE <<hold[l]>>
\* What a batch of a lane passes through, from the simulator back to the lane; the other
\* lane's batches stand between on the wire and in the outbound channel.
Line(l) == wire \o out \o Held(l) \o lane[l]

\* The batches of a lane in a line, and the pairs of them of which the first is ahead.
Of(s, l) == {s[i] : i \in {j \in DOMAIN s : s[j].lane = l}}
Ahead(s, l) ==
  {p \in Of(s, l) \X Of(s, l) : \E i, j \in DOMAIN s : i < j /\ p = <<s[i], s[j]>>}

\* From one line to the next no batch is lost, the order is kept and what is new stands
\* behind what was there.
Extends(s, t, l) ==
  Of(s, l) \subseteq Of(t, l) /\ Ahead(s, l) = {p \in Ahead(t, l) : p[2] \in Of(s, l)}
Once(s, l) == \A b \in Of(s, l) : <<b, b>> \notin Ahead(s, l)

\* The batches of a lane reach the simulator in the order in which the lane took them and
\* once: a step only extends the line of a lane at its end, until the writer stops.
LanesInOrder ==
  [][\A l \in Lanes : writing' => Extends(Line(l), Line(l)', l) /\ Once(Line(l)', l)]_vars

\* Whatever happens to the session, the writer or the process, no task of a reliable batch
\* waits for ever, however full the lanes are; and while the session is open and the writer
\* runs its batch is written.
ReliableArrives ==
  \A b \in Batches : (b \in tasks /\ b.lane = "reliable") ~>
                     (b \notin tasks /\ (~session \/ ~writing \/ b \in Range(wire)))

=============================================================================
