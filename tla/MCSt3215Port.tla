---------------------------- MODULE MCSt3215Port ----------------------------
(***************************************************************************)
(* Instances of St3215Port for TLC: the commands that clients may send in  *)
(* each run.                                                               *)
(***************************************************************************)
EXTENDS St3215Port

Cmd(kind, motor, val, ids) == [kind |-> kind, motor |-> motor, val |-> val, ids |-> ids]

\* At least one command per branch of process_command, and for each way a command names
\* motors: one recipient, a list, all of them by the broadcast id, none.
SafetyCommands ==
  {Cmd("write", Broadcast, 1, {}), Cmd("writeId", 1, 0, {1}), Cmd("regWrite", 1, 1, {}),
   Cmd("action", Broadcast, 0, {}), Cmd("reset", 1, 0, {}),
   Cmd("reset", Broadcast, 0, {}), Cmd("resetCalibration", 1, 0, {}),
   Cmd("freezeCalibration", 1, 1, {}), Cmd("autoCalibrate", 1, 0, {}),
   Cmd("syncWrite", 1, 1, {1})}

LivenessCommands == {Cmd("write", 1, 0, {})}
=============================================================================
