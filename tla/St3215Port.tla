----------------------------- MODULE St3215Port -----------------------------
(***************************************************************************)
(* One ST3215 servo bus: the port worker of software/drivers/st3215/src/   *)
(* port.rs (worker_loop, scan_motors, search_motors_ignoring,              *)
(* process_command), the subscription callback that feeds it, the part of  *)
(* the shared InferenceState (state.rs) that describes this bus, and the   *)
(* bus itself: the motors that are plugged in and their EEPROM.            *)
(*                                                                         *)
(* The worker is one task, but the subscription callback runs on another   *)
(* thread: every await of the worker, and every gap between two accesses   *)
(* to the command_waiting flag, is a step boundary here.  Bytes are        *)
(* abstracted: the EEPROM of a motor is one value of Vals, a reply is the  *)
(* class of Result that async_readwrite returns for it.  Every envelope    *)
(* for the rx queue may be refused; InferenceState only changes with one   *)
(* that was accepted.                                                      *)
(***************************************************************************)
EXTENDS Naturals, Sequences, FiniteSets

CONSTANTS
  MaxMotors,    \* MAX_MOTORS_CNT: ids 1..MaxMotors are searched for
  Vals,         \* the values that an EEPROM image can have
  Default,      \* the image after a factory reset
  Commands,     \* the commands that clients may send, a set of Command records
  MaxCommands,  \* bound: commands sent in a behaviour
  MaxOpens,     \* bound: how often the driver opens the port
  None          \* "no value": Rust's Option::None, an empty byte string

Motors == 1..MaxMotors
Broadcast == 254                       \* BROADCAST_ID
Ids == Motors \cup {Broadcast}
CommandIds == 1..MaxCommands

Kinds == {"write", "writeId", "regWrite", "action", "syncWrite", "reset",
          "resetCalibration", "freezeCalibration", "autoCalibrate", "other"}

\* A TxEnvelope: motor is the addressed id, val the value written, and ids the
\* motors of a SyncWrite, or the new id of a write to EepromRegister::ID.
Command == [kind : Kinds, motor : Ids, val : Vals, ids : SUBSET Motors]

\* A command on its way to the worker, with its command_id.
Queued == [id : CommandIds, op : Commands]

ASSUME PortAssumption ==
  /\ MaxMotors \in 1..253
  /\ Default \in Vals
  /\ None \notin Vals /\ None \notin Queued
  /\ Commands \subseteq Command
  /\ MaxCommands \in Nat
  /\ MaxOpens \in Nat

Finals == {"success", "rejected", "failed"}

VARIABLES
  flag,       \* command_waiting: AtomicBool
  txq,        \* cmd_rx: unbounded channel of [id, op]
  cb,         \* the subscription callback between store(true) and send, or None
  pc,         \* where the worker is
  cmd,        \* the command the worker has taken from the channel, or None
  quiet,      \* NO_COMMAND_SEARCH_DELAY_MS have passed since the last command
  lastSeen,   \* last_seen_motors
  searching,  \* search_for_new of the scan that is running
  seen,       \* currently_seen_motors
  todo,       \* motors that the running loop has still to visit
  found,      \* found_motors of search_motors_ignoring
  cache,      \* eeprom_cache: Motors -> image or None
  infBus,     \* InferenceState: there is a BusState of this port
  infMotors,  \* InferenceState: ids with a MotorState entry on this bus
  infData,    \* InferenceState: EEPROM image shown for the id, None if empty
  infCmd,     \* InferenceState: last_command of the id
  plugged,    \* the bus: motors that are powered and answer
  eeprom,     \* the bus: their EEPROM image
  staged,     \* the bus: value held by RegWrite until Action, or None
  announced,  \* history: motors whose last connect signal is DriveConnect
  behind,     \* history: motors whose image changed while the worker kept its copy
  orphans,    \* history: ids that a dead worker left in the books and this one never found
  deserted,   \* history: commands in a dead worker's hands that left an entry behind
  outcome,    \* history: how far the rx queue has each command
  opens       \* how often the port was opened

chanVars == <<flag, txq, cb>>
scanVars == <<searching, seen, todo, found>>
infVars  == <<infBus, infMotors, infData, infCmd>>
busVars  == <<plugged, eeprom, staged>>
bookVars == <<announced, orphans, deserted>>
vars == <<chanVars, pc, cmd, quiet, lastSeen, scanVars, cache, infVars, busVars,
          bookVars, behind, outcome, opens>>

Open == pc \notin {"closed", "gone"}

Init ==
  /\ flag = FALSE /\ txq = <<>> /\ cb = None
  /\ pc = "gone" /\ cmd = None /\ quiet = FALSE
  /\ lastSeen = {} /\ searching = FALSE /\ seen = {} /\ todo = {} /\ found = {}
  /\ cache = [m \in Motors |-> None]
  /\ infBus = FALSE /\ infMotors = {}
  /\ infData = [m \in Ids |-> None] /\ infCmd = [m \in Ids |-> None]
  /\ plugged \in SUBSET Motors
  /\ eeprom \in [Motors -> Vals] /\ staged = [m \in Motors |-> None]
  /\ announced = {} /\ orphans = {} /\ deserted = {} /\ behind = {}
  /\ outcome = [i \in CommandIds |-> "unsent"]
  /\ opens = 0

-----------------------------------------------------------------------------
(***************************************************************************)
(* InferenceState: what update_state does with an RxEnvelope of this bus.  *)
(***************************************************************************)

\* update_motor_state: DriveState and Error create or overwrite the entry, in a bus that
\* add_bus has entered.
Show(m, data) ==
  IF infBus
  THEN infMotors' = infMotors \cup {m} /\ infData' = [infData EXCEPT ![m] = data]
  ELSE UNCHANGED <<infMotors, infData>>

\* enqueue_error: the Error envelope makes an entry without an EEPROM image; a refused one
\* is only logged.
ShowError(m) ==
  Show(m, None) \/ UNCHANGED <<infMotors, infData>>

\* remove_motor_state: a DriveDisconnect deletes the entries of the motors S.
Forget(S) ==
  /\ infMotors' = infMotors \ S
  /\ infData' = [m \in Ids |-> IF m \in S THEN None ELSE infData[m]]
  /\ infCmd' = [m \in Ids |-> IF m \in S THEN None ELSE infCmd[m]]

\* get_motor_id, with 0 for None.
MotorOf(op) ==
  IF op.kind \in {"write", "writeId", "regWrite", "action", "reset"} THEN op.motor
  ELSE IF op.kind = "syncWrite" THEN Broadcast ELSE 0

\* The entries that update_command_result writes.
Recipients(op) ==
  IF op.kind = "syncWrite" THEN op.ids
  ELSE IF MotorOf(op) = 0 THEN {} ELSE {MotorOf(op)}

\* Mutant: a failed command leaves last_command alone.
CommandResultNotFailed(entries, i, op, res) ==
  [m \in Ids |-> IF res # "failed" /\ m \in Recipients(op) \cap entries
                 THEN [id |-> i, res |-> res] ELSE infCmd[m]]

\* update_command_result on an InferenceState whose entries are those of "entries".
CommandResult(entries, i, op, res) ==
  [m \in Ids |-> IF m \in Recipients(op) \cap entries
                 THEN [id |-> i, res |-> res] ELSE infCmd[m]]

-----------------------------------------------------------------------------
(***************************************************************************)
(* The subscription callback on the tx queue (port.rs, open).              *)
(***************************************************************************)

\* Commands are numbered in the order in which they enter the tx queue.
IsNext(i) ==
  outcome[i] = "unsent" /\ \A j \in CommandIds : outcome[j] = "unsent" => i <= j

\* The entry for this bus is seen: command_waiting.store(true).
CallbackStore(op) ==
  /\ pc # "gone" /\ cb = None
  /\ flag' = TRUE
  /\ \E i \in CommandIds : /\ IsNext(i)
                            /\ cb' = [id |-> i, op |-> op]
                            /\ outcome' = [outcome EXCEPT ![i] = "queued"]
  /\ UNCHANGED <<txq, pc, cmd, quiet, lastSeen, scanVars, cache, infVars, busVars,
                 bookVars, behind, opens>>

\* Mutant: a bounded channel that drops a command when one is already queued.
CallbackSendFull ==
  /\ cb # None
  /\ cb' = None
  /\ txq' = IF txq = <<>> THEN Append(txq, cb) ELSE txq
  /\ UNCHANGED <<outcome, flag, pc, cmd, quiet, lastSeen, scanVars, cache, infVars, busVars,
                 bookVars, behind, opens>>

\* cmd_tx.send: fails once the worker has dropped the receiver.
CallbackSend ==
  /\ cb # None
  /\ cb' = None
  /\ IF Open
     THEN txq' = Append(txq, cb) /\ UNCHANGED outcome
     ELSE outcome' = [outcome EXCEPT ![cb.id] = "lost"] /\ UNCHANGED txq
  /\ UNCHANGED <<flag, pc, cmd, quiet, lastSeen, scanVars, cache, infVars, busVars,
                 bookVars, behind, opens>>

\* No port is subscribed: the entry stays in the tx queue, nobody takes it.
Unheard ==
  /\ pc = "gone"
  /\ \E i \in CommandIds : IsNext(i) /\ outcome' = [outcome EXCEPT ![i] = "lost"]
  /\ UNCHANGED <<chanVars, pc, cmd, quiet, lastSeen, scanVars, cache, infVars, busVars,
                 bookVars, behind, opens>>

-----------------------------------------------------------------------------
(***************************************************************************)
(* Commands: the recv branch of worker_loop's select.                      *)
(***************************************************************************)

Recv ==
  /\ pc = "idle" /\ txq # <<>>
  /\ cmd' = Head(txq) /\ txq' = Tail(txq)
  /\ pc' = "received"
  /\ UNCHANGED <<flag, cb, quiet, lastSeen, scanVars, cache, infVars, busVars,
                 bookVars, behind, outcome, opens>>

\* Mutant: freeze_calibration does not clear the cache.
InvalidatedLess(op) ==
  IF op.kind = "resetCalibration" THEN Motors
  ELSE IF op.kind \in {"reset", "regWrite"} THEN {op.motor} ELSE {}

\* The motors whose cached EEPROM the worker throws away before the command runs.
Invalidated(op) ==
  IF op.kind \in {"resetCalibration", "freezeCalibration"} THEN Motors
  ELSE IF op.kind \in {"reset", "regWrite"} THEN {op.motor} ELSE {}

\* Mutant: command_waiting is not cleared when a command is taken.
AcceptKeepsFlag(sent) ==
  /\ pc = "received"
  /\ quiet' = FALSE
  /\ IF sent
     THEN /\ pc' = "working"
          /\ outcome' = [outcome EXCEPT ![cmd.id] = "received"]
          /\ infCmd' = CommandResult(infMotors, cmd.id, cmd.op, "processing")
          /\ cache' = [m \in Motors |-> IF m \in Invalidated(cmd.op) THEN None ELSE cache[m]]
     ELSE pc' = "closed" /\ UNCHANGED <<outcome, infCmd, cache>>
  /\ UNCHANGED <<flag, txq, cb, cmd, lastSeen, scanVars, infBus, infMotors, infData,
                 busVars, bookVars, behind, opens>>

\* command_waiting.store(false), the Command envelope, the cache invalidation;
\* a failed send ends the worker before the cache is touched.
Accept(sent) ==
  /\ pc = "received"
  /\ flag' = FALSE /\ quiet' = FALSE
  /\ IF sent
     THEN /\ pc' = "working"
          /\ outcome' = [outcome EXCEPT ![cmd.id] = "received"]
          /\ infCmd' = CommandResult(infMotors, cmd.id, cmd.op, "processing")
          /\ cache' = [m \in Motors |-> IF m \in Invalidated(cmd.op) THEN None ELSE cache[m]]
     ELSE pc' = "closed" /\ UNCHANGED <<outcome, infCmd, cache>>
  /\ UNCHANGED <<txq, cb, cmd, lastSeen, scanVars, infBus, infMotors, infData,
                 busVars, bookVars, behind, opens>>

\* The motors on the bus that a request to id m reaches: the broadcast id means all.
Reached(m) == {n \in plugged : m \in {n, Broadcast}}

\* Results of a request that waits for a reply of motor m.  Only a motor that is
\* plugged in can answer; a late or garbled frame ("other": id mismatch, checksum,
\* bad length) and a dead serial device ("io") need no motor.
Replies(m) ==
  {"timeout", "other", "io"} \cup (IF Reached(m) # {} THEN {"ok", "servo"} ELSE {})

\* The images after some motors W of the bus took the values that new gives them.
Burn(W, new) ==
  eeprom' = [m \in Motors |-> IF m \in W THEN new[m] ELSE eeprom[m]]

\* The same on a path on which the worker does not drop its cached copies.
BurnBehindCache(W, new) ==
  Burn(W, new) /\ behind' = behind \cup {m \in W : cache[m] # None}

\* write: the motor may or may not have obeyed a request whose reply was lost.
DoWrite(op, res) ==
  /\ op.kind = "write" /\ res \in Replies(op.motor)
  /\ \E W \in SUBSET Reached(op.motor) : BurnBehindCache(W, [m \in Motors |-> op.val])
  /\ UNCHANGED <<plugged, staged>>

\* write to EepromRegister::ID: the motors it reaches answer to another id from now on;
\* of several that now share it, any one's image is read.
DoWriteId(op, res) ==
  /\ op.kind = "writeId" /\ res \in Replies(op.motor)
  /\ \/ UNCHANGED <<plugged, eeprom, staged, behind>>
     \/ \E W \in SUBSET Reached(op.motor) : \E w \in W :
          /\ plugged' = (plugged \ W) \cup op.ids
          /\ BurnBehindCache(op.ids, [m \in Motors |-> eeprom[w]])
          /\ UNCHANGED staged

DoRegWrite(op, res) ==
  /\ op.kind = "regWrite" /\ res \in Replies(op.motor)
  /\ \E W \in SUBSET Reached(op.motor) :
       staged' = [m \in Motors |-> IF m \in W THEN op.val ELSE staged[m]]
  /\ UNCHANGED <<plugged, eeprom, behind>>

DoAction(op, res) ==
  /\ op.kind = "action" /\ res \in Replies(op.motor)
  /\ \E W \in SUBSET {m \in Reached(op.motor) : staged[m] # None} :
       /\ BurnBehindCache(W, staged)
       /\ staged' = [m \in Motors |-> IF m \in W THEN None ELSE staged[m]]
  /\ UNCHANGED plugged

\* syncWrite is only written, nothing is read back; without motors it is skipped.
DoSyncWrite(op, res) ==
  /\ op.kind = "syncWrite"
  /\ res \in IF op.ids = {} THEN {"ok"} ELSE {"ok", "timeout", "io"}
  /\ \E W \in SUBSET (op.ids \cap plugged) : BurnBehindCache(W, [m \in Motors |-> op.val])
  /\ UNCHANGED <<plugged, staged>>

\* reset: the worker dropped the cached image of the id it names, which for a broadcast
\* is no motor's.
DoReset(op, res) ==
  /\ op.kind = "reset" /\ res \in Replies(op.motor)
  /\ \E W \in SUBSET Reached(op.motor) :
       /\ Burn(W, [m \in Motors |-> Default])
       /\ behind' = behind \cup {m \in W \ {op.motor} : cache[m] # None}
  /\ UNCHANGED <<plugged, staged>>

\* A calibration command that failed half way: every request of its sequences may or
\* may not have reached its motor, so any image and any staged value may be left.
HalfWritten ==
  /\ \E new \in [plugged -> Vals] : Burn(plugged, new)
  /\ \E left \in [plugged -> Vals \cup {None}] :
       staged' = [m \in Motors |-> IF m \in plugged THEN left[m] ELSE staged[m]]

\* reset_calibration on ids 1..MAX_MOTORS_CNT: errors of one motor, an absent one
\* included, are swallowed and turn the command into a rejected one.
DoResetCalibration(op, res) ==
  /\ op.kind = "resetCalibration"
  /\ \/ /\ res = "ok" /\ plugged = Motors
        /\ Burn(Motors, [m \in Motors |-> Default])
        /\ staged' = [m \in Motors |-> None]
     \/ res = "rejected" /\ HalfWritten
  /\ UNCHANGED <<plugged, behind>>

\* freeze_calibration: motors without a midpoint are skipped without an error.
DoFreezeCalibration(op, res) ==
  /\ op.kind = "freezeCalibration"
  /\ \/ /\ res = "ok"
        /\ \E W \in SUBSET plugged :
             /\ Burn(W, [m \in Motors |-> op.val])
             /\ staged' = [m \in Motors |-> IF m \in W THEN None ELSE staged[m]]
     \/ res = "rejected" /\ HalfWritten
  /\ UNCHANGED <<plugged, behind>>

\* auto_calibrate only starts a task; everything else is acknowledged at once.
DoNothing(op, res) ==
  /\ op.kind \in {"autoCalibrate", "other"} /\ res = "ok"
  /\ UNCHANGED <<plugged, eeprom, staged, behind>>

ProcessCommand(op, res) ==
  \/ DoWrite(op, res) \/ DoWriteId(op, res) \/ DoRegWrite(op, res) \/ DoAction(op, res)
  \/ DoSyncWrite(op, res) \/ DoReset(op, res) \/ DoResetCalibration(op, res)
  \/ DoFreezeCalibration(op, res) \/ DoNothing(op, res)

Verdict(res) ==
  IF res = "ok" THEN "success" ELSE IF res = "rejected" THEN "rejected" ELSE "failed"

\* enqueue_error for a failed command: motor_id 0 makes no entry.
ErrorEntries(op, res) ==
  IF Verdict(res) = "failed" /\ infBus THEN {MotorOf(op)} \ {0} ELSE {}

\* The result envelope was sent, after the Error envelope made the entries errs (none if
\* it was refused).  The worker goes on after a servo error and a timeout, and then clears
\* the old id of an id change (the DriveDisconnect may fail, told = FALSE, which is only
\* logged); other errors end it first.
Finish(op, res, errs, told) ==
  LET entries == infMotors \cup errs
      old == IF op.kind = "writeId" /\ res \notin {"io", "other"} THEN {op.motor} ELSE {}
      removed == IF told THEN old ELSE {}
      cmds == CommandResult(entries, cmd.id, op, Verdict(res))
  IN /\ outcome' = [outcome EXCEPT ![cmd.id] = "answered"]
     /\ infMotors' = entries \ removed
     /\ infData' = [m \in Ids |-> IF m \in errs \cup removed THEN None ELSE infData[m]]
     /\ infCmd' = [m \in Ids |-> IF m \in removed THEN None ELSE cmds[m]]
     /\ announced' = announced \ removed /\ orphans' = orphans \ removed
     /\ cache' = [m \in Motors |-> IF m \in old THEN None ELSE cache[m]]
     /\ pc' = IF res \in {"io", "other"} THEN "closed" ELSE "idle"
     /\ cmd' = None

\* The rx queue refused the result envelope: the worker ends, the command stays without a
\* result and last_command as it is.
Unanswered(errs) ==
  /\ pc' = "closed"
  /\ infMotors' = infMotors \cup errs
  /\ infData' = [m \in Ids |-> IF m \in errs THEN None ELSE infData[m]]
  /\ UNCHANGED <<cmd, outcome, infCmd, announced, orphans, cache>>

\* process_command, the Error and result envelopes and what follows them.
Process ==
  /\ pc = "working"
  /\ \E res \in {"ok", "rejected", "servo", "timeout", "other", "io"} :
       /\ ProcessCommand(cmd.op, res)
       /\ \E errs \in SUBSET ErrorEntries(cmd.op, res) :
            \/ \E told \in BOOLEAN : Finish(cmd.op, res, errs, told)
            \/ Unanswered(errs)
  /\ UNCHANGED <<chanVars, quiet, lastSeen, scanVars, infBus, deserted, opens>>

-----------------------------------------------------------------------------
(***************************************************************************)
(* Scanning: the tick branch of worker_loop's select, and scan_motors.     *)
(***************************************************************************)

\* NO_COMMAND_SEARCH_DELAY_MS go by: the worker looks at the clock when it is idle, so it
\* is enough that they have passed there.
TimePasses ==
  /\ pc = "idle" /\ ~quiet /\ quiet' = TRUE
  /\ UNCHANGED <<chanVars, pc, cmd, lastSeen, scanVars, cache, infVars, busVars,
                 bookVars, behind, outcome, opens>>

\* A tick: nothing is done while a command waits.  A search also needs 100 ms since
\* the last one, which is left to chance here.
Tick(search) ==
  /\ pc = "idle" /\ ~flag
  /\ search => quiet
  /\ pc' = "read" /\ searching' = search /\ seen' = {} /\ todo' = lastSeen
  /\ UNCHANGED <<chanVars, cmd, quiet, lastSeen, found, cache, infVars, busVars,
                 bookVars, behind, outcome, opens>>

\* Mutant: an abandoned scan takes over the motors it has seen so far.
AbandonTakesOver ==
  /\ pc' = "idle" /\ searching' = FALSE /\ seen' = {} /\ todo' = {}
  /\ lastSeen' = seen /\ UNCHANGED found

\* The scan is abandoned because a command waits: last_seen_motors is not updated.
Abandon ==
  /\ pc' = "idle" /\ searching' = FALSE /\ seen' = {} /\ todo' = {}
  /\ UNCHANGED <<lastSeen, found>>

ScanInterrupted ==
  /\ pc = "read" /\ todo # {} /\ flag
  /\ Abandon
  /\ UNCHANGED <<chanVars, cmd, quiet, cache, infVars, busVars, bookVars, behind,
                 outcome, opens>>

\* What the DriveState of a motor shows, given what the reply carried.
Combined(m, size) ==
  IF size = "full" THEN eeprom[m] ELSE IF size = "ram" THEN cache[m] ELSE None

\* The read of a motor is answered.  RAM only is requested when the EEPROM is
\* cached; a full reply fills the cache.
ReadOk(m) ==
  /\ pc = "read" /\ m \in todo /\ ~flag /\ m \in plugged
  /\ seen' = seen \cup {m} /\ todo' = todo \ {m}
  /\ LET size == IF cache[m] = None THEN "full" ELSE "ram"
     IN /\ cache' = [cache EXCEPT ![m] = Combined(m, size)]
        /\ behind' = IF size = "full" THEN behind \ {m} ELSE behind
        /\ \/ Show(m, Combined(m, size)) /\ UNCHANGED pc
           \/ pc' = "closed" /\ UNCHANGED <<infMotors, infData>>
  /\ UNCHANGED <<chanVars, cmd, quiet, lastSeen, searching, found, infBus, infCmd, busVars,
                 bookVars, outcome, opens>>

\* The motor reports a servo error: an Error entry with the data of the reply, overwritten
\* by a DriveState with whatever image can be pieced together unless there was no data.
ReadServoError(m) ==
  /\ pc = "read" /\ m \in todo /\ ~flag /\ m \in plugged
  /\ seen' = seen \cup {m} /\ todo' = todo \ {m}
  /\ \E size \in {"full", "ram", "short", "empty"} :
       /\ size = "full" => cache[m] = None
       /\ \/ size # "empty" /\ Show(m, Combined(m, size)) /\ UNCHANGED pc
          \/ size = "empty" /\ ShowError(m) /\ UNCHANGED pc
          \/ /\ size # "empty" /\ pc' = "closed"
             /\ ShowError(m) \/ (size = "full" /\ Show(m, eeprom[m]))
  /\ UNCHANGED <<chanVars, cmd, quiet, lastSeen, searching, found, cache, infBus, infCmd,
                 busVars, bookVars, behind, outcome, opens>>

\* Timeout, garbled frame or I/O error: the motor counts as not seen.
ReadError(m) ==
  /\ pc = "read" /\ m \in todo /\ ~flag
  /\ todo' = todo \ {m}
  /\ ShowError(m)
  /\ UNCHANGED <<chanVars, pc, cmd, quiet, lastSeen, searching, seen, found, cache, infBus,
                 infCmd, busVars, bookVars, behind, outcome, opens>>

ReadsDone ==
  /\ pc = "read" /\ todo = {}
  /\ pc' = "drop" /\ todo' = lastSeen \ seen
  /\ UNCHANGED <<chanVars, cmd, quiet, lastSeen, searching, seen, found, cache, infVars,
                 busVars, bookVars, behind, outcome, opens>>

\* Mutant: a lost motor only loses its cache entry, no DriveDisconnect is sent.
DropSilently(m) ==
  /\ pc = "drop" /\ m \in todo
  /\ todo' = todo \ {m}
  /\ cache' = [cache EXCEPT ![m] = None]
  /\ UNCHANGED <<chanVars, pc, cmd, quiet, lastSeen, searching, seen, found, infVars, busVars,
                 bookVars, behind, outcome, opens>>

\* The cache entry goes first, then the DriveDisconnect, which may fail.
Drop(m) ==
  /\ pc = "drop" /\ m \in todo
  /\ todo' = todo \ {m}
  /\ cache' = [cache EXCEPT ![m] = None]
  /\ \/ Forget({m}) /\ announced' = announced \ {m} /\ UNCHANGED pc
     \/ pc' = "closed" /\ UNCHANGED <<infMotors, infData, infCmd, announced>>
  /\ UNCHANGED <<chanVars, cmd, quiet, lastSeen, searching, seen, found, infBus, busVars,
                 orphans, deserted, behind, outcome, opens>>

\* Mutants: the search pings motors that were just read; the search starts at id 0.
SearchAll ==
  /\ pc = "drop" /\ todo = {} /\ searching
  /\ pc' = "search" /\ todo' = Motors /\ found' = {}
  /\ UNCHANGED <<chanVars, cmd, quiet, lastSeen, searching, seen, cache, infVars, busVars,
                 bookVars, behind, outcome, opens>>
SearchFromZero ==
  /\ pc = "drop" /\ todo = {} /\ searching
  /\ pc' = "search" /\ todo' = (0..MaxMotors) \ seen /\ found' = {}
  /\ UNCHANGED <<chanVars, cmd, quiet, lastSeen, searching, seen, cache, infVars, busVars,
                 bookVars, behind, outcome, opens>>

\* After the disconnects: a scan without a search is over; a search is skipped,
\* and last_seen_motors left as it was, when a command waits.
DropsDone ==
  /\ pc = "drop" /\ todo = {}
  /\ \/ /\ ~searching
        /\ lastSeen' = seen
        /\ pc' = "idle" /\ seen' = {} /\ UNCHANGED <<searching, todo, found>>
     \/ searching /\ flag /\ Abandon
     \/ /\ searching /\ ~flag
        /\ pc' = "search" /\ todo' = Motors \ seen /\ found' = {}
        /\ UNCHANGED <<lastSeen, searching, seen>>
  /\ UNCHANGED <<chanVars, cmd, quiet, cache, infVars, busVars, bookVars, behind,
                 outcome, opens>>

Lowest(m, S) == m \in S /\ \A n \in S : m <= n

\* search_motors_ignoring pings the next id; an unexpected frame makes an entry for
\* an id that nobody answered from, and an I/O error ends the worker.
Ping(m, res) ==
  /\ pc = "search" /\ ~flag /\ Lowest(m, todo)
  /\ res \in Replies(m)
  /\ todo' = todo \ {m}
  /\ found' = IF res \in {"ok", "servo"} THEN found \cup {m} ELSE found
  /\ IF res \in {"servo", "other"} THEN ShowError(m) ELSE UNCHANGED <<infMotors, infData>>
  /\ pc' = IF res = "io" THEN "closed" ELSE pc
  /\ UNCHANGED <<chanVars, cmd, quiet, lastSeen, searching, seen, cache, infBus, infCmd, busVars,
                 bookVars, behind, outcome, opens>>

SearchDone ==
  /\ pc = "search" /\ (flag \/ todo = {})
  /\ pc' = "announce" /\ todo' = found
  /\ UNCHANGED <<chanVars, cmd, quiet, lastSeen, searching, seen, found, cache, infVars,
                 busVars, bookVars, behind, outcome, opens>>

\* DriveConnect for a motor that the search found.
Announce(m) ==
  /\ pc = "announce" /\ ~flag /\ Lowest(m, todo)
  /\ todo' = todo \ {m} /\ seen' = seen \cup {m}
  /\ \/ announced' = announced \cup {m} /\ orphans' = orphans \ {m} /\ UNCHANGED pc
     \/ pc' = "closed" /\ UNCHANGED <<announced, orphans>>
  /\ UNCHANGED <<chanVars, cmd, quiet, lastSeen, searching, found, cache, infVars, busVars,
                 deserted, behind, outcome, opens>>

ScanDone ==
  /\ pc = "announce" /\ (flag \/ todo = {})
  /\ lastSeen' = seen
  /\ pc' = "idle" /\ searching' = FALSE /\ seen' = {} /\ todo' = {} /\ found' = {}
  /\ UNCHANGED <<chanVars, cmd, quiet, cache, infVars, busVars, bookVars, behind,
                 outcome, opens>>

-----------------------------------------------------------------------------
(***************************************************************************)
(* The end of the worker, and the driver that opens the port again.        *)
(***************************************************************************)

\* The BusDisconnect: remove_bus drops the bus with its entries; one that was refused is
\* only logged, and everything the worker has told stays on the books.
EndsWith(told) ==
  IF told
  THEN /\ infBus' = FALSE /\ Forget(Ids)
       /\ announced' = {} /\ orphans' = {} /\ deserted' = {}
  ELSE /\ orphans' = announced \cup {m \in Ids : infData[m] # None}
       /\ deserted' = deserted \cup {q.id : q \in {cmd} \ {None}}
       /\ UNCHANGED <<infVars, announced>>

\* open() returns: unsubscribed, the channel is dropped with what it held, and so are the
\* cache and last_seen_motors with the worker and the old St3215Port; a callback still
\* running finds no receiver, and the flag it sets dies with them.
Teardown(told) ==
  /\ pc = "closed"
  /\ pc' = "gone" /\ cmd' = None /\ txq' = <<>> /\ cb' = None /\ flag' = FALSE /\ quiet' = FALSE
  /\ lastSeen' = {} /\ searching' = FALSE /\ seen' = {} /\ todo' = {} /\ found' = {}
  /\ cache' = [m \in Motors |-> None] /\ behind' = {}
  /\ EndsWith(told)
  /\ outcome' = [i \in CommandIds |-> IF outcome[i] = "queued" THEN "lost" ELSE outcome[i]]
  /\ UNCHANGED <<busVars, opens>>

\* add_bus: the BusConnect enters the bus; one that is still there keeps its entries.
AddBus(told) ==
  infBus' = (infBus \/ told)

\* scan_and_update_ports finds the device: a new St3215Port, the BusConnect, which may be
\* refused, and open().  When the serial device cannot be opened, or not be subscribed
\* for, no BusDisconnect follows.
Connect(told, opened) ==
  /\ pc = "gone" /\ opens < MaxOpens
  /\ opens' = opens + 1
  /\ AddBus(told)
  /\ pc' = IF opened THEN "idle" ELSE pc
  /\ UNCHANGED <<chanVars, cmd, quiet, lastSeen, scanVars, cache, infMotors, infData, infCmd,
                 busVars, bookVars, behind, outcome>>

\* The environment: a motor loses power, or a motor (perhaps another one with the
\* same id) is plugged in.
Unplug(m) ==
  /\ m \in plugged /\ plugged' = plugged \ {m}
  /\ staged' = [staged EXCEPT ![m] = None]
  /\ UNCHANGED <<chanVars, pc, cmd, quiet, lastSeen, scanVars, cache, infVars, eeprom,
                 bookVars, behind, outcome, opens>>

Plug(m, v) ==
  /\ m \notin plugged /\ plugged' = plugged \cup {m}
  /\ BurnBehindCache({m}, [n \in Motors |-> v])
  /\ UNCHANGED <<chanVars, pc, cmd, quiet, lastSeen, scanVars, cache, infVars, staged,
                 bookVars, outcome, opens>>

ScanStep ==
  \/ ScanInterrupted \/ ReadsDone \/ DropsDone \/ SearchDone \/ ScanDone
  \/ \E m \in Motors : ReadOk(m) \/ ReadServoError(m) \/ ReadError(m) \/ Drop(m) \/ Announce(m)
  \/ \E m \in Motors, res \in {"ok", "servo", "timeout", "other", "io"} : Ping(m, res)

Next ==
  \/ \E op \in Commands : CallbackStore(op)
  \/ CallbackSend \/ Unheard
  \/ Recv \/ \E sent \in BOOLEAN : Accept(sent)
  \/ Process
  \/ TimePasses \/ \E search \in BOOLEAN : Tick(search)
  \/ ScanStep
  \/ \E told \in BOOLEAN : Teardown(told) \/ \E opened \in BOOLEAN : Connect(told, opened)
  \/ \E m \in Motors : Unplug(m) \/ \E v \in Vals : Plug(m, v)

Spec == Init /\ [][Next]_vars
-----------------------------------------------------------------------------
(***************************************************************************)
(* Properties.                                                             *)
(***************************************************************************)

\* Type invariant: the shape of the worker's, the bus's and InferenceState's variables.
TypeOK ==
  /\ flag \in BOOLEAN /\ txq \in Seq(Queued) /\ cb \in Queued \cup {None}
  /\ pc \in {"idle", "received", "working", "read", "drop", "search", "announce", "closed", "gone"}
  /\ cmd \in Queued \cup {None} /\ quiet \in BOOLEAN
  /\ lastSeen \subseteq Motors /\ searching \in BOOLEAN
  /\ seen \subseteq Motors /\ todo \subseteq Motors /\ found \subseteq Motors
  /\ cache \in [Motors -> Vals \cup {None}]
  /\ infBus \in BOOLEAN /\ infMotors \subseteq Ids /\ infData \in [Ids -> Vals \cup {None}]
  /\ infCmd \in [Ids -> [id : CommandIds, res : Finals \cup {"processing"}] \cup {None}]
  /\ plugged \subseteq Motors /\ eeprom \in [Motors -> Vals]
  /\ staged \in [Motors -> Vals \cup {None}]
  /\ announced \subseteq Motors /\ orphans \subseteq Ids /\ deserted \subseteq CommandIds
  /\ behind \subseteq Motors
  /\ outcome \in [CommandIds -> {"unsent", "queued", "received", "answered", "lost"}]
  /\ opens \in 0..MaxOpens
  /\ pc \in {"received", "working"} => cmd \in Queued

\* While the worker lives, command_waiting is only true when a command is in the
\* channel, about to enter it, or in the worker's hands: the flag that suspends every
\* scan (should_break_read) can never be left set with nothing to clear it.
FlagBacked ==
  Open /\ flag => txq # <<>> \/ cb # None \/ pc = "received"

\* The motors that the worker itself would still disconnect when they fall silent.
Tracked ==
  IF pc = "drop" THEN seen \cup todo
  ELSE IF pc \in {"search", "announce"} THEN seen ELSE lastSeen

\* No motor is left behind by an interrupted scan: one that the rx queue announced as
\* connected, that InferenceState shows with register data, or whose EEPROM is cached,
\* is one whose silence the worker will notice (last_seen_motors).  The one exception is
\* what a former worker told before its BusDisconnect was refused: it stays until this
\* worker finds the motor itself, and from then on counts like any other.
NothingForgotten ==
  Open => /\ {m \in Motors : cache[m] # None} \subseteq Tracked
          /\ (announced \cup {m \in Ids : infData[m] # None}) \ orphans \subseteq Tracked
          /\ orphans \cap Tracked = {}

\* scan_motors announces a motor that consumers of the rx queue already count as connected
\* only to take it over from a worker whose BusDisconnect was refused, and then only once:
\* otherwise there is a DriveDisconnect between two DriveConnects of a motor.
NoSecondConnect ==
  pc = "announce" => todo \cap announced \subseteq orphans

\* The cached EEPROM of a motor is the motor's own, unless it changed, since it was last
\* read in full, on one of the paths of worker_loop that keep the cache: Write, SyncWrite,
\* Action, anything sent to the broadcast id, a motor swapped between two scans.  So no
\* interleaving of scans with resets, RegWrites and calibrations brings back an image they
\* invalidated, and each of them ends a staleness that one of those paths began.
CacheCoherent ==
  \A m \in Motors : cache[m] # None /\ m \notin behind => cache[m] = eeprom[m]

\* A motor's last_command says "processing" only while the rx queue has no result of that
\* command, and only while the worker executes exactly that command, or after a worker
\* died over it and its BusDisconnect was refused as well: no other error path, id change
\* or rejected command leaves it standing.
NoStuckProcessing ==
  Open => \A m \in Ids : infCmd[m] # None /\ infCmd[m].res = "processing"
            => /\ outcome[infCmd[m].id] = "received"
               /\ \/ pc = "working" /\ infCmd[m].id = cmd.id
                  \/ infCmd[m].id \in deserted

-----------------------------------------------------------------------------
(***************************************************************************)
(* Fairness: the callback and the worker's task are scheduled; select!     *)
(* picks a ready branch at random, so a command that is ready again and    *)
(* again is taken (SF), and ticks keep coming; a bus that loses frames     *)
(* does not lose every one of them.                                        *)
(***************************************************************************)
FairSpec ==
  /\ Spec
  /\ WF_vars(CallbackSend) /\ SF_vars(Recv) /\ WF_vars(\E sent \in BOOLEAN : Accept(sent))
  /\ WF_vars(Process) /\ SF_vars(TimePasses) /\ WF_vars(ScanStep) /\ SF_vars(Tick(TRUE))
  /\ \A m \in Motors : SF_vars(Ping(m, "ok")) /\ SF_vars(ReadOk(m))

\* Every command that reached the callback gets a result envelope, unless the worker ends.
CommandAnswered ==
  \A i \in CommandIds : outcome[i] = "queued" ~> outcome[i] = "answered" \/ ~Open

\* A motor that stays on a bus InferenceState knows of is shown with its data again and
\* again: neither the command flag nor interrupted scans starve the scanning of
\* last_seen_motors for good.
PresentMotorShown ==
  \A m \in Motors : <>[](Open /\ infBus /\ m \in plugged) => []<>(infData[m] # None)

\* A motor that is gone for good ends up in no one's books, unless a former worker left
\* it there.
AbsentMotorForgotten ==
  \A m \in Motors : <>[](Open /\ m \notin plugged \cup orphans)
                      => <>[](m \notin lastSeen \cup announced /\ infData[m] = None)

\* Scanning follows the bus for good: motors that stay are shown, motors that are gone are
\* forgotten, although every command cuts a scan short.
MotorsTracked == PresentMotorShown /\ AbsentMotorForgotten
=============================================================================
