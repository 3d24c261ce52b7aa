-------------------------- MODULE St3215PortProofs --------------------------
(***************************************************************************)
(* Proofs about St3215Port, for every number of motors, every set of       *)
(* EEPROM images and every set of commands.                                *)
(***************************************************************************)
EXTENDS St3215Port, TLAPS

\* The constants as the steps below need them.
LEMMA Constants ==
  /\ None \notin Vals /\ Default \in Vals
  /\ Motors \subseteq Ids /\ Broadcast \in Ids
  /\ \A c \in Commands : c.motor \in Ids /\ c.val \in Vals /\ c.ids \subseteq Motors
  /\ \A c \in Commands : Recipients(c) \subseteq Ids /\ MotorOf(c) \in Ids \cup {0}
BY PortAssumption DEF Ids, Command, Recipients, MotorOf, Motors, Broadcast

\* The results an entry of InferenceState may be given have the type of infCmd.
LEMMA CommandResultType ==
  ASSUME TypeOK, NEW entries, NEW i \in CommandIds, NEW op \in Commands,
         NEW res \in Finals \cup {"processing"}
  PROVE  CommandResult(entries, i, op, res)
           \in [Ids -> [id : CommandIds, res : Finals \cup {"processing"}] \cup {None}]
BY DEF TypeOK, CommandResult

\* TypeOK is preserved by the callback's and the driver's steps.
LEMMA TypeCallback ==
  ASSUME TypeOK,
         (\E op \in Commands : CallbackStore(op)) \/ CallbackSend \/ Unheard \/ Recv
  PROVE  TypeOK'
<1>1. ASSUME NEW op \in Commands, CallbackStore(op) PROVE TypeOK'
  <2>1. cb' \in Queued
    BY <1>1 DEF CallbackStore, Queued
  <2>2. outcome' \in [CommandIds -> {"unsent", "queued", "received", "answered", "lost"}]
    BY <1>1 DEF CallbackStore, TypeOK
  <2>3. QED
    BY <1>1, <2>1, <2>2 DEF CallbackStore, TypeOK, scanVars, infVars, busVars, bookVars
<1>2. CASE CallbackSend
  <2>1. cb \in Queued /\ cb.id \in CommandIds
    BY <1>2 DEF CallbackSend, TypeOK, Queued
  <2>2. Append(txq, cb) \in Seq(Queued)
    BY <2>1 DEF TypeOK
  <2>3. txq' \in Seq(Queued)
    BY <1>2, <2>2 DEF CallbackSend, TypeOK
  <2>4. outcome' \in [CommandIds -> {"unsent", "queued", "received", "answered", "lost"}]
    BY <1>2, <2>1 DEF CallbackSend, TypeOK
  <2>5. QED
    BY <1>2, <2>3, <2>4 DEF CallbackSend, TypeOK, scanVars, infVars, busVars, bookVars
<1>3. CASE Unheard
  <2>1. outcome' \in [CommandIds -> {"unsent", "queued", "received", "answered", "lost"}]
    BY <1>3 DEF Unheard, TypeOK
  <2>2. QED
    BY <1>3, <2>1 DEF Unheard, TypeOK, chanVars, scanVars, infVars, busVars, bookVars
<1>4. CASE Recv
  <2>1. Head(txq) \in Queued /\ Tail(txq) \in Seq(Queued)
    BY <1>4 DEF Recv, TypeOK
  <2>3. QED
    BY <1>4, <2>1 DEF Recv, TypeOK, scanVars, infVars, busVars, bookVars
<1>5. QED
  BY <1>1, <1>2, <1>3, <1>4

\* What the results of process_command have in common, whatever the command.
LEMMA ProcessCommandType ==
  ASSUME TypeOK, NEW op \in Commands, NEW res, ProcessCommand(op, res)
  PROVE  /\ plugged' \subseteq Motors /\ eeprom' \in [Motors -> Vals]
         /\ staged' \in [Motors -> Vals \cup {None}] /\ behind' \subseteq Motors
<1> USE Constants DEF TypeOK, Burn, BurnBehindCache, Reached
<1>1. CASE DoWrite(op, res)
  BY <1>1 DEF DoWrite
<1>2. CASE DoWriteId(op, res)
  BY <1>2 DEF DoWriteId
<1>3. CASE DoRegWrite(op, res)
  BY <1>3 DEF DoRegWrite
<1>4. CASE DoAction(op, res)
  BY <1>4 DEF DoAction
<1>5. CASE DoSyncWrite(op, res)
  BY <1>5 DEF DoSyncWrite
<1>6. CASE DoReset(op, res)
  BY <1>6 DEF DoReset
<1>7. CASE DoResetCalibration(op, res)
  BY <1>7 DEF DoResetCalibration, HalfWritten
<1>8. CASE DoFreezeCalibration(op, res)
  BY <1>8 DEF DoFreezeCalibration, HalfWritten
<1>9. CASE DoNothing(op, res)
  BY <1>9 DEF DoNothing
<1>10. QED
  BY <1>1, <1>2, <1>3, <1>4, <1>5, <1>6, <1>7, <1>8, <1>9 DEF ProcessCommand

\* TypeOK is preserved when a command is accepted and executed.
LEMMA TypeCommand ==
  ASSUME TypeOK, (\E sent \in BOOLEAN : Accept(sent)) \/ Process
  PROVE  TypeOK'
<1>1. ASSUME NEW sent \in BOOLEAN, Accept(sent) PROVE TypeOK'
  <2>1. cmd \in Queued /\ cmd.id \in CommandIds /\ cmd.op \in Commands
    BY <1>1 DEF Accept, TypeOK, Queued
  <2>2. CommandResult(infMotors, cmd.id, cmd.op, "processing")
          \in [Ids -> [id : CommandIds, res : Finals \cup {"processing"}] \cup {None}]
    BY <2>1, CommandResultType
  <2>3. QED
    BY <1>1, <2>1, <2>2 DEF Accept, TypeOK, scanVars, busVars, bookVars
<1>2. CASE Process
  <2>1. cmd \in Queued /\ cmd.id \in CommandIds /\ cmd.op \in Commands
    BY <1>2 DEF Process, TypeOK, Queued
  <2>2. PICK res \in {"ok", "rejected", "servo", "timeout", "other", "io"} :
          /\ ProcessCommand(cmd.op, res)
          /\ \E errs \in SUBSET ErrorEntries(cmd.op, res) :
               \/ \E told \in BOOLEAN : Finish(cmd.op, res, errs, told)
               \/ Unanswered(errs)
    BY <1>2 DEF Process
  <2>3. /\ plugged' \subseteq Motors /\ eeprom' \in [Motors -> Vals]
        /\ staged' \in [Motors -> Vals \cup {None}] /\ behind' \subseteq Motors
    BY <2>1, <2>2, ProcessCommandType
  <2>4. UNCHANGED <<chanVars, quiet, lastSeen, scanVars, infBus, deserted, opens>>
    BY <1>2 DEF Process
  <2>5. ErrorEntries(cmd.op, res) \subseteq Ids
    BY <2>1, Constants DEF ErrorEntries
  <2>6. ASSUME NEW errs \in SUBSET ErrorEntries(cmd.op, res), NEW told \in BOOLEAN,
               Finish(cmd.op, res, errs, told)
        PROVE  TypeOK'
    <3>1. Verdict(res) \in Finals
      BY DEF Verdict, Finals
    <3>2. \A entries : CommandResult(entries, cmd.id, cmd.op, Verdict(res))
            \in [Ids -> [id : CommandIds, res : Finals \cup {"processing"}] \cup {None}]
      BY <2>1, <3>1, CommandResultType
    <3>4. infCmd' \in [Ids -> [id : CommandIds, res : Finals \cup {"processing"}] \cup {None}]
      BY <2>6, <3>2 DEF Finish
    <3>5. infMotors' \subseteq Ids /\ infData' \in [Ids -> Vals \cup {None}]
      BY <2>5, <2>6 DEF Finish, TypeOK
    <3>6. /\ outcome' \in [CommandIds -> {"unsent", "queued", "received", "answered", "lost"}]
          /\ announced' \subseteq Motors /\ cache' \in [Motors -> Vals \cup {None}]
          /\ orphans' \subseteq Ids /\ pc' \in {"idle", "closed"} /\ cmd' = None
      BY <2>1, <2>6 DEF Finish, TypeOK
    <3>7. QED
      BY <2>3, <2>4, <3>4, <3>5, <3>6 DEF TypeOK, chanVars, scanVars
  <2>7. ASSUME NEW errs \in SUBSET ErrorEntries(cmd.op, res), Unanswered(errs) PROVE TypeOK'
    <3>1. infMotors' \subseteq Ids /\ infData' \in [Ids -> Vals \cup {None}]
      BY <2>5, <2>7 DEF Unanswered, TypeOK
    <3>2. QED
      BY <2>3, <2>4, <2>7, <3>1 DEF Unanswered, TypeOK, chanVars, scanVars
  <2>8. QED
    BY <2>2, <2>6, <2>7
<1>3. QED
  BY <1>1, <1>2

\* TypeOK is preserved by every step of a scan.
LEMMA TypeScan ==
  ASSUME TypeOK, ScanStep \/ TimePasses \/ (\E search \in BOOLEAN : Tick(search))
  PROVE  TypeOK'
<1> USE DEF TypeOK, chanVars, infVars, busVars, scanVars, bookVars
<1>1. CASE ScanInterrupted
  BY <1>1 DEF ScanInterrupted, Abandon
<1>2. CASE ReadsDone
  BY <1>2 DEF ReadsDone
<1>3. CASE DropsDone
  BY <1>3 DEF DropsDone, Abandon
<1>4. CASE SearchDone
  BY <1>4 DEF SearchDone
<1>5. CASE ScanDone
  BY <1>5 DEF ScanDone
<1>6. ASSUME NEW m \in Motors, ReadOk(m) PROVE TypeOK'
  BY <1>6, Constants DEF ReadOk, Show, Combined
<1>7. ASSUME NEW m \in Motors, ReadServoError(m) PROVE TypeOK'
  BY <1>7, Constants DEF ReadServoError, Show, ShowError, Combined
<1>8. ASSUME NEW m \in Motors, ReadError(m) PROVE TypeOK'
  BY <1>8, Constants DEF ReadError, Show, ShowError
<1>9. ASSUME NEW m \in Motors, Drop(m) PROVE TypeOK'
  BY <1>9 DEF Drop, Forget
<1>10. ASSUME NEW m \in Motors, Announce(m) PROVE TypeOK'
  BY <1>10 DEF Announce
<1>11. ASSUME NEW m \in Motors, NEW res, Ping(m, res) PROVE TypeOK'
  BY <1>11, Constants DEF Ping, Show, ShowError
<1>12. CASE TimePasses
  BY <1>12 DEF TimePasses
<1>13. ASSUME NEW search \in BOOLEAN, Tick(search) PROVE TypeOK'
  BY <1>13 DEF Tick
<1>14. QED
  BY <1>1, <1>2, <1>3, <1>4, <1>5, <1>6, <1>7, <1>8, <1>9, <1>10, <1>11, <1>12, <1>13
     DEF ScanStep

\* The port worker's variables keep their types in every behaviour (TypeOK).
THEOREM TypeCorrect == Spec => []TypeOK
<1>1. Init => TypeOK
  <2> SUFFICES ASSUME Init PROVE TypeOK
    OBVIOUS
  <2>1. txq \in Seq(Queued) /\ opens \in 0..MaxOpens
    BY PortAssumption DEF Init
  <2>2. infMotors \subseteq Ids /\ infData \in [Ids -> Vals \cup {None}]
    BY DEF Init
  <2>3. infCmd \in [Ids -> [id : CommandIds, res : Finals \cup {"processing"}] \cup {None}]
    BY DEF Init
  <2>4. QED
    BY <2>1, <2>2, <2>3 DEF Init, TypeOK
<1>2. TypeOK /\ [Next]_vars => TypeOK'
  <2> SUFFICES ASSUME TypeOK, [Next]_vars PROVE TypeOK'
    OBVIOUS
  <2>1. ASSUME NEW told \in BOOLEAN, Teardown(told) PROVE TypeOK'
    <3>1. txq' \in Seq(Queued) /\ cb' = None
      BY <2>1 DEF Teardown
    <3>2. outcome' \in [CommandIds -> {"unsent", "queued", "received", "answered", "lost"}]
      BY <2>1 DEF Teardown, TypeOK
    <3>3. infBus' \in BOOLEAN /\ infMotors' \subseteq Ids /\ infData' \in [Ids -> Vals \cup {None}]
      BY <2>1 DEF Teardown, EndsWith, Forget, TypeOK, infVars
    <3>4. infCmd' \in [Ids -> [id : CommandIds, res : Finals \cup {"processing"}] \cup {None}]
      BY <2>1 DEF Teardown, EndsWith, Forget, TypeOK, infVars
    <3>5. announced' \subseteq Motors /\ orphans' \subseteq Ids /\ deserted' \subseteq CommandIds
      <4>1. {q.id : q \in {cmd} \ {None}} \subseteq CommandIds
        BY DEF TypeOK, Queued
      <4>2. QED
        BY <2>1, <4>1, Constants DEF Teardown, EndsWith, TypeOK
    <3>6. QED
      BY <2>1, <3>1, <3>2, <3>3, <3>4, <3>5 DEF Teardown, TypeOK, busVars
  <2>2. ASSUME NEW told \in BOOLEAN, NEW opened \in BOOLEAN, Connect(told, opened) PROVE TypeOK'
    BY <2>2, PortAssumption DEF Connect, AddBus, TypeOK, chanVars, scanVars, busVars, bookVars
  <2>3. ASSUME NEW m \in Motors, Unplug(m) PROVE TypeOK'
    BY <2>3 DEF Unplug, TypeOK, chanVars, scanVars, infVars, bookVars
  <2>4. ASSUME NEW m \in Motors, NEW v \in Vals, Plug(m, v) PROVE TypeOK'
    BY <2>4 DEF Plug, BurnBehindCache, Burn, TypeOK, chanVars, scanVars, infVars, bookVars
  <2>5. CASE UNCHANGED vars
    BY <2>5 DEF vars, TypeOK, chanVars, scanVars, infVars, busVars, bookVars
  <2>6. QED
    BY <2>1, <2>2, <2>3, <2>4, <2>5, TypeCallback, TypeCommand, TypeScan DEF Next
<1>3. QED
  BY <1>1, <1>2, PTL DEF Spec

-----------------------------------------------------------------------------
\* Scanning, executing a command and the bus itself never touch the flag, the channel
\* or the callback, and start in another place than just behind recv.
LEMMA ChannelUntouched ==
  ASSUME \/ ScanStep \/ TimePasses \/ (\E search \in BOOLEAN : Tick(search)) \/ Process
         \/ \E m \in Motors : Unplug(m) \/ \E v \in Vals : Plug(m, v)
  PROVE  UNCHANGED chanVars /\ (pc' = pc \/ pc # "received") /\ (Open' => Open) /\ (pc' = "gone" => pc = "gone")
<1>1. CASE ScanStep
  BY <1>1 DEF ScanStep, ScanInterrupted, Abandon, ReadsDone, DropsDone, SearchDone, ScanDone, ReadOk,
              ReadServoError, ReadError, Drop, Announce, Ping, Open
<1>2. CASE TimePasses \/ (\E search \in BOOLEAN : Tick(search)) \/ Process
  BY <1>2 DEF TimePasses, Tick, Process, Finish, Unanswered, Open
<1>3. CASE \E m \in Motors : Unplug(m) \/ \E v \in Vals : Plug(m, v)
  BY <1>3 DEF Unplug, Plug, Open
<1>4. QED
  BY <1>1, <1>2, <1>3

\* FlagBacked, and what makes it inductive: a port that is not open has a clear flag.
FlagInv == FlagBacked /\ (pc = "gone" => ~flag)

\* command_waiting is never left set without a command to clear it (FlagBacked): the
\* callback stores before it sends, and the worker clears after it has received.
THEOREM FlagBackedAlways == Spec => []FlagBacked
<1>1. Init => FlagInv
  BY DEF Init, FlagInv, FlagBacked
<1>2. TypeOK /\ FlagInv /\ [Next]_vars => FlagInv'
  <2> SUFFICES ASSUME TypeOK, FlagInv, [Next]_vars PROVE FlagInv'
    OBVIOUS
  <2>1. ASSUME NEW op \in Commands, CallbackStore(op) PROVE FlagInv'
    <3>1. cb' \in Queued
      BY <2>1 DEF CallbackStore, Queued
    <3>2. QED
      BY <2>1, <3>1, PortAssumption DEF CallbackStore, FlagInv, FlagBacked
  <2>2. CASE CallbackSend
    <3>1. cb \in Queued
      BY <2>2 DEF CallbackSend, TypeOK
    <3>2. Append(txq, cb) # <<>>
      BY <3>1 DEF TypeOK
    <3>3. QED
      BY <2>2, <3>2 DEF CallbackSend, FlagInv, FlagBacked, Open
  <2>3. CASE Recv
    BY <2>3 DEF Recv, FlagInv, FlagBacked
  <2>4. ASSUME NEW sent \in BOOLEAN, Accept(sent) PROVE FlagInv'
    BY <2>4 DEF Accept, FlagInv, FlagBacked
  <2>5. CASE \/ Unheard
             \/ \E told \in BOOLEAN : Teardown(told) \/ \E opened \in BOOLEAN : Connect(told, opened)
    BY <2>5 DEF Unheard, Teardown, Connect, FlagInv, FlagBacked, Open, chanVars
  <2>6. CASE \/ ScanStep \/ TimePasses \/ (\E search \in BOOLEAN : Tick(search)) \/ Process
             \/ \E m \in Motors : Unplug(m) \/ \E v \in Vals : Plug(m, v)
    BY <2>6, ChannelUntouched DEF FlagInv, FlagBacked, chanVars, Open
  <2>7. CASE UNCHANGED vars
    BY <2>7 DEF vars, chanVars, FlagInv, FlagBacked, Open
  <2>8. QED
    BY <2>1, <2>2, <2>3, <2>4, <2>5, <2>6, <2>7 DEF Next
<1>3. FlagInv => FlagBacked
  BY DEF FlagInv
<1>4. QED
  BY <1>1, <1>2, <1>3, TypeCorrect, PTL DEF Spec

-----------------------------------------------------------------------------
\* The ids that consumers of the rx queue count as connected or see with an image.
Books == announced \cup {m \in Ids : infData[m] # None}

\* What this worker has told, and what it holds on to.
Live == (Books \ orphans) \cup {m \in Motors : cache[m] # None}

\* NothingForgotten and NoSecondConnect, and what makes them inductive: which motors the
\* loops of scan_motors have still to visit, relative to those they have seen.
ScanInv ==
  /\ Open => Live \subseteq Tracked /\ orphans \cap (Tracked \cup lastSeen) = {}
  /\ pc \in {"read", "drop", "search"} => seen \subseteq lastSeen
  /\ pc \in {"read", "drop"} => todo \subseteq lastSeen
  /\ pc \in {"search", "announce"} => todo \cap seen = {}
  /\ pc = "search" => found \cap seen = {}
  /\ pc = "gone" => Live = {} /\ lastSeen = {}

\* A step that changes neither the scan nor what is tracked, and adds nothing to what the
\* worker holds on to, preserves ScanInv.
LEMMA ScanInvFrame ==
  ASSUME ScanInv, Live' \subseteq Live, orphans' \subseteq orphans, UNCHANGED <<lastSeen, scanVars>>,
         \/ pc' = pc
         \/ pc' = "closed"
         \/ /\ pc \in {"idle", "received", "working", "gone"}
            /\ pc' \in {"idle", "received", "working"}
  PROVE  ScanInv'
BY DEF ScanInv, Tracked, Open, scanVars

\* Executing a command only takes entries, cached images and announcements away.
LEMMA ProcessLive ==
  ASSUME TypeOK, Process
  PROVE  /\ Live' \subseteq Live /\ orphans' \subseteq orphans
         /\ UNCHANGED <<lastSeen, scanVars>>
         /\ pc = "working" /\ pc' \in {"idle", "closed"}
<1>1. PICK res \in {"ok", "rejected", "servo", "timeout", "other", "io"} :
        \E errs \in SUBSET ErrorEntries(cmd.op, res) :
          \/ \E told \in BOOLEAN : Finish(cmd.op, res, errs, told)
          \/ Unanswered(errs)
  BY DEF Process
<1>2. ASSUME NEW errs, NEW told \in BOOLEAN, Finish(cmd.op, res, errs, told)
      PROVE  Live' \subseteq Live /\ orphans' \subseteq orphans /\ pc' \in {"idle", "closed"}
  <2> DEFINE removed == IF told /\ cmd.op.kind = "writeId" /\ res \notin {"io", "other"}
                        THEN {cmd.op.motor} ELSE {}
  <2>1. announced' = announced \ removed /\ orphans' = orphans \ removed
    BY <1>2 DEF Finish
  <2>2. \A m \in Ids : infData'[m] # None => infData[m] # None /\ m \notin removed
    BY <1>2 DEF Finish
  <2>3. \A m \in Motors : cache'[m] # None => cache[m] # None
    BY <1>2 DEF Finish
  <2>4. pc' \in {"idle", "closed"}
    BY <1>2 DEF Finish
  <2>5. QED
    BY <2>1, <2>2, <2>3, <2>4 DEF Live, Books
<1>3. ASSUME NEW errs, Unanswered(errs)
      PROVE  Live' \subseteq Live /\ orphans' \subseteq orphans /\ pc' \in {"idle", "closed"}
  <2>1. \A m \in Ids : infData'[m] # None => infData[m] # None
    BY <1>3 DEF Unanswered
  <2>2. QED
    BY <1>3, <2>1 DEF Unanswered, Live, Books
<1>4. QED
  BY <1>1, <1>2, <1>3 DEF Process

\* Every step of a scan preserves ScanInv.
LEMMA ScanInvScan ==
  ASSUME TypeOK, ScanInv, ScanStep
  PROVE  ScanInv'
<1>1. CASE ScanInterrupted
  BY <1>1 DEF ScanInterrupted, Abandon, ScanInv, Tracked, Open, Live, Books, infVars, bookVars
<1>2. CASE ReadsDone
  BY <1>2 DEF ReadsDone, ScanInv, Tracked, Open, Live, Books, infVars, bookVars
<1>3. CASE DropsDone
  <2>1. Live' = Live /\ orphans' = orphans
    BY <1>3 DEF DropsDone, Live, Books, infVars, bookVars
  <2>2. pc = "drop" /\ todo = {} /\ Live \subseteq seen /\ orphans \cap lastSeen = {} /\ seen \subseteq lastSeen
    BY <1>3 DEF DropsDone, ScanInv, Tracked, Open
  <2>3. CASE pc' = "idle" /\ lastSeen' = seen
    BY <2>1, <2>2, <2>3 DEF ScanInv, Tracked, Open
  <2>4. CASE Abandon
    BY <1>3, <2>1, <2>2, <2>4 DEF Abandon, ScanInv, Tracked, Open
  <2>5. CASE pc' = "search" /\ todo' = Motors \ seen /\ found' = {} /\ UNCHANGED <<lastSeen, seen>>
    BY <2>1, <2>2, <2>5 DEF ScanInv, Tracked, Open
  <2>6. QED
    BY <1>3, <2>3, <2>4, <2>5 DEF DropsDone
<1>4. CASE SearchDone
  BY <1>4 DEF SearchDone, ScanInv, Tracked, Open, Live, Books, infVars, bookVars
<1>5. CASE ScanDone
  BY <1>5 DEF ScanDone, ScanInv, Tracked, Open, Live, Books, infVars, bookVars
<1>6. ASSUME NEW m \in Motors, ReadOk(m) PROVE ScanInv'
  <2>1. Live' \subseteq Live \cup {m}
    BY <1>6, Constants DEF ReadOk, Show, Live, Books, bookVars, TypeOK
  <2>2. QED
    BY <1>6, <2>1 DEF ReadOk, ScanInv, Tracked, Open, bookVars
<1>7. ASSUME NEW m \in Motors, ReadServoError(m) PROVE ScanInv'
  <2>1. Live' \subseteq Live \cup {m}
    BY <1>7, Constants DEF ReadServoError, Show, ShowError, Live, Books, bookVars, TypeOK
  <2>2. QED
    BY <1>7, <2>1 DEF ReadServoError, ScanInv, Tracked, Open, bookVars
<1>8. ASSUME NEW m \in Motors, ReadError(m) PROVE ScanInv'
  <2>1. Live' \subseteq Live
    BY <1>8, Constants DEF ReadError, Show, ShowError, Live, Books, bookVars, TypeOK
  <2>2. QED
    BY <1>8, <2>1 DEF ReadError, ScanInv, Tracked, Open, bookVars
<1>9. ASSUME NEW m \in Motors, Drop(m) PROVE ScanInv'
  <2>1. Open' => Live' \subseteq Live \ {m}
    BY <1>9, Constants DEF Drop, Forget, Live, Books, TypeOK, Open
  <2>2. QED
    BY <1>9, <2>1 DEF Drop, ScanInv, Tracked, Open
<1>10. ASSUME NEW m \in Motors, Announce(m) PROVE ScanInv'
  <2>1. Live' \subseteq Live \cup {m}
    BY <1>10 DEF Announce, Live, Books, infVars, bookVars
  <2>2. QED
    BY <1>10, <2>1 DEF Announce, Lowest, ScanInv, Tracked, Open
<1>11. ASSUME NEW m \in Motors, NEW res, Ping(m, res) PROVE ScanInv'
  <2>1. Live' \subseteq Live
    BY <1>11, Constants DEF Ping, Show, ShowError, Live, Books, bookVars, TypeOK
  <2>2. QED
    BY <1>11, <2>1 DEF Ping, Lowest, ScanInv, Tracked, Open, bookVars
<1>12. QED
  BY <1>1, <1>2, <1>3, <1>4, <1>5, <1>6, <1>7, <1>8, <1>9, <1>10, <1>11 DEF ScanStep

\* ScanInv is an invariant of the port worker.
LEMMA ScanInvAlways == Spec => []ScanInv
<1>1. Init => ScanInv
  BY DEF Init, ScanInv, Live, Books, Tracked, Open
<1>2. TypeOK /\ ScanInv /\ [Next]_vars => ScanInv'
  <2> SUFFICES ASSUME TypeOK, ScanInv, [Next]_vars PROVE ScanInv'
    OBVIOUS
  <2>1. ASSUME NEW op \in Commands, CallbackStore(op) PROVE ScanInv'
    BY <2>1, ScanInvFrame DEF CallbackStore, Live, Books, infVars, bookVars
  <2>2. CASE CallbackSend \/ Unheard \/ Recv \/ TimePasses
    BY <2>2, ScanInvFrame DEF CallbackSend, Unheard, Recv, TimePasses, Live, Books, infVars, bookVars
  <2>3. ASSUME NEW sent \in BOOLEAN, Accept(sent) PROVE ScanInv'
    <3>1. Live' \subseteq Live
      BY <2>3 DEF Accept, Live, Books, bookVars
    <3>2. QED
      BY <2>3, <3>1, ScanInvFrame DEF Accept, bookVars
  <2>4. CASE Process
    BY <2>4, ProcessLive, ScanInvFrame
  <2>5. ASSUME NEW search \in BOOLEAN, Tick(search) PROVE ScanInv'
    BY <2>5 DEF Tick, ScanInv, Tracked, Open, Live, Books, infVars, bookVars
  <2>6. CASE ScanStep
    BY <2>6, ScanInvScan
  <2>7. ASSUME NEW told \in BOOLEAN, Teardown(told) PROVE ScanInv'
    <3>1. Live' = {}
      BY <2>7 DEF Teardown, EndsWith, Forget, Live, Books, infVars
    <3>2. QED
      BY <2>7, <3>1 DEF Teardown, ScanInv, Open
  <2>8. ASSUME NEW told \in BOOLEAN, NEW opened \in BOOLEAN, Connect(told, opened) PROVE ScanInv'
    <3>1. Live' = Live
      BY <2>8 DEF Connect, Live, Books, bookVars
    <3>2. QED
      BY <2>8, <3>1 DEF Connect, ScanInv, Tracked, Open, scanVars, bookVars
  <2>9. CASE \E m \in Motors : Unplug(m) \/ \E v \in Vals : Plug(m, v)
    BY <2>9, ScanInvFrame DEF Unplug, Plug, Live, Books, infVars, bookVars
  <2>10. CASE UNCHANGED vars
    BY <2>10, ScanInvFrame DEF vars, Live, Books, infVars, bookVars
  <2>11. QED
    BY <2>1, <2>2, <2>3, <2>4, <2>5, <2>6, <2>7, <2>8, <2>9, <2>10 DEF Next
<1>3. QED
  BY <1>1, <1>2, TypeCorrect, PTL DEF Spec

\* Whatever commands interrupt a scan, the worker never loses track of a motor that it
\* announced, shows with data or has cached (NothingForgotten); what is on the books and not
\* watched was left there by a worker whose BusDisconnect was refused.
THEOREM NothingForgottenAlways == Spec => []NothingForgotten
<1>1. ScanInv => NothingForgotten
  BY DEF ScanInv, NothingForgotten, Live, Books
<1>2. QED
  BY <1>1, ScanInvAlways, PTL

\* A motor is never announced twice without a DriveDisconnect in between, except to take it
\* over from a worker whose BusDisconnect was refused (NoSecondConnect).
THEOREM NoSecondConnectAlways == Spec => []NoSecondConnect
<1>1. ScanInv => NoSecondConnect
  BY DEF ScanInv, NoSecondConnect, Live, Books, Tracked, Open
<1>2. QED
  BY <1>1, ScanInvAlways, PTL

-----------------------------------------------------------------------------
\* CacheCoherent, and what makes it inductive: while a command runs, the images that it
\* may burn outside of behind are not cached.
CacheInv ==
  /\ CacheCoherent
  /\ pc = "working" => \A m \in Invalidated(cmd.op) \cap Motors : cache[m] = None

\* A command changes the image of a motor on a path that keeps the cache (behind), or it
\* is one for which the worker threw the cached image away.
LEMMA BurnsCovered ==
  ASSUME TypeOK, NEW op \in Commands, NEW res, ProcessCommand(op, res)
  PROVE  /\ behind \subseteq behind'
         /\ \A m \in Motors : \/ eeprom'[m] = eeprom[m] \/ cache[m] = None
                              \/ m \in behind' \/ m \in Invalidated(op)
<1> USE Constants DEF TypeOK, Burn, BurnBehindCache, Reached
<1>1. CASE DoWrite(op, res)
  BY <1>1 DEF DoWrite
<1>2. CASE DoWriteId(op, res)
  BY <1>2 DEF DoWriteId
<1>3. CASE DoRegWrite(op, res)
  BY <1>3 DEF DoRegWrite
<1>4. CASE DoAction(op, res)
  BY <1>4 DEF DoAction
<1>5. CASE DoSyncWrite(op, res)
  BY <1>5 DEF DoSyncWrite
<1>6. CASE DoReset(op, res)
  BY <1>6 DEF DoReset, Invalidated
<1>7. CASE DoResetCalibration(op, res)
  BY <1>7 DEF DoResetCalibration, Invalidated
<1>8. CASE DoFreezeCalibration(op, res)
  BY <1>8 DEF DoFreezeCalibration, Invalidated
<1>9. CASE DoNothing(op, res)
  BY <1>9 DEF DoNothing
<1>10. QED
  BY <1>1, <1>2, <1>3, <1>4, <1>5, <1>6, <1>7, <1>8, <1>9 DEF ProcessCommand

\* A step that touches neither the cache nor the images, and starts no command, preserves
\* CacheInv.
LEMMA CacheInvFrame ==
  ASSUME CacheInv, UNCHANGED <<cache, eeprom, behind>>, pc' # "working" \/ UNCHANGED <<pc, cmd>>
  PROVE  CacheInv'
BY DEF CacheInv, CacheCoherent, Invalidated

\* Every step of a scan preserves CacheInv: what a scan caches it has just read.
LEMMA CacheInvScan ==
  ASSUME TypeOK, CacheInv, ScanStep
  PROVE  CacheInv'
<1>1. ASSUME UNCHANGED <<cache, eeprom, behind, cmd>>, pc # "working",
             pc' # "working"
      PROVE  CacheInv'
  BY <1>1, CacheInvFrame
<1>2. CASE ScanInterrupted \/ ReadsDone \/ DropsDone \/ SearchDone \/ ScanDone
  BY <1>1, <1>2 DEF ScanInterrupted, Abandon, ReadsDone, DropsDone, SearchDone, ScanDone, busVars
<1>3. ASSUME NEW m \in Motors, ReadOk(m) PROVE CacheInv'
  <2>1. pc' # "working" /\ eeprom' = eeprom
    BY <1>3 DEF ReadOk, busVars
  <2>2. ASSUME NEW n \in Motors, cache'[n] # None, n \notin behind' PROVE cache'[n] = eeprom[n]
    BY <1>3, <2>2 DEF ReadOk, Combined, TypeOK, CacheInv, CacheCoherent
  <2>3. QED
    BY <2>1, <2>2 DEF CacheInv, CacheCoherent
<1>4. ASSUME NEW m \in Motors, ReadServoError(m) \/ ReadError(m) \/ Announce(m) PROVE CacheInv'
  BY <1>1, <1>4 DEF ReadServoError, ReadError, Announce, busVars
<1>5. ASSUME NEW m \in Motors, Drop(m) PROVE CacheInv'
  <2>1. pc' # "working" /\ eeprom' = eeprom /\ behind' = behind
    BY <1>5 DEF Drop, busVars
  <2>2. \A n \in Motors : cache'[n] \in {cache[n], None}
    BY <1>5 DEF Drop, TypeOK
  <2>3. QED
    BY <2>1, <2>2 DEF CacheInv, CacheCoherent
<1>6. ASSUME NEW m \in Motors, NEW res, Ping(m, res) PROVE CacheInv'
  BY <1>1, <1>6 DEF Ping, busVars
<1>7. QED
  BY <1>2, <1>3, <1>4, <1>5, <1>6 DEF ScanStep

\* The cached EEPROM of a motor is the motor's own, unless the image changed since it was
\* read in full on one of the paths of the code that keep the cache (CacheCoherent), for any
\* commands, the broadcast ones included.
THEOREM CacheCoherentAlways == Spec => []CacheCoherent
<1>1. Init => CacheInv
  BY DEF Init, CacheInv, CacheCoherent
<1>2. TypeOK /\ CacheInv /\ [Next]_vars => CacheInv'
  <2> SUFFICES ASSUME TypeOK, CacheInv, [Next]_vars PROVE CacheInv'
    OBVIOUS
  <2>1. CASE \/ \E op \in Commands : CallbackStore(op)
             \/ CallbackSend \/ Unheard \/ Recv \/ TimePasses
             \/ \E search \in BOOLEAN : Tick(search)
             \/ \E told \in BOOLEAN : \E opened \in BOOLEAN : Connect(told, opened)
             \/ UNCHANGED vars
    BY <2>1, CacheInvFrame
       DEF CallbackStore, CallbackSend, Unheard, Recv, TimePasses, Tick, Connect, vars, busVars
  <2>2. ASSUME NEW sent \in BOOLEAN, Accept(sent) PROVE CacheInv'
    <3>1. UNCHANGED <<cmd, eeprom, behind>>
      BY <2>2 DEF Accept, busVars
    <3>2. CASE sent
      <4>1. cache' = [m \in Motors |-> IF m \in Invalidated(cmd.op) THEN None ELSE cache[m]]
        BY <2>2, <3>2 DEF Accept
      <4>2. QED
        BY <3>1, <4>1 DEF CacheInv, CacheCoherent, Invalidated
    <3>3. CASE ~sent
      BY <2>2, <3>1, <3>3, CacheInvFrame DEF Accept
    <3>4. QED
      BY <3>2, <3>3
  <2>3. CASE Process
    <3>1. cmd.op \in Commands /\ pc = "working"
      BY <2>3 DEF Process, TypeOK, Queued
    <3>2. PICK res \in {"ok", "rejected", "servo", "timeout", "other", "io"} :
            /\ ProcessCommand(cmd.op, res)
            /\ \E errs \in SUBSET ErrorEntries(cmd.op, res) :
                 \/ \E told \in BOOLEAN : Finish(cmd.op, res, errs, told)
                 \/ Unanswered(errs)
      BY <2>3 DEF Process
    <3>3. /\ behind \subseteq behind'
          /\ \A m \in Motors : \/ eeprom'[m] = eeprom[m] \/ cache[m] = None
                               \/ m \in behind' \/ m \in Invalidated(cmd.op)
      BY <3>1, <3>2, BurnsCovered
    <3>4. pc' # "working" /\ \A m \in Motors : cache'[m] \in {cache[m], None}
      BY <3>2 DEF Finish, Unanswered, TypeOK
    <3>5. QED
      BY <3>1, <3>3, <3>4 DEF CacheInv, CacheCoherent
  <2>4. CASE ScanStep
    BY <2>4, CacheInvScan
  <2>5. ASSUME NEW told \in BOOLEAN, Teardown(told) PROVE CacheInv'
    BY <2>5 DEF Teardown, CacheInv, CacheCoherent
  <2>6. ASSUME NEW m \in Motors, Unplug(m) PROVE CacheInv'
    BY <2>6, CacheInvFrame DEF Unplug
  <2>7. ASSUME NEW m \in Motors, NEW v \in Vals, Plug(m, v) PROVE CacheInv'
    BY <2>7 DEF Plug, BurnBehindCache, Burn, TypeOK, CacheInv, CacheCoherent, Invalidated
  <2>8. QED
    BY <2>1, <2>2, <2>3, <2>4, <2>5, <2>6, <2>7 DEF Next
<1>3. CacheInv => CacheCoherent
  BY DEF CacheInv
<1>4. QED
  BY <1>1, <1>2, <1>3, TypeCorrect, PTL DEF Spec

-----------------------------------------------------------------------------
\* Which commands are where: each id is in one place, the rx queue has not heard of one that
\* still waits, and no command that waits or runs is one that a dead worker left behind.
QueueInv ==
  /\ \A k \in 1..Len(txq) : outcome[txq[k].id] = "queued"
  /\ \A k \in 1..Len(txq), l \in 1..Len(txq) : txq[k].id = txq[l].id => k = l
  /\ cb # None => outcome[cb.id] = "queued" /\ \A k \in 1..Len(txq) : txq[k].id # cb.id
  /\ pc = "received" => /\ outcome[cmd.id] = "queued"
                        /\ \A k \in 1..Len(txq) : txq[k].id # cmd.id
                        /\ cb # None => cb.id # cmd.id
  /\ pc = "working" => outcome[cmd.id] = "received" /\ cmd.id \notin deserted
  /\ pc = "closed" /\ cmd # None => outcome[cmd.id] # "unsent"
  /\ pc \in {"received", "working", "closed"} \/ cmd = None
  /\ \A d \in deserted : outcome[d] \notin {"unsent", "queued"}

\* The commands on their way have ids.
LEMMA QueuedIds ==
  ASSUME TypeOK
  PROVE  /\ Len(txq) \in Nat /\ \A k \in 1..Len(txq) : txq[k].id \in CommandIds
         /\ cb # None => cb.id \in CommandIds
         /\ cmd # None => cmd.id \in CommandIds
<1>1. \A q \in Queued : q.id \in CommandIds
  BY DEF Queued
<1>2. Len(txq) \in Nat /\ \A k \in 1..Len(txq) : txq[k] \in Queued
  BY DEF TypeOK
<1>3. QED
  BY <1>1, <1>2 DEF TypeOK

\* A step that leaves the channel and the commands alone preserves QueueInv.
LEMMA QueueInvFrame ==
  ASSUME QueueInv, UNCHANGED <<chanVars, cmd, outcome, deserted>>,
         pc' = pc \/ (pc \notin {"received", "working", "closed"} /\ pc' \notin {"received", "working"})
  PROVE  QueueInv'
BY DEF QueueInv, chanVars

\* QueueInv is preserved by the callback and by recv.
LEMMA QueueInvChannel ==
  ASSUME TypeOK, QueueInv, (\E op \in Commands : CallbackStore(op)) \/ CallbackSend \/ Recv
  PROVE  QueueInv'
<1> USE DEF bookVars
<1>0. /\ \A k \in 1..Len(txq) : txq[k].id \in CommandIds
      /\ cb # None => cb \in Queued /\ cb.id \in CommandIds
      /\ cmd # None => cmd.id \in CommandIds
      /\ Len(txq) \in Nat /\ deserted \subseteq CommandIds
      /\ outcome \in [CommandIds -> {"unsent", "queued", "received", "answered", "lost"}]
  BY QueuedIds DEF TypeOK
<1>1. ASSUME NEW op \in Commands, CallbackStore(op) PROVE QueueInv'
  <2>1. PICK i \in CommandIds : /\ outcome[i] = "unsent" /\ cb' = [id |-> i, op |-> op]
                                /\ outcome' = [outcome EXCEPT ![i] = "queued"]
    BY <1>1 DEF CallbackStore, IsNext
  <2>2. UNCHANGED <<txq, pc, cmd, deserted>> /\ cb'.id = i
    BY <1>1, <2>1 DEF CallbackStore
  <2>3. \A j \in CommandIds : /\ outcome[j] # "unsent" => outcome'[j] = outcome[j]
                              /\ outcome'[j] = "unsent" => outcome[j] = "unsent"
    BY <1>0, <2>1
  <2>4. outcome'[i] = "queued"
    BY <1>0, <2>1
  <2>5. pc \in {"received", "working"} => cmd # None
    BY PortAssumption DEF TypeOK
  <2>6. QED
    BY <1>0, <2>1, <2>2, <2>3, <2>4, <2>5 DEF QueueInv
<1>2. CASE CallbackSend
  <2>1. cb # None /\ cb' = None /\ UNCHANGED <<pc, cmd, deserted>>
    BY <1>2 DEF CallbackSend
  <2>2. CASE Open
    <3>1. txq' = Append(txq, cb) /\ UNCHANGED outcome
      BY <1>2, <2>2 DEF CallbackSend
    <3>2. /\ Len(txq') = Len(txq) + 1
          /\ \A k \in 1..Len(txq) : txq'[k] = txq[k]
          /\ txq'[Len(txq) + 1] = cb
      BY <1>0, <2>1, <3>1 DEF TypeOK
    <3>3. \A k \in 1..Len(txq') : k \in 1..Len(txq) \/ k = Len(txq) + 1
      BY <1>0, <3>2
    <3>4. QED
      BY <1>0, <2>1, <3>1, <3>2, <3>3 DEF QueueInv
  <2>3. CASE ~Open
    <3>1. outcome' = [outcome EXCEPT ![cb.id] = "lost"] /\ UNCHANGED txq
      BY <1>2, <2>3 DEF CallbackSend
    <3>2. pc \notin {"received", "working"}
      BY <2>3 DEF Open
    <3>3. QED
      BY <1>0, <2>1, <3>1, <3>2 DEF QueueInv
  <2>4. QED
    BY <2>2, <2>3
<1>3. CASE Recv
  <2>1. /\ txq # <<>> /\ cmd' = Head(txq) /\ txq' = Tail(txq) /\ pc' = "received"
        /\ UNCHANGED <<cb, outcome, deserted>>
    BY <1>3 DEF Recv
  <2>2. Len(txq) \in Nat /\ Len(txq) > 0 /\ Head(txq) = txq[1]
    BY <2>1 DEF TypeOK
  <2>3. Len(txq') = Len(txq) - 1 /\ \A k \in 1..Len(txq') : txq'[k] = txq[k + 1]
    BY <2>1 DEF TypeOK
  <2>4. \A k \in 1..Len(txq') : k + 1 \in 1..Len(txq) /\ k + 1 # 1
    BY <2>2, <2>3
  <2>5. 1 \in 1..Len(txq)
    BY <2>2
  <2>6. \A k \in 1..Len(txq'), l \in 1..Len(txq') : txq'[k].id = txq'[l].id => k = l
    <3>1. SUFFICES ASSUME NEW k \in 1..Len(txq'), NEW l \in 1..Len(txq'), txq'[k].id = txq'[l].id
                   PROVE  k = l
      OBVIOUS
    <3>2. k + 1 = l + 1
      BY <2>3, <2>4, <3>1 DEF QueueInv
    <3>3. QED
      BY <2>2, <2>3, <3>2
  <2>7. QED
    BY <2>1, <2>2, <2>3, <2>4, <2>5, <2>6 DEF QueueInv
<1>4. QED
  BY <1>1, <1>2, <1>3

\* QueueInv is an invariant of the port worker.
LEMMA QueueInvAlways == Spec => []QueueInv
<1>1. Init => QueueInv
  BY DEF Init, QueueInv
<1>2. TypeOK /\ QueueInv /\ [Next]_vars => QueueInv'
  <2> SUFFICES ASSUME TypeOK, QueueInv, [Next]_vars PROVE QueueInv'
    OBVIOUS
  <2>1. CASE (\E op \in Commands : CallbackStore(op)) \/ CallbackSend \/ Recv
    BY <2>1, QueueInvChannel
  <2>2. CASE Unheard
    <3>1. PICK i \in CommandIds : outcome[i] = "unsent" /\ outcome' = [outcome EXCEPT ![i] = "lost"]
      BY <2>2 DEF Unheard, IsNext
    <3>2. /\ UNCHANGED <<txq, cb, cmd, pc, deserted>> /\ pc = "gone"
          /\ outcome \in [CommandIds -> {"unsent", "queued", "received", "answered", "lost"}]
          /\ deserted \subseteq CommandIds
          /\ cb # None => cb.id \in CommandIds
          /\ \A k \in 1..Len(txq) : txq[k].id \in CommandIds
      BY <2>2, QueuedIds DEF Unheard, TypeOK, chanVars, bookVars
    <3>3. QED
      BY <3>1, <3>2 DEF QueueInv
  <2>3. ASSUME NEW sent \in BOOLEAN, Accept(sent) PROVE QueueInv'
    <3>1. pc = "received" /\ UNCHANGED <<txq, cb, cmd, deserted>> /\ pc' \in {"working", "closed"}
      BY <2>3 DEF Accept, bookVars
    <3>2. /\ outcome' = IF sent THEN [outcome EXCEPT ![cmd.id] = "received"] ELSE outcome
          /\ pc' = IF sent THEN "working" ELSE "closed"
      BY <2>3 DEF Accept
    <3>3. /\ outcome \in [CommandIds -> {"unsent", "queued", "received", "answered", "lost"}]
          /\ deserted \subseteq CommandIds /\ cmd.id \in CommandIds
          /\ cb # None => cb.id \in CommandIds
          /\ \A k \in 1..Len(txq) : txq[k].id \in CommandIds
      BY <3>1, QueuedIds, PortAssumption DEF TypeOK
    <3>4. QED
      BY <3>1, <3>2, <3>3 DEF QueueInv
  <2>4. CASE Process
    <3>1. UNCHANGED <<txq, cb, deserted>> /\ pc = "working" /\ pc' \in {"idle", "closed"}
      BY <2>4 DEF Process, chanVars, Finish, Unanswered
    <3>2. \/ outcome' = [outcome EXCEPT ![cmd.id] = "answered"] /\ cmd' = None
          \/ UNCHANGED <<cmd, outcome>> /\ pc' = "closed"
      BY <2>4 DEF Process, Finish, Unanswered
    <3>3. /\ outcome \in [CommandIds -> {"unsent", "queued", "received", "answered", "lost"}]
          /\ deserted \subseteq CommandIds /\ cmd.id \in CommandIds
          /\ cb # None => cb.id \in CommandIds
          /\ \A k \in 1..Len(txq) : txq[k].id \in CommandIds
      BY <3>1, QueuedIds, PortAssumption DEF TypeOK
    <3>4. QED
      BY <3>1, <3>2, <3>3 DEF QueueInv
  <2>5. CASE TimePasses \/ ScanStep \/ (\E search \in BOOLEAN : Tick(search))
    <3>1. /\ UNCHANGED <<chanVars, cmd, outcome, deserted>>
          /\ pc \notin {"received", "working", "closed"} /\ pc' \notin {"received", "working"}
      BY <2>5 DEF TimePasses, Tick, ScanStep, ScanInterrupted, Abandon, ReadsDone, DropsDone, SearchDone,
                  ScanDone, ReadOk, ReadServoError, ReadError, Drop, Announce, Ping, bookVars
    <3>2. QED
      BY <3>1, QueueInvFrame
  <2>6. ASSUME NEW told \in BOOLEAN, Teardown(told) PROVE QueueInv'
    <3>1. /\ txq' = <<>> /\ cb' = None /\ cmd' = None /\ pc' = "gone" /\ pc = "closed"
          /\ outcome' = [i \in CommandIds |-> IF outcome[i] = "queued" THEN "lost" ELSE outcome[i]]
      BY <2>6 DEF Teardown
    <3>2. \A d \in deserted' : d \in deserted \/ (cmd # None /\ d = cmd.id)
      BY <2>6 DEF Teardown, EndsWith
    <3>3. deserted \subseteq CommandIds /\ (cmd # None => cmd.id \in CommandIds)
      BY DEF TypeOK, Queued
    <3>4. \A d \in deserted' : outcome'[d] \notin {"unsent", "queued"}
      BY <3>1, <3>2, <3>3 DEF QueueInv
    <3>5. QED
      BY <3>1, <3>4 DEF QueueInv
  <2>7. CASE \E told \in BOOLEAN, opened \in BOOLEAN : Connect(told, opened)
    BY <2>7, QueueInvFrame DEF Connect, bookVars
  <2>8. CASE \E m \in Motors : Unplug(m) \/ \E v \in Vals : Plug(m, v)
    BY <2>8, QueueInvFrame DEF Unplug, Plug, bookVars
  <2>9. CASE UNCHANGED vars
    BY <2>9, QueueInvFrame DEF vars, bookVars
  <2>10. QED
    BY <2>1, <2>2, <2>3, <2>4, <2>5, <2>6, <2>7, <2>8, <2>9 DEF Next
<1>3. QED
  BY <1>1, <1>2, TypeCorrect, PTL DEF Spec

\* An entry of InferenceState that says "processing".
Standing(m) == infCmd[m] # None /\ infCmd[m].res = "processing"

\* NoStuckProcessing, and what makes it inductive: an entry that says "processing" is one
\* that the result of the running command will overwrite, one of the command that the worker
\* has just died over, or one that a former worker deserted.
CommandInv ==
  \A m \in Ids : Standing(m) =>
    /\ outcome[infCmd[m].id] = "received"
    /\ \/ pc = "working" /\ infCmd[m].id = cmd.id /\ m \in Recipients(cmd.op) \cap infMotors
       \/ pc = "closed" /\ cmd # None /\ infCmd[m].id = cmd.id
       \/ infCmd[m].id \in deserted

\* The command in an entry that says "processing" has an id.
LEMMA StandingId ==
  ASSUME TypeOK, NEW m \in Ids, Standing(m)
  PROVE  infCmd[m].id \in CommandIds
BY DEF TypeOK, Standing

\* A step that adds no "processing", takes no entry away from under one and ends no command
\* preserves CommandInv.
LEMMA CommandInvFrame ==
  ASSUME CommandInv,
         \A m \in Ids : infCmd'[m] \in {infCmd[m], None},
         \A m \in Ids : Standing(m) => outcome'[infCmd[m].id] = outcome[infCmd[m].id],
         deserted' = deserted,
         \/ pc \notin {"working", "closed"}
         \/ UNCHANGED <<pc, cmd, infMotors>>
         \/ pc = "working" /\ pc' = "closed" /\ UNCHANGED cmd /\ cmd # None
  PROVE  CommandInv'
<1> SUFFICES ASSUME NEW m \in Ids, Standing(m)'
             PROVE  /\ outcome'[infCmd'[m].id] = "received"
                    /\ \/ pc' = "working" /\ infCmd'[m].id = cmd'.id /\ m \in Recipients(cmd'.op) \cap infMotors'
                       \/ pc' = "closed" /\ cmd' # None /\ infCmd'[m].id = cmd'.id
                       \/ infCmd'[m].id \in deserted'
  BY DEF CommandInv
<1>1. infCmd'[m] = infCmd[m] /\ Standing(m)
  BY DEF Standing
<1>2. QED
  BY <1>1 DEF CommandInv

\* The result of a command overwrites every entry that says "processing" of it.
LEMMA ResultOverwrites ==
  ASSUME TypeOK, QueueInv, CommandInv, pc = "working", NEW res, NEW errs, NEW told \in BOOLEAN,
         Finish(cmd.op, res, errs, told), deserted' = deserted
  PROVE  CommandInv'
<1>1. SUFFICES ASSUME NEW m \in Ids, Standing(m)'
               PROVE  outcome'[infCmd'[m].id] = "received" /\ infCmd'[m].id \in deserted
  BY DEF CommandInv
<1> DEFINE old == IF cmd.op.kind = "writeId" /\ res \notin {"io", "other"} THEN {cmd.op.motor} ELSE {}
           removed == IF told THEN old ELSE {}
           cmds == CommandResult(infMotors \cup errs, cmd.id, cmd.op, Verdict(res))
<1>2. infCmd'[m] = IF m \in removed THEN None ELSE cmds[m]
  BY DEF Finish
<1>3. cmds[m] = IF m \in Recipients(cmd.op) \cap (infMotors \cup errs)
                THEN [id |-> cmd.id, res |-> Verdict(res)] ELSE infCmd[m]
  BY DEF CommandResult
<1>4. Verdict(res) # "processing"
  BY DEF Verdict
<1>5. m \notin removed /\ m \notin Recipients(cmd.op) \cap (infMotors \cup errs)
  BY <1>1, <1>2, <1>3, <1>4 DEF Standing
<1>6. infCmd'[m] = infCmd[m] /\ Standing(m)
  BY <1>1, <1>2, <1>3, <1>5 DEF Standing
<1>7. outcome[infCmd[m].id] = "received" /\ infCmd[m].id \in deserted
  BY <1>5, <1>6 DEF CommandInv
<1>8. infCmd[m].id # cmd.id
  BY <1>7 DEF QueueInv
<1>9. outcome' = [outcome EXCEPT ![cmd.id] = "answered"]
  BY DEF Finish
<1>10. QED
  BY <1>6, <1>7, <1>8, <1>9, StandingId DEF TypeOK

\* CommandInv is preserved when the worker takes up a command.
LEMMA AcceptCommandInv ==
  ASSUME TypeOK, QueueInv, CommandInv, NEW sent \in BOOLEAN, Accept(sent)
  PROVE  CommandInv'
<1>1. /\ pc = "received" /\ UNCHANGED <<cmd, infMotors, deserted>>
      /\ outcome[cmd.id] = "queued" /\ cmd.id \in CommandIds
  BY DEF Accept, bookVars, QueueInv, TypeOK, Queued
<1>2. CASE sent
  <2>1. /\ pc' = "working" /\ infCmd' = CommandResult(infMotors, cmd.id, cmd.op, "processing")
        /\ outcome' = [outcome EXCEPT ![cmd.id] = "received"]
    BY <1>2 DEF Accept
  <2>2. SUFFICES ASSUME NEW m \in Ids, Standing(m)'
                 PROVE  /\ outcome'[infCmd'[m].id] = "received"
                        /\ \/ infCmd'[m].id = cmd.id /\ m \in Recipients(cmd.op) \cap infMotors
                           \/ infCmd'[m].id \in deserted
    BY <1>1, <2>1 DEF CommandInv
  <2>3. CASE m \in Recipients(cmd.op) \cap infMotors
    <3>1. infCmd'[m] = [id |-> cmd.id, res |-> "processing"]
      BY <2>1, <2>3 DEF CommandResult
    <3>2. QED
      BY <1>1, <2>1, <2>3, <3>1 DEF TypeOK
  <2>4. CASE m \notin Recipients(cmd.op) \cap infMotors
    <3>1. infCmd'[m] = infCmd[m] /\ Standing(m)
      BY <2>1, <2>2, <2>4 DEF CommandResult, Standing
    <3>2. outcome[infCmd[m].id] = "received" /\ infCmd[m].id \in deserted
      BY <1>1, <3>1 DEF CommandInv
    <3>3. QED
      BY <1>1, <2>1, <3>1, <3>2, StandingId DEF TypeOK
  <2>5. QED
    BY <2>3, <2>4
<1>3. CASE ~sent
  BY <1>1, <1>3, CommandInvFrame DEF Accept
<1>4. QED
  BY <1>2, <1>3

\* last_command says "processing" only of the command that the worker is executing, or of
\* one that a worker died over without a BusDisconnect (NoStuckProcessing): every other path
\* of the worker overwrites or removes the entry.
THEOREM NoStuckProcessingAlways == Spec => []NoStuckProcessing
<1>1. Init => CommandInv
  BY DEF Init, CommandInv, Standing
<1>2. TypeOK /\ QueueInv /\ CommandInv /\ [Next]_vars => CommandInv'
  <2> SUFFICES ASSUME TypeOK, QueueInv, CommandInv, [Next]_vars PROVE CommandInv'
    OBVIOUS
  <2> USE DEF bookVars
  <2>0. \A m \in Ids : Standing(m) => outcome[infCmd[m].id] = "received" /\ infCmd[m].id \in CommandIds
    BY StandingId DEF CommandInv
  <2>1. CASE \/ \E op \in Commands : CallbackStore(op)
             \/ CallbackSend \/ Unheard
    <3>1. /\ UNCHANGED <<infVars, pc, cmd, deserted>>
          /\ \/ UNCHANGED outcome
             \/ \E i \in CommandIds, o \in {"queued", "lost"} :
                  outcome[i] # "received" /\ outcome' = [outcome EXCEPT ![i] = o]
      <4>1. CASE \E op \in Commands : CallbackStore(op)
        BY <4>1 DEF CallbackStore, IsNext
      <4>2. CASE CallbackSend
        BY <4>2 DEF CallbackSend, QueueInv, TypeOK, Queued
      <4>3. CASE Unheard
        BY <4>3 DEF Unheard, IsNext
      <4>4. QED
        BY <2>1, <4>1, <4>2, <4>3
    <3>2. \A m \in Ids : Standing(m) => outcome'[infCmd[m].id] = outcome[infCmd[m].id]
      BY <2>0, <3>1 DEF TypeOK
    <3>3. QED
      BY <3>1, <3>2, CommandInvFrame DEF infVars
  <2>2. CASE \/ TimePasses \/ Recv \/ UNCHANGED vars
             \/ \E search \in BOOLEAN : Tick(search)
    BY <2>2, CommandInvFrame
       DEF Recv, TimePasses, Tick, vars, infVars
  <2>3. ASSUME NEW sent \in BOOLEAN, Accept(sent) PROVE CommandInv'
    BY <2>3, AcceptCommandInv
  <2>4. CASE Process
    <3>1. PICK res \in {"ok", "rejected", "servo", "timeout", "other", "io"} :
            \E errs \in SUBSET ErrorEntries(cmd.op, res) :
              \/ \E told \in BOOLEAN : Finish(cmd.op, res, errs, told)
              \/ Unanswered(errs)
      BY <2>4 DEF Process
    <3>2. pc = "working" /\ deserted' = deserted /\ cmd # None
      BY <2>4, PortAssumption DEF Process, TypeOK
    <3>3. ASSUME NEW errs, NEW told \in BOOLEAN, Finish(cmd.op, res, errs, told) PROVE CommandInv'
      BY <3>2, <3>3, ResultOverwrites
    <3>4. ASSUME NEW errs, Unanswered(errs) PROVE CommandInv'
      BY <3>2, <3>4, CommandInvFrame DEF Unanswered
    <3>5. QED
      BY <3>1, <3>3, <3>4
  <2>5. CASE ScanInterrupted \/ ReadsDone \/ DropsDone \/ SearchDone \/ ScanDone
    BY <2>5, CommandInvFrame
       DEF ScanInterrupted, Abandon, ReadsDone, DropsDone, SearchDone, ScanDone, infVars
  <2>6. ASSUME NEW m \in Motors, ReadOk(m) \/ ReadServoError(m) \/ ReadError(m) \/ Announce(m)
        PROVE  CommandInv'
    BY <2>6, CommandInvFrame DEF ReadOk, ReadServoError, ReadError, Announce, infVars
  <2>7. ASSUME NEW m \in Motors, Drop(m) PROVE CommandInv'
    <3>1. \A n \in Ids : infCmd'[n] \in {infCmd[n], None}
      BY <2>7 DEF Drop, Forget
    <3>2. QED
      BY <2>7, <3>1, CommandInvFrame DEF Drop
  <2>8. ASSUME NEW m \in Motors, NEW res, Ping(m, res) PROVE CommandInv'
    BY <2>8, CommandInvFrame DEF Ping
  <2>9. ASSUME NEW told \in BOOLEAN, Teardown(told) PROVE CommandInv'
    <3>1. CASE told
      BY <2>9, <3>1 DEF Teardown, EndsWith, Forget, CommandInv, Standing
    <3>2. CASE ~told
      <4>1. /\ infCmd' = infCmd /\ pc = "closed"
            /\ deserted' = deserted \cup {q.id : q \in {cmd} \ {None}}
            /\ outcome' = [i \in CommandIds |-> IF outcome[i] = "queued" THEN "lost" ELSE outcome[i]]
        BY <2>9, <3>2 DEF Teardown, EndsWith, infVars
      <4>2. SUFFICES ASSUME NEW m \in Ids, Standing(m)
                     PROVE  outcome'[infCmd[m].id] = "received" /\ infCmd[m].id \in deserted'
        BY <4>1 DEF CommandInv, Standing
      <4>3. outcome'[infCmd[m].id] = "received"
        BY <2>0, <4>1, <4>2
      <4>4. (cmd # None /\ infCmd[m].id = cmd.id) \/ infCmd[m].id \in deserted
        BY <4>1, <4>2 DEF CommandInv
      <4>5. QED
        BY <4>1, <4>3, <4>4
    <3>3. QED
      BY <3>1, <3>2
  <2>10. CASE \E told \in BOOLEAN, opened \in BOOLEAN : Connect(told, opened)
    BY <2>10, CommandInvFrame DEF Connect
  <2>11. CASE \E m \in Motors : Unplug(m) \/ \E v \in Vals : Plug(m, v)
    BY <2>11, CommandInvFrame DEF Unplug, Plug, infVars
  <2>12. QED
    BY <2>1, <2>2, <2>3, <2>4, <2>5, <2>6, <2>7, <2>8, <2>9, <2>10, <2>11 DEF Next, ScanStep
<1>3. CommandInv => NoStuckProcessing
  BY DEF CommandInv, NoStuckProcessing, Standing, Open
<1>4. QED
  BY <1>1, <1>2, <1>3, TypeCorrect, QueueInvAlways, PTL DEF Spec
=============================================================================
