---------------------------- MODULE QueueBounds ----------------------------
(***************************************************************************)
(* The dataset generator's search for the part of a frame queue that lies  *)
(* between two pointers into inference-states, given as decimals           *)
(* (software/station/bin/dataset-generator/internal/bounds.go), composed   *)
(* with the recorder that writes inference-states: the log grows by what   *)
(* LatestPointers promises, before and while the two goroutines search.    *)
(* An entry lists the target queue only after its callback ran once since  *)
(* the station started, so a restart leaves a hole in the log.             *)
(***************************************************************************)
EXTENDS Naturals, Sequences, FiniteSets, FiniteSetsExt

CONSTANTS Target,      \* the queue whose name ends with the wanted postfix
          SearchStep,  \* searchStep, 10000 in the code
          MaxPointer,  \* bound: frames written to the target queue
          MaxEntries   \* bound: entries of inference-states

VARIABLES
  latest, published,  \* the recorder's promise, see LatestPointers
  seen,               \* the recorder has a pointer of the target queue
  log,                \* inference-states: the target queue's pointer in each entry, or 0
  args,               \* fromPtr and toPtr of the running FetchQueueBounds, or none, with
                      \* the length of the log when it was called (history)
  fwd, bwd,           \* the goroutine of each bound: pc, currentPtr, result
  result              \* what FetchQueueBounds returned

vars == <<latest, published, seen, log, args, fwd, bwd, result>>
recorderVars == <<latest, published, seen, log>>

Recorder == INSTANCE LatestPointers WITH Queues <- {Target}

NoArgs == [from |-> 0, to |-> 0, len |-> 0]
Idle == [pc |-> "idle", cur |-> 0, res |-> 0]
NoResult == [kind |-> "none", from |-> 0, to |-> 0]

Init ==
  /\ Recorder!Start /\ seen = FALSE /\ log = <<>>
  /\ args = NoArgs /\ fwd = Idle /\ bwd = Idle /\ result = NoResult

-----------------------------------------------------------------------------
(* The station.                                                            *)

\* A frame is appended to the target queue and its callback notes the pointer.
Frame ==
  /\ Recorder!Grow(Target) /\ seen' = TRUE
  /\ UNCHANGED <<log, args, fwd, bwd, result>>

\* The recorder publishes an entry.  In the log 0 stands for an entry that gives the reader
\* no pointer: it lacks the target queue or cannot be unmarshalled.
Record ==
  /\ Len(log) < MaxEntries
  /\ published' \in [{Target} -> 0..latest[Target]] /\ Recorder!Publish
  /\ \E ok \in BOOLEAN : log' = Append(log, IF ok /\ seen THEN published'[Target] ELSE 0)
  /\ UNCHANGED <<seen, args, fwd, bwd, result>>

\* The station restarts: latest_pointers is empty until the next frame.
Restart ==
  /\ seen /\ seen' = FALSE
  /\ UNCHANGED <<latest, published, log, args, fwd, bwd, result>>

-----------------------------------------------------------------------------
(* The generator.                                                          *)

\* Entry i exists and queueMatchesByPostfix holds for an entry of the decoded InferenceRx.
Match(i) == i \in 1..Len(log) /\ log[i] # 0

\* ReadFromOffset(InferenceStatesQueue, start, SearchStep): the ids that are delivered, none
\* when start lies behind the end.
Batch(start) == start..Min({start + SearchStep - 1, Len(log)})

\* The decimals that main accepts for --from and --to, as far as the instance tells them
\* apart: in either order, and far enough behind the end of the log for an empty batch.
Decimals == 1..(MaxEntries + SearchStep)

\* FetchQueueBounds is called and starts both goroutines.
Fetch(from, to) ==
  /\ args = NoArgs
  /\ args' = [from |-> from, to |-> to, len |-> Len(log)]
  /\ fwd' = [pc |-> "probe", cur |-> from, res |-> 0]
  /\ bwd' = [pc |-> "probe", cur |-> to, res |-> 0]
  /\ UNCHANGED <<latest, published, seen, log, result>>

\* tryFindQueueAtPtr at the goroutine's own end of the range; no entry there is no error.
Probed(g) ==
  IF Match(g.cur) THEN [g EXCEPT !.pc = "found", !.res = log[g.cur]]
                  ELSE [g EXCEPT !.pc = "scan"]

ProbeFrom == /\ fwd.pc = "probe" /\ fwd' = Probed(fwd)
             /\ UNCHANGED <<recorderVars, args, bwd, result>>
ProbeTo == /\ bwd.pc = "probe" /\ bwd' = Probed(bwd)
           /\ UNCHANGED <<recorderVars, args, fwd, result>>

\* One turn of searchForwardForQueue: the first match of the batch, even past toPtr; an
\* empty batch is an error.
Forward(g) ==
  LET matches == {i \in Batch(g.cur) : Match(i)} IN
  IF g.cur >= args.to \/ Batch(g.cur) = {} THEN [g EXCEPT !.pc = "missing"]
  ELSE IF matches # {} THEN [g EXCEPT !.pc = "found", !.res = log[Min(matches)]]
  ELSE [g EXCEPT !.cur = Max(Batch(g.cur)) + 1]

SearchForward == /\ fwd.pc = "scan" /\ fwd' = Forward(fwd)
                 /\ UNCHANGED <<recorderVars, args, bwd, result>>

\* batchStart: SearchStep before currentPtr, but not before fromPtr.
BatchStart(cur) == IF cur >= SearchStep /\ cur - SearchStep > args.from
                   THEN cur - SearchStep ELSE args.from

\* lastEntryPtr: the loop over the batch stops at the first id after currentPtr.
LastEntry(cur) == Min({Max(Batch(BatchStart(cur))), cur + 1})

\* Where the search goes on after a batch without a match: at the last entry read, when
\* there is one and it lies before currentPtr, else at batchStart.
NextBack(cur) ==
  IF Batch(BatchStart(cur)) # {} /\ LastEntry(cur) < cur THEN LastEntry(cur)
                                                         ELSE BatchStart(cur)

\* Mutants: the batch stops before currentPtr - 1; an unsuccessful batch does not move.
BackwardShort(g) ==
  LET matches == {i \in Batch(BatchStart(g.cur)) : i < g.cur - 1 /\ Match(i)}
      next == NextBack(g.cur) IN
  IF g.cur <= args.from THEN [g EXCEPT !.pc = "missing"]
  ELSE IF matches # {} THEN [g EXCEPT !.pc = "found", !.res = log[Max(matches)]]
  ELSE [g EXCEPT !.cur = next, !.pc = IF next = args.from THEN "missing" ELSE "scan"]
BackwardStuck(g) ==
  LET matches == {i \in Batch(BatchStart(g.cur)) : i <= g.cur /\ Match(i)} IN
  IF g.cur <= args.from THEN [g EXCEPT !.pc = "missing"]
  ELSE IF matches # {} THEN [g EXCEPT !.pc = "found", !.res = log[Max(matches)]]
  ELSE g

\* One turn of searchBackwardForQueue: the last match up to currentPtr.
Backward(g) ==
  LET matches == {i \in Batch(BatchStart(g.cur)) : i <= g.cur /\ Match(i)}
      next == NextBack(g.cur) IN
  IF g.cur <= args.from THEN [g EXCEPT !.pc = "missing"]
  ELSE IF matches # {} THEN [g EXCEPT !.pc = "found", !.res = log[Max(matches)]]
  ELSE [g EXCEPT !.cur = next, !.pc = IF next = args.from THEN "missing" ELSE "scan"]

SearchBackward == /\ bwd.pc = "scan" /\ bwd' = Backward(bwd)
                  /\ UNCHANGED <<recorderVars, args, fwd, result>>

\* A read of inference-states fails (res.Err) in either goroutine.
Reading(g) == g.pc \in {"probe", "scan"}
ReadFails ==
  /\ \/ Reading(fwd) /\ fwd' = [fwd EXCEPT !.pc = "failed"] /\ UNCHANGED bwd
     \/ Reading(bwd) /\ bwd' = [bwd EXCEPT !.pc = "failed"] /\ UNCHANGED fwd
  /\ UNCHANGED <<recorderVars, args, result>>

\* wg.Wait() and the end of FetchQueueBounds: the error of 'from' is reported first.
Ended(g) == g.pc \in {"found", "missing", "failed"}
Join ==
  /\ Ended(fwd) /\ Ended(bwd) /\ result = NoResult
  /\ result' = IF fwd.pc # "found" THEN [NoResult EXCEPT !.kind = fwd.pc]
               ELSE IF bwd.pc # "found" THEN [NoResult EXCEPT !.kind = bwd.pc]
               ELSE [kind |-> "found", from |-> fwd.res, to |-> bwd.res]
  /\ UNCHANGED <<recorderVars, args, fwd, bwd>>

Station == Frame \/ Record \/ Restart
Generator == ProbeFrom \/ ProbeTo \/ SearchForward \/ SearchBackward \/ Join
Next ==
  \/ Station \/ ReadFails
  \/ \E from, to \in Decimals : Fetch(from, to)
  \/ Generator

Spec == Init /\ [][Next]_vars

\* A read that does not fail answers, so both goroutines go on; no read has to fail.
FairSpec == Spec /\ WF_vars(Generator)

-----------------------------------------------------------------------------
\* The matches a user means: between the two pointers, both included.
Wanted == {i \in args.from..args.to : Match(i)}

\* Of these, the ones in the log when FetchQueueBounds was called.
Present == {i \in Wanted : i <= args.len}

\* With fromPtr before toPtr, FetchQueueBounds returns the pointers of the first and of the
\* last entry between them that lists the queue, whatever the batches were, whether the two
\* entries exist and although the log grows during the search; what is appended meanwhile
\* may be left out at the end.  It misses only when no entry before toPtr lists the queue.
\* Pointers in the wrong order are not refused: if both entries list the queue, these two
\* are returned.
BoundsExact ==
  /\ result.kind = "found" =>
       IF args.from <= args.to
       THEN /\ Wanted # {} /\ result.from = log[Min(Wanted)]
            /\ \E k \in Wanted : result.to = log[k] /\ \A i \in Present : i <= k
       ELSE /\ Match(args.from) /\ result.from = log[args.from]
            /\ Match(args.to) /\ result.to = log[args.to]
  /\ result.kind = "missing" => Present \subseteq {args.to}

\* Because published pointers never go back, the range handed to StreamFrames is inverted
\* only if the arguments are, restarts of the station included.
RangeNotInverted ==
  result.kind = "found" => IF args.from <= args.to THEN result.from <= result.to
                                                   ELSE result.to <= result.from

\* Both searches end.
FetchEnds == args # NoArgs ~> result # NoResult
=============================================================================
