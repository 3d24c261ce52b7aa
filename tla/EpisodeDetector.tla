-------------------------- MODULE EpisodeDetector --------------------------
(***************************************************************************)
(* EpisodeDetector of the dataset generator                                *)
(* (software/station/bin/dataset-generator/internal/episodes.go): it cuts  *)
(* the stream of recorded frames into episodes, writes each episode that   *)
(* qualifies to a numbered file and finally merges the files into one.     *)
(* Stamps are unsigned words, so differences wrap; the monotonic clock     *)
(* starts again at each boot of the station while the queue goes on.       *)
(* A file holds rows or is torn by a write that failed; the process may be *)
(* killed at any moment (the UI's quit, a read error, a crash).            *)
(***************************************************************************)
EXTENDS Integers, Sequences, FiniteSets, SequencesExt

CONSTANTS
  Word,         \* number of values of uint64
  MaxGap,       \* 500 ms
  Quiet,        \* 5 s
  Duration,     \* duration
  MinCommands,  \* minCommands
  Goals,        \* goal vectors of a frame
  NoGoals,      \* the vector of a frame without joints, and of lastGoals = nil
  Torn,         \* the contents of a file whose write failed
  Absent,       \* of a file that does not exist
  MaxStamp,     \* bound: monotonic stamps
  FrameBound,   \* bound: accepted frames
  MaxBoots      \* bound: boots of the station the recording spans

VARIABLES
  now, boot, count,  \* the recording: stamp and boot of the last frame, accepted frames so far
  lastGoals, commandsCnt, lastMovement,
  index,             \* episodeIndex
  start,             \* episodeMonotonicStart, 0 outside of an episode
  skip,              \* episodeSkipReason # ""
  buffer,
  stats,             \* stats, and failed: episodes whose file could not be written
  pc,                \* frames, merge, copy, cleanup, ended
  files,             \* the numbered files: number -> rows, or Torn
  output,            \* the merged file
  saved              \* history: the rows of each episode reported as saved

vars == <<now, boot, count, lastGoals, commandsCnt, lastMovement, index, start, skip,
          buffer, stats, pc, files, output, saved>>

\* uint64 subtraction and the conversion to time.Duration (int64).
Minus(a, b) == (a - b) % Word
AsDuration(x) == IF x >= Word \div 2 THEN x - Word ELSE x

Init ==
  /\ now = 0 /\ boot = 1 /\ count = 0
  /\ lastGoals = NoGoals /\ commandsCnt = 0 /\ lastMovement = 0
  /\ index = 0 /\ start = 0 /\ skip = FALSE /\ buffer = <<>>
  /\ stats = [started |-> 0, saved |-> 0, discarded |-> 0, failed |-> 0]
  /\ pc = "frames" /\ files = <<>> /\ output = Absent /\ saved = <<>>

-----------------------------------------------------------------------------
\* The next frame of the queue: later in this boot, or the first frames of another boot.
Arrives(stamp) ==
  /\ pc = "frames" /\ now' = stamp
  /\ \/ stamp > now /\ boot' = boot
     \/ now > 0 /\ boot < MaxBoots /\ boot' = boot + 1

\* A frame with two images is accepted.
Accepted(stamp) == Arrives(stamp) /\ count < FrameBound /\ count' = count + 1

\* hasCommandsChanged.
HasCommandsChanged(goals) == lastGoals # NoGoals /\ lastGoals # goals

\* bufferFrame; the identity of the frame is its place among the accepted ones.
Row(stamp, goals, at) == [id |-> count + 1, stamp |-> stamp, at |-> at, goals |-> goals]

\* Writing <index>.parquet: it succeeds, cannot create the file, or is torn half way.
WriteFile(rows) ==
  \/ /\ files' = [i \in DOMAIN files \cup {index} |-> IF i = index THEN rows ELSE files[i]]
     /\ stats' = [stats EXCEPT !.saved = @ + 1]
     /\ index' = index + 1 /\ saved' = Append(saved, rows)
  \/ /\ \/ files' = [i \in DOMAIN files \cup {index} |-> IF i = index THEN Torn ELSE files[i]]
        \/ UNCHANGED files
     /\ stats' = [stats EXCEPT !.failed = @ + 1]
     /\ UNCHANGED <<index, saved>>

\* trySaveCurrentEpisode.
TrySave(sk, commands, rows) ==
  IF sk \/ commands < MinCommands
  THEN stats' = [stats EXCEPT !.discarded = @ + 1] /\ UNCHANGED <<files, index, saved>>
  ELSE WriteFile(rows)

NothingSaved == UNCHANGED <<stats, files, index, saved>>

-----------------------------------------------------------------------------
\* A frame that has not exactly two images is dropped.
DropFrame ==
  /\ \E stamp \in 1..MaxStamp : Arrives(stamp)
  /\ UNCHANGED <<count, lastGoals, commandsCnt, lastMovement, index, start, skip, buffer,
                 stats, pc, files, output, saved>>

\* Outside of an episode: a change of the goals starts one (startNewEpisode).
FrameOutside(stamp, goals) ==
  /\ start = 0 /\ Accepted(stamp)
  /\ lastGoals' = goals
  /\ IF HasCommandsChanged(goals)
     THEN /\ start' = stamp /\ lastMovement' = stamp /\ commandsCnt' = 1
          /\ buffer' = <<Row(stamp, goals, 0)>>
          /\ stats' = [stats EXCEPT !.started = @ + 1]
     ELSE UNCHANGED <<start, lastMovement, commandsCnt, buffer, stats>>
  /\ UNCHANGED <<skip, index, pc, files, output, saved>>

\* Mutant: the gap is measured as a signed difference.
GapSigned(at) == at - Last(buffer).at > MaxGap
\* The gap to the last frame in the buffer exceeds 500 ms.
Gap(at) == Minus(at, Last(buffer).at) > MaxGap

\* The episode is long enough and no goal changed for a while.
EpisodeOver(at, stamp, moved) ==
  /\ AsDuration(at) >= Duration
  /\ AsDuration(Minus(stamp, moved)) >= Quiet

ResetEpisode == start' = 0 /\ skip' = FALSE /\ commandsCnt' = 0 /\ buffer' = <<>>

\* Inside of an episode.
FrameInside(stamp, goals) ==
  LET changed  == HasCommandsChanged(goals)
      commands == IF changed THEN commandsCnt + 1 ELSE commandsCnt
      moved    == IF changed THEN stamp ELSE lastMovement
      at       == Minus(stamp, start)
      skipped  == skip \/ (buffer # <<>> /\ Gap(at))
      rows     == IF skipped THEN buffer ELSE Append(buffer, Row(stamp, goals, at))
  IN /\ start # 0 /\ Accepted(stamp)
     /\ lastGoals' = IF changed THEN goals ELSE lastGoals
     /\ lastMovement' = moved
     /\ IF EpisodeOver(at, stamp, moved)
        THEN TrySave(skipped, commands, rows) /\ ResetEpisode
        ELSE /\ NothingSaved
             /\ start' = start /\ skip' = skipped /\ commandsCnt' = commands /\ buffer' = rows
     /\ UNCHANGED <<pc, output>>

ProcessFrame == \E stamp \in 1..MaxStamp, goals \in Goals :
                  FrameOutside(stamp, goals) \/ FrameInside(stamp, goals)

-----------------------------------------------------------------------------
recording == <<now, boot, count, lastGoals, commandsCnt, lastMovement, start, skip, buffer>>

\* Finalize: the open episode is saved or discarded; mergeParquetFiles follows when there
\* are files.
Finalize ==
  /\ pc = "frames"
  /\ IF start # 0 THEN TrySave(skip, commandsCnt, buffer) ELSE NothingSaved
  /\ pc' = IF index' = 0 THEN "ended" ELSE "merge"
  /\ UNCHANGED <<recording, output>>

\* mergeParquetFiles opens the numbered files and creates the output.
OpenFiles ==
  /\ pc = "merge" /\ \A i \in 0..(index - 1) : i \in DOMAIN files /\ files[i] # Torn
  /\ output' = Torn /\ pc' = "copy"
  /\ UNCHANGED <<recording, index, stats, files, saved>>

\* Mutant: the files are removed although the writer may have failed to close.
CopyRowsUnclosed ==
  /\ pc = "copy"
  /\ pc' = "cleanup" /\ output' \in {Torn, [i \in 1..index |-> files[i - 1]]}
  /\ UNCHANGED <<recording, index, stats, files, saved>>
\* CopyRows of every row group, then writer.Close.
CopyRows ==
  /\ pc = "copy"
  /\ output' = [i \in 1..index |-> files[i - 1]] /\ pc' = "cleanup"
  /\ UNCHANGED <<recording, index, stats, files, saved>>

\* Opening, creating, copying or closing fails: the files stay.
MergeFails ==
  /\ pc \in {"merge", "copy"}
  /\ pc' = "ended"
  /\ UNCHANGED <<recording, index, stats, files, output, saved>>

\* os.Remove of the next numbered file; its error is ignored.
RemoveFile ==
  /\ pc = "cleanup"
  /\ \E i \in 0..(index - 1) :
       /\ i \in DOMAIN files /\ \A j \in 0..(i - 1) : j \notin DOMAIN files
       /\ files' = [j \in DOMAIN files \ {i} |-> files[j]]
  /\ UNCHANGED <<recording, index, stats, pc, output, saved>>

\* The loop and the removal of the directory are over, whatever could be removed.
CleanupEnds ==
  /\ pc = "cleanup" /\ pc' = "ended"
  /\ UNCHANGED <<recording, index, stats, files, output, saved>>

\* The stream failed (runProcessing returns without Finalize) or the process is killed.
Killed ==
  /\ pc # "ended" /\ pc' = "ended"
  /\ UNCHANGED <<recording, index, stats, files, output, saved>>

Ended == pc = "ended" /\ UNCHANGED vars

Next == DropFrame \/ ProcessFrame \/ Finalize \/ OpenFiles \/ CopyRows \/ MergeFails
        \/ RemoveFile \/ CleanupEnds \/ Killed \/ Ended

Spec == Init /\ [][Next]_vars

-----------------------------------------------------------------------------
\* Outside of an episode nothing is buffered, inside at least its first frame is: the code
\* indexes buffer[0] without a check.
BufferedInEpisode == start = 0 <=> buffer = <<>>

\* A saved episode is a run of frames without a gap: no accepted frame of the recording is
\* missing between two rows, and their stamps never go back nor jump by more than 500 ms,
\* although the clock may start again in the middle of an episode.
SavedContiguous ==
  \A e \in 1..Len(saved) : \A i \in 1..(Len(saved[e]) - 1) :
    LET a == saved[e][i]  b == saved[e][i + 1]
    IN /\ b.id = a.id + 1
       /\ a.stamp <= b.stamp /\ b.stamp - a.stamp <= MaxGap
       /\ b.at - a.at = b.stamp - a.stamp

\* The goals differ from those of the row before.
ChangedAt(rows, i) == i > 1 /\ rows[i].goals # rows[i - 1].goals

\* A saved episode holds at least MinCommands changes of the goals, the one that started it
\* included.
SavedHasCommands ==
  \A e \in 1..Len(saved) :
    1 + Cardinality({i \in 1..Len(saved[e]) : ChangedAt(saved[e], i)}) >= MinCommands

\* An episode that was saved before the end of the stream lasts for Duration and ends with
\* Quiet without a change, unless a frame without joints came in between.
SavedIsWhole ==
  \A e \in 1..Len(saved) :
    LET rows == saved[e]
    IN \/ Last(rows).stamp - Head(rows).stamp >= Duration
          /\ \A i \in 1..Len(rows) : ChangedAt(rows, i) => Last(rows).stamp - rows[i].stamp >= Quiet
       \/ \E i \in 1..Len(rows) : rows[i].goals = NoGoals
       \/ e = Len(saved) /\ pc # "frames"

\* Every episode that was started is saved, discarded, failed to be written or is open; a
\* process that was killed may leave one open.
Accounting ==
  LET open == stats.started - stats.saved - stats.discarded - stats.failed
  IN /\ open \in {0, 1} /\ (open = 1 => start # 0)
     /\ pc = "frames" => (open = 1 <=> start # 0)
     /\ pc \in {"merge", "copy", "cleanup"} => open = 0

\* Nothing that was reported as saved is ever lost: each episode is whole in its own file
\* or all of them are in the merged file, wherever the process stops.
NothingLost ==
  \/ output = saved
  \/ \A e \in 1..Len(saved) : e - 1 \in DOMAIN files /\ files[e - 1] = saved[e]
=============================================================================
