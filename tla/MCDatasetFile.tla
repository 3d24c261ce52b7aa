---------------------------- MODULE MCDatasetFile ----------------------------
(***************************************************************************)
(* The dataset file from both sides, for TLC: a behaviour either writes it *)
(* (EpisodeDetector) or makes a video from it (GridJobs).  What the reader *)
(* relies on, the rows of an episode side by side in their order, is what  *)
(* the writer's SavedContiguous and NothingLost say of the file.           *)
(***************************************************************************)
EXTENDS Naturals, Sequences

CONSTANTS Word, MaxGap, Quiet, Duration, MinCommands, Goals, NoGoals, Torn, Absent,
          MaxStamp, FrameBound, MaxBoots,   \* see EpisodeDetector
          GridSize, MaxRows, NoEpisode      \* see GridJobs

\* The stamps of one boot and the gap stay below the range of uint64, so that only a stamp
\* that lies before another makes their difference wrap.
ASSUME FileAssumption ==
  /\ Word \in Nat /\ MaxGap \in Nat /\ Quiet \in Nat /\ Duration \in Nat /\ MinCommands \in Nat
  /\ MaxStamp \in Nat /\ MaxStamp + MaxGap < Word
  /\ GridSize \in Nat \ {0} /\ MaxRows \in Nat

\* nil is neither a list of frames nor an episode.
ASSUME NilAssumption ==
  /\ NoEpisode \notin Seq(Nat)
  /\ NoEpisode \notin [start : Nat, frames : Seq(Nat) \cup {NoEpisode}, num : Nat]

VARIABLES
  part,                                     \* write or read
  now, boot, count, lastGoals, commandsCnt, lastMovement, index, start, skip,
  buffer, stats, pc, files, output, saved,  \* see EpisodeDetector
  rows, read, current, episodes, gridPc, gridIdx, frameIdx, jobs  \* see GridJobs

Writer == INSTANCE EpisodeDetector
Reader == INSTANCE GridJobs WITH pc <- gridPc

writerVars == <<now, boot, count, lastGoals, commandsCnt, lastMovement, index, start, skip,
                buffer, stats, pc, files, output, saved>>
readerVars == <<rows, read, current, episodes, gridPc, gridIdx, frameIdx, jobs>>
vars == <<part, writerVars, readerVars>>

Init ==
  /\ part \in {"write", "read"}
  /\ Writer!Init /\ Reader!Init
  /\ part = "write" => rows = <<>>

Next ==
  \/ part = "write" /\ Writer!Next /\ UNCHANGED <<part, readerVars>>
  \/ part = "read" /\ Reader!Next /\ UNCHANGED <<part, writerVars>>

Spec == Init /\ [][Next]_vars

-----------------------------------------------------------------------------
\* A saved episode is what an episode should be: without a hole, with enough commands,
\* long enough and quiet at its end, see EpisodeDetector.
SavedQualifies ==
  /\ Writer!BufferedInEpisode
  /\ Writer!SavedContiguous /\ Writer!SavedHasCommands /\ Writer!SavedIsWhole
\* Every episode that was started is accounted for, and what was saved is in a file wherever
\* the process stops, see EpisodeDetector.
NothingLost == Writer!Accounting /\ Writer!NothingLost

\* The video shows the recordings without a bad row, all of them and nothing else, see
\* GridJobs.
VideoExact == Reader!EpisodesExact /\ Reader!VideoExact /\ Reader!NoBlackFrame
=============================================================================
