------------------------------ MODULE GridJobs ------------------------------
(***************************************************************************)
(* The sequential half of software/station/bin/dataset-mp4/dataset-mp4.go: *)
(* collectEpisodes cuts the rows of the merged dataset into episodes, and  *)
(* main lays the episodes out in grids and numbers the frames of the       *)
(* video, one render job each.  A row is its place in the file; of its     *)
(* contents the episode's start and whether it has exactly two images are  *)
(* kept.                                                                   *)
(***************************************************************************)
EXTENDS Naturals, Sequences, FiniteSets, SequencesExt, FiniteSetsExt

CONSTANTS GridSize,    \* gridCols * gridRows
          MaxRows,     \* bound: rows of the file
          NoEpisode    \* currentEpisode = nil, and frames = nil

VARIABLES
  rows,        \* the file: start and two (images) of each row
  read,        \* rows read so far
  current,     \* currentEpisode: startNS and frames
  episodes,    \* the episodes collected: frames and episodeNum
  pc,          \* collect, grid, frames, closed
  gridIdx, frameIdx,
  jobs         \* the render jobs sent so far; a job's place is its frameIndex

vars == <<rows, read, current, episodes, pc, gridIdx, frameIdx, jobs>>

\* The rows of an episode are adjacent and episodes are in the order of their starts.
Init ==
  /\ \E n \in 0..MaxRows : rows \in [1..n -> [start : 1..MaxRows, two : BOOLEAN]]
  /\ \A i \in 1..Len(rows) : rows[i].start = 1 \/ \E j \in 1..(i - 1) : rows[j].start = rows[i].start - 1
  /\ \A i \in 2..Len(rows) : rows[i - 1].start <= rows[i].start
  /\ read = 0 /\ current = NoEpisode /\ episodes = <<>>
  /\ pc = "collect" /\ gridIdx = 0 /\ frameIdx = 0 /\ jobs = <<>>

-----------------------------------------------------------------------------

\* Save the previous episode if valid.
SavePrevious ==
  IF current # NoEpisode /\ current.frames \notin {NoEpisode, <<>>}
  THEN Append(episodes, [frames |-> current.frames, num |-> current.num])
  ELSE episodes

\* The frames of the episode after row i: one row without two images makes it invalid.
FramesWith(ep, i) ==
  IF rows[i].two /\ ep.frames # NoEpisode THEN Append(ep.frames, i) ELSE NoEpisode

\* One row of a batch.
CollectRow ==
  LET i == read + 1
      fresh == current = NoEpisode \/ rows[i].start # current.start
      eps == IF fresh THEN SavePrevious ELSE episodes
      ep == IF fresh THEN [start |-> rows[i].start, frames |-> <<>>, num |-> Len(eps) + 1]
                     ELSE current
  IN /\ pc = "collect" /\ i <= Len(rows)
     /\ read' = i /\ episodes' = eps
     /\ current' = [ep EXCEPT !.frames = FramesWith(ep, i)]
     /\ UNCHANGED <<rows, pc, gridIdx, frameIdx, jobs>>

\* The last episode is saved if valid.
CollectEnds ==
  /\ pc = "collect" /\ read = Len(rows)
  /\ episodes' = SavePrevious /\ pc' = "grid"
  /\ UNCHANGED <<rows, read, current, gridIdx, frameIdx, jobs>>

-----------------------------------------------------------------------------
\* Mutant: the last, incomplete grid is dropped.
NumGridsDown == Len(episodes) \div GridSize
NumGrids == (Len(episodes) + GridSize - 1) \div GridSize

\* gridEpisodes.
GridEpisodes ==
  LET from == gridIdx * GridSize
  IN SubSeq(episodes, from + 1, Min({from + GridSize, Len(episodes)}))

MaxFrames == Max({0} \cup {Len(GridEpisodes[i].frames) : i \in DOMAIN GridEpisodes})

\* An empty cell is a black screen, with number 0.
Cell(i) ==
  IF i <= Len(GridEpisodes) /\ frameIdx < Len(GridEpisodes[i].frames)
  THEN [frame |-> GridEpisodes[i].frames[frameIdx + 1], num |-> GridEpisodes[i].num]
  ELSE [frame |-> 0, num |-> 0]

NextGrid ==
  /\ pc = "grid" /\ gridIdx < NumGrids
  /\ pc' = "frames" /\ frameIdx' = 0
  /\ UNCHANGED <<rows, read, current, episodes, gridIdx, jobs>>

SendJob ==
  /\ pc = "frames" /\ frameIdx < MaxFrames
  /\ jobs' = Append(jobs, [i \in 1..GridSize |-> Cell(i)])
  /\ frameIdx' = frameIdx + 1
  /\ UNCHANGED <<rows, read, current, episodes, pc, gridIdx>>

GridEnds ==
  /\ pc = "frames" /\ frameIdx = MaxFrames
  /\ pc' = "grid" /\ gridIdx' = gridIdx + 1
  /\ UNCHANGED <<rows, read, current, episodes, frameIdx, jobs>>

CloseJobs ==
  /\ pc = "grid" /\ gridIdx = NumGrids
  /\ pc' = "closed"
  /\ UNCHANGED <<rows, read, current, episodes, gridIdx, frameIdx, jobs>>

Closed == pc = "closed" /\ UNCHANGED vars

Next == CollectRow \/ CollectEnds \/ NextGrid \/ SendJob \/ GridEnds \/ CloseJobs \/ Closed

Spec == Init /\ [][Next]_vars

-----------------------------------------------------------------------------

\* The rows of the recording with this start, all of which have two images.
Valid(s) == \A i \in 1..Len(rows) : rows[i].start = s => rows[i].two

\* The rows of the recording with this start.
RowsOf(s) == {i \in 1..Len(rows) : rows[i].start = s}

\* The episodes are exactly the recordings without a bad row, each with all its rows in
\* order, numbered 1, 2, ... in the order of the file (collectEpisodes).
EpisodesExact ==
  pc # "collect" =>
    /\ \A e \in 1..Len(episodes) :
         /\ episodes[e].num = e
         /\ \A j, k \in 1..Len(episodes[e].frames) : j < k => episodes[e].frames[j] < episodes[e].frames[k]
         /\ \E s \in 1..MaxRows : /\ Valid(s) /\ RowsOf(s) # {}
                                 /\ ToSet(episodes[e].frames) = RowsOf(s)
    /\ \A d, e \in 1..Len(episodes) : d < e => episodes[d].frames[1] < episodes[e].frames[1]
    /\ \A i \in 1..Len(rows) : Valid(rows[i].start) =>
         \E e \in 1..Len(episodes) : i \in ToSet(episodes[e].frames)

\* The frames in which row r is shown, with the cell.
ShownIn(r) == {p \in (1..Len(jobs)) \X (1..GridSize) : jobs[p[1]][p[2]].frame = r}

\* Every row of an episode is shown in exactly one cell of the video; the rows of an
\* episode stay in one cell, frame after frame, under the episode's number; nothing else
\* is shown.
VideoExact ==
  pc = "closed" =>
    /\ \A e \in 1..Len(episodes) : \E p \in (1..Len(jobs)) \X (1..GridSize) :
         \A k \in 1..Len(episodes[e].frames) :
           /\ ShownIn(episodes[e].frames[k]) = {<<p[1] + k - 1, p[2]>>}
           /\ jobs[p[1] + k - 1][p[2]].num = e
    /\ \A p \in (1..Len(jobs)) \X (1..GridSize) :
         LET c == jobs[p[1]][p[2]]
         IN c.frame = 0 \/ \E e \in 1..Len(episodes) : c.frame \in ToSet(episodes[e].frames)

\* No frame of the video is black in every cell.
NoBlackFrame == \A j \in 1..Len(jobs) : \E i \in 1..GridSize : jobs[j][i].num # 0
=============================================================================
