---------------------------- MODULE FrameStream ----------------------------
(***************************************************************************)
(* StreamFrames of software/station/bin/dataset-generator/internal/        *)
(* source.go: a goroutine reads the frame queue between two pointers batch *)
(* by batch and sends the frames that decode over a bounded channel.  The  *)
(* consumer is left to DatasetGenerator; here it only takes frames.        *)
(***************************************************************************)
EXTENDS Naturals, Sequences, SequencesExt

CONSTANTS ReadBatchSize,  \* readBatchSize, 10000 in the code
          Capacity,       \* of the channel frames, 1000 in the code
          MaxId           \* bound: entries of the frame queue

VARIABLES
  good,      \* for each entry of the queue, whether it unmarshals
  bounds,    \* QueueBounds: both ends are entries of the queue, in either order
  spc,       \* the goroutine: before ReadFromOffset, in the batch, returned
  cursor,    \* the last frame sent, or the offset of the next read
  next,      \* the entry that res.Data delivers next
  received,  \* entriesReceived
  frames,    \* the channel
  failed,    \* an error was sent on errChan
  taken      \* history: frames received by the consumer

streamVars == <<good, bounds, spc, cursor, next, received, frames, failed, taken>>

StreamInit ==
  /\ \E n \in 1..MaxId : good \in [1..n -> BOOLEAN]
  /\ \E f, t \in DOMAIN good : bounds = [from |-> f, to |-> t]
  /\ spc = "read" /\ cursor = bounds.from /\ next = 0 /\ received = 0
  /\ frames = <<>> /\ failed = FALSE /\ taken = <<>>

-----------------------------------------------------------------------------
\* ReadFromOffset(queue, cursor, ReadBatchSize).
OpenBatch ==
  /\ spc = "read"
  /\ spc' = "batch" /\ next' = cursor /\ received' = 0
  /\ UNCHANGED <<good, bounds, cursor, frames, failed, taken>>

\* The batch delivers one entry.
Delivered == /\ spc = "batch" /\ received < ReadBatchSize /\ next \in DOMAIN good
             /\ next' = next + 1 /\ received' = received + 1

\* An entry after bounds.To ends the stream.
PassEnd ==
  /\ Delivered /\ next > bounds.to
  /\ spc' = "returned"
  /\ UNCHANGED <<good, bounds, cursor, frames, failed, taken>>

\* An entry that does not unmarshal is skipped; the cursor stays.
SkipBad ==
  /\ Delivered /\ next <= bounds.to /\ ~good[next]
  /\ UNCHANGED <<good, bounds, spc, cursor, frames, failed, taken>>

\* A frame is sent, when the channel has room.
SendFrame ==
  /\ Delivered /\ next <= bounds.to /\ good[next]
  /\ Len(frames) < Capacity
  /\ frames' = Append(frames, next) /\ cursor' = next
  /\ UNCHANGED <<good, bounds, spc, failed, taken>>

\* The read fails: res.Data is closed and res.Err is set.
ReadError ==
  /\ spc = "batch"
  /\ spc' = "returned" /\ failed' = TRUE
  /\ UNCHANGED <<good, bounds, cursor, next, received, frames, taken>>

\* Mutant: the entry after the last one is skipped.
NextCursorSkips == cursor + 2
\* Increment cursor to avoid re-reading the last entry.
NextCursor == cursor + 1

\* res.Data is closed: the end of the data, of the range, or of the batch.
BatchEnd ==
  /\ spc = "batch" /\ (received = ReadBatchSize \/ next \notin DOMAIN good)
  /\ IF received < ReadBatchSize \/ cursor >= bounds.to
     THEN spc' = "returned" /\ UNCHANGED cursor
     ELSE spc' = "read" /\ cursor' = NextCursor
  /\ UNCHANGED <<good, bounds, next, received, frames, failed, taken>>

Streamer == OpenBatch \/ PassEnd \/ SkipBad \/ SendFrame \/ BatchEnd

\* The consumer's `for frame := range frames` receives a frame.
Take ==
  /\ frames # <<>>
  /\ taken' = Append(taken, Head(frames)) /\ frames' = Tail(frames)
  /\ UNCHANGED <<good, bounds, spc, cursor, next, received, failed>>

\* frames is closed and drained, errChan has its final content.
Closed == spc = "returned" /\ frames = <<>>

-----------------------------------------------------------------------------
\* The decodable entries from bounds.From to bounds.To.
Wanted == {i \in bounds.from..bounds.to : good[i]}

\* What has gone through the channel.
Delivery == taken \o frames

\* Frames are delivered in order, each once, none outside the range and none left out on
\* the way, although batches overlap when they end in entries that do not unmarshal.
InOrderOnce ==
  /\ \A i, k \in 1..Len(Delivery) : i < k => Delivery[i] < Delivery[k]
  /\ \A i \in 1..Len(Delivery) :
       /\ Delivery[i] \in Wanted
       /\ \A w \in Wanted : w <= Delivery[i] => \E k \in 1..i : Delivery[k] = w

\* A stream that ends without an error delivered every decodable frame of the range.
NothingMissing == spc = "returned" /\ ~failed => Wanted \subseteq ToSet(Delivery)
=============================================================================
