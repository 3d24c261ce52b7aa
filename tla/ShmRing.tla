------------------------------ MODULE ShmRing ------------------------------
(***************************************************************************)
(* drivers/inferences/src/lib.rs: the frames of an inference channel in    *)
(* shared memory.  A callback of the inference-states queue passes on      *)
(* entries that are an interval apart; a task makes frames of them and     *)
(* copies each into the next of N buffers, then sets the size and stamp of *)
(* its header and, behind a fence, its sequence.  The memory outlives the  *)
(* station: a new one finds what the old one left and resets the headers,  *)
(* one by one.                                                             *)
(*                                                                         *)
(* A frame is its time stamp; the words of a buffer hold the frame they    *)
(* were copied from, and are copied in any order.  Stores are seen in      *)
(* program order, which the fence and the mutex give.  The size is written *)
(* and read with the stamp.                                                *)
(*                                                                         *)
(* The reader is another program.  It takes the sequence and the stamp of  *)
(* a buffer, copies its words, and accepts them when the buffer before     *)
(* still holds the frame before and then its own header is unchanged.      *)
(***************************************************************************)
EXTENDS Integers, Sequences

CONSTANTS
  N,         \* BUFFER_COUNT
  Words,     \* words of a buffer
  Interval,  \* update interval
  Unset,     \* u64::MAX as a sequence
  MaxStamp   \* bound: the last time stamp

ASSUME RingAssumption ==
  /\ N \in Nat /\ N >= 2 /\ Interval \in Nat /\ MaxStamp \in Nat
  /\ Unset \notin Nat

VARIABLES
  now,       \* the newest stamp
  last,      \* last_timestamp_ns of the channel
  pending,   \* entries sent to the task and not yet taken
  pc,        \* init, idle, copy, publish
  at,        \* header to be reset
  writeIdx, idx, frame, left,            \* write_idx; index, frame and words still to copy
  sequence, stamp, data,                 \* the shared memory
  rpc, rbuf, rseq, rstamp, rleft, rdata  \* the reader

ring == <<sequence, stamp, data>>
writer == <<pc, at, writeIdx, idx, frame, left>>
channel == <<now, last, pending>>
reader == <<rpc, rbuf, rseq, rstamp, rleft, rdata>>
vars == <<channel, writer, ring, reader>>

Buffers == 0..(N - 1)
Before(b) == (b + N - 1) % N
Slot(i) == i % N    \* buffer_idx

Init ==
  /\ now = 0 /\ last = 0 /\ pending = <<>>
  /\ pc = "init" /\ at = 0 /\ writeIdx = 0 /\ idx = 0 /\ frame = 0 /\ left = {}
  /\ sequence = [b \in Buffers |-> 0]    \* a new file is full of zeros
  /\ stamp = [b \in Buffers |-> 0]
  /\ data = [b \in Buffers |-> [w \in Words |-> 0]]
  /\ rpc = "idle" /\ rbuf = 0 /\ rseq = 0 /\ rstamp = 0 /\ rleft = {}
  /\ rdata = [w \in Words |-> 0]

-----------------------------------------------------------------------------
\* The callback on an entry of the inference-states queue.
Entry(t) ==
  /\ pc # "init" /\ t > now /\ now' = t
  /\ IF t - last >= Interval THEN pending' = Append(pending, t) /\ last' = t
                             ELSE UNCHANGED <<pending, last>>
  /\ UNCHANGED <<writer, ring, reader>>

\* generate_frame leaves the entry out, or the frame is too large for a buffer.
Skip ==
  /\ pc = "idle" /\ pending # <<>>
  /\ pending' = Tail(pending)
  /\ UNCHANGED <<now, last, writer, ring, reader>>

\* write_bytes takes the next index.
Take ==
  /\ pc = "idle" /\ pending # <<>>
  /\ frame' = Head(pending) /\ pending' = Tail(pending)
  /\ idx' = writeIdx /\ writeIdx' = writeIdx + 1
  /\ left' = Words /\ pc' = "copy"
  /\ UNCHANGED <<now, last, at, ring, reader>>

Copy(w) ==
  /\ pc = "copy" /\ w \in left
  /\ data' = [data EXCEPT ![Slot(idx)] = [@ EXCEPT ![w] = frame]]
  /\ left' = left \ {w}
  /\ UNCHANGED <<channel, pc, at, writeIdx, idx, frame, sequence, stamp, reader>>

\* Mutant: the header is set while the data are still being copied.
StampEarly ==
  /\ pc = "copy"
  /\ stamp' = [stamp EXCEPT ![Slot(idx)] = frame]
  /\ pc' = "publish"
  /\ UNCHANGED <<channel, at, writeIdx, idx, frame, left, sequence, data, reader>>
Stamp ==
  /\ pc = "copy" /\ left = {}
  /\ stamp' = [stamp EXCEPT ![Slot(idx)] = frame]
  /\ pc' = "publish"
  /\ UNCHANGED <<channel, at, writeIdx, idx, frame, left, sequence, data, reader>>

Publish ==
  /\ pc = "publish"
  /\ sequence' = [sequence EXCEPT ![Slot(idx)] = idx]
  /\ pc' = "idle"
  /\ UNCHANGED <<channel, at, writeIdx, idx, frame, left, stamp, data, reader>>

\* The station ends at any point and is started again.
Crash ==
  /\ pc # "init"
  /\ pc' = "init" /\ at' = 0 /\ left' = {} /\ last' = 0 /\ pending' = <<>>
  /\ UNCHANGED <<now, writeIdx, idx, frame, ring, reader>>

\* ShmWriter::new.
Reset ==
  /\ pc = "init" /\ at < N
  /\ sequence' = [sequence EXCEPT ![at] = Unset]
  /\ at' = at + 1
  /\ UNCHANGED <<channel, pc, writeIdx, idx, frame, left, stamp, data, reader>>

Started ==
  /\ pc = "init" /\ at = N
  /\ pc' = "idle" /\ writeIdx' = 0
  /\ UNCHANGED <<channel, at, idx, frame, left, ring, reader>>

-----------------------------------------------------------------------------
ReadSequence(b) ==
  /\ rpc \in {"idle", "accepted"} /\ sequence[b] # Unset
  /\ rbuf' = b /\ rseq' = sequence[b] /\ rpc' = "stamp"
  /\ UNCHANGED <<channel, writer, ring, rstamp, rleft, rdata>>

ReadStamp ==
  /\ rpc = "stamp"
  /\ rstamp' = stamp[rbuf] /\ rleft' = Words /\ rpc' = "copy"
  /\ UNCHANGED <<channel, writer, ring, rbuf, rseq, rdata>>

ReadWord(w) ==
  /\ rpc = "copy" /\ w \in rleft
  /\ rdata' = [rdata EXCEPT ![w] = data[rbuf][w]] /\ rleft' = rleft \ {w}
  /\ UNCHANGED <<channel, writer, ring, rpc, rbuf, rseq, rstamp>>

\* Whether the buffer before b holds the frame before sequence s.
Follows(b, s) == sequence[Before(b)] = IF s = 0 THEN Unset ELSE s - 1

CheckBefore ==
  /\ rpc = "copy" /\ rleft = {}
  /\ rpc' = IF Follows(rbuf, rseq) THEN "own" ELSE "idle"
  /\ UNCHANGED <<channel, writer, ring, rbuf, rseq, rstamp, rleft, rdata>>

CheckOwn ==
  /\ rpc = "own"
  /\ rpc' = IF sequence[rbuf] = rseq /\ stamp[rbuf] = rstamp THEN "accepted" ELSE "idle"
  /\ UNCHANGED <<channel, writer, ring, rbuf, rseq, rstamp, rleft, rdata>>

Write == Skip \/ Take \/ (\E w \in Words : Copy(w)) \/ Stamp \/ Publish \/ Reset \/ Started

Read == \/ \E b \in Buffers : ReadSequence(b)
        \/ ReadStamp \/ (\E w \in Words : ReadWord(w)) \/ CheckBefore \/ CheckOwn

Next == (\E t \in 1..MaxStamp : Entry(t)) \/ Write \/ Crash \/ Read

Spec == Init /\ [][Next]_vars

-----------------------------------------------------------------------------
Written == pc \in {"copy", "publish"}

\* Type invariant.
TypeOK ==
  /\ now \in Nat /\ last \in Nat /\ pending \in Seq(Nat)
  /\ pc \in {"init", "idle", "copy", "publish"} /\ at \in 0..N
  /\ writeIdx \in Nat /\ idx \in Nat /\ frame \in Nat /\ left \subseteq Words
  /\ sequence \in [Buffers -> Nat \cup {Unset}] /\ stamp \in [Buffers -> Nat]
  /\ data \in [Buffers -> [Words -> Nat]]
  /\ rpc \in {"idle", "stamp", "copy", "own", "accepted"}
  /\ rbuf \in Buffers /\ rseq \in Nat /\ rstamp \in Nat /\ rleft \subseteq Words
  /\ rdata \in [Words -> Nat]

\* As long as the buffer before holds the frame before, a buffer holds all of the frame
\* that its header names, also in the midst of a write and after a crash in one.
FrameWhole ==
  \A b \in Buffers :
    sequence[b] # Unset /\ Follows(b, sequence[b]) => \A w \in Words : data[b][w] = stamp[b]

\* What the reader accepts is one frame and the one that the header named, whatever was
\* written, or crashed and was started again, while it read.
Untorn == rpc = "accepted" => \A w \in Words : rdata[w] = rstamp

=============================================================================
