--------------------------- MODULE LatestPointers ---------------------------
(***************************************************************************)
(* What the inference recorder of the station promises its readers,        *)
(* whatever its threads do: the inference-states queue holds, for every    *)
(* registered queue, pointers that exist and that never go back.           *)
(* InferenceRecorder is the implementation.                                *)
(***************************************************************************)
EXTENDS Naturals

CONSTANTS Queues,     \* the registered queues
          MaxPointer  \* bound: entries written to a queue

VARIABLES latest,     \* the newest entry of each queue, 0 for none
          published   \* the pointers of the last published entry

absVars == <<latest, published>>

Start == /\ latest = [q \in Queues |-> 0]
         /\ published = [q \in Queues |-> 0]

\* A driver appends to a queue.
Grow(q) ==
  /\ latest[q] < MaxPointer
  /\ latest' = [latest EXCEPT ![q] = @ + 1]
  /\ UNCHANGED published

\* A set of pointers is published: each one lies between the one published before and
\* the newest entry.  They need not be a cut that existed at one moment.
Publish ==
  /\ published' \in [Queues -> Nat]
  /\ \A q \in Queues : published[q] <= published'[q] /\ published'[q] <= latest[q]
  /\ UNCHANGED latest

Promise == Start /\ [][(\E q \in Queues : Grow(q)) \/ Publish]_absVars
=============================================================================
