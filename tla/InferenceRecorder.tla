-------------------------- MODULE InferenceRecorder --------------------------
(***************************************************************************)
(* The inference recorder of software/station/bin/station/src/inference/   *)
(* mod.rs: subscription callbacks note the newest pointer of their queue   *)
(* in latest_pointers and signal a worker thread, which publishes all      *)
(* pointers as one entry of the inference-states queue.                    *)
(*                                                                         *)
(* The Mutex<bool> guards only the Boolean, so each critical section is    *)
(* one step; latest_pointers and the shutdown channel are accessed outside *)
(* of it, and iterating the DashMap is one step per key.  NormFS calls a   *)
(* queue's callback for one batch at a time, in order (external).          *)
(***************************************************************************)
EXTENDS Naturals

CONSTANTS Queues,     \* the registered queues
          MaxPointer  \* bound: entries written to a queue

ASSUME RecorderAssumption == MaxPointer \in Nat

VARIABLES
  latest,     \* latest_pointers: newest pointer per queue, 0 when there is no key
  cbpc,       \* each queue's callback: "idle", or "noted" between insert and signal
  signaled,   \* the Boolean under the Mutex
  wpc,        \* the worker: test, asleep (in cvar.wait), snapshot, exited
  todo,       \* keys that the iteration has still to visit
  snap,       \* the entries collected by the last iteration
  published,  \* the last entry of inference-states
  dropped,    \* history: pointers whose enqueue failed, which is only logged
  stop        \* shutdown(): "no", "sent" (shutdown_tx), "signaled"

recorderVars == <<latest, cbpc, signaled, wpc, todo, snap, published, dropped, stop>>

RecorderInit ==
  /\ latest = [q \in Queues |-> 0] /\ cbpc = [q \in Queues |-> "idle"]
  /\ signaled = FALSE /\ wpc = "test" /\ todo = {}
  /\ snap = [q \in Queues |-> 0]
  /\ published = [q \in Queues |-> 0] /\ dropped = [q \in Queues |-> 0]
  /\ stop = "no"

-----------------------------------------------------------------------------
\* The callback inserts the newest pointer.
Note(q) ==
  /\ cbpc[q] = "idle" /\ latest[q] < MaxPointer
  /\ latest' = [latest EXCEPT ![q] = @ + 1]
  /\ cbpc' = [cbpc EXCEPT ![q] = "noted"]
  /\ UNCHANGED <<signaled, wpc, todo, snap, published, dropped, stop>>

\* Mutant: the condition variable is notified but the Boolean is not set.
NotifyUnset ==
  /\ UNCHANGED signaled
  /\ wpc' = IF wpc = "asleep" THEN "test" ELSE wpc

\* lock; *signaled = true; notify_one.  The worker is the only waiter.
Notify ==
  /\ signaled' = TRUE
  /\ wpc' = IF wpc = "asleep" THEN "test" ELSE wpc

\* The callback signals the worker.
Signal(q) ==
  /\ cbpc[q] = "noted"
  /\ cbpc' = [cbpc EXCEPT ![q] = "idle"]
  /\ Notify
  /\ UNCHANGED <<latest, todo, snap, published, dropped, stop>>

\* shutdown() first sends on the channel, then signals.
ShutdownSend ==
  /\ stop = "no" /\ stop' = "sent"
  /\ UNCHANGED <<latest, cbpc, signaled, wpc, todo, snap, published, dropped>>

ShutdownSignal ==
  /\ stop = "sent" /\ stop' = "signaled"
  /\ Notify
  /\ UNCHANGED <<latest, cbpc, todo, snap, published, dropped>>

-----------------------------------------------------------------------------
\* while !*signaled { cvar.wait }
Sleep ==
  /\ wpc = "test" /\ ~signaled
  /\ wpc' = "asleep"
  /\ UNCHANGED <<latest, cbpc, signaled, todo, snap, published, dropped, stop>>

\* Signalled: leave when shutdown was requested, else clear the flag and unlock.
Claim ==
  /\ wpc = "test" /\ signaled
  /\ IF stop # "no"
     THEN wpc' = "exited" /\ UNCHANGED <<signaled, todo>>
     ELSE wpc' = "snapshot" /\ signaled' = FALSE /\ todo' = Queues
  /\ UNCHANGED <<latest, cbpc, snap, published, dropped, stop>>

\* The iteration of latest_pointers reads one key.
ReadPointer(q) ==
  /\ wpc = "snapshot" /\ q \in todo
  /\ snap' = [snap EXCEPT ![q] = latest[q]]
  /\ todo' = todo \ {q}
  /\ UNCHANGED <<latest, cbpc, signaled, wpc, published, dropped, stop>>

\* Mutants: the worker goes to sleep without looking at the flag again; the published
\* pointers are those of the next entries.
EnqueueThenSleep(ok) ==
  /\ wpc = "snapshot" /\ todo = {}
  /\ wpc' = "asleep"
  /\ published' = IF ok THEN snap ELSE published
  /\ dropped' = IF ok THEN dropped ELSE snap
  /\ UNCHANGED <<latest, cbpc, signaled, todo, snap, stop>>
EnqueueAhead(ok) ==
  /\ wpc = "snapshot" /\ todo = {}
  /\ wpc' = "test"
  /\ published' = IF ok THEN [q \in Queues |-> snap[q] + 1] ELSE published
  /\ dropped' = IF ok THEN dropped ELSE snap
  /\ UNCHANGED <<latest, cbpc, signaled, todo, snap, stop>>

\* The entry is enqueued (it cannot be empty: a signal follows an insert) and the lock is
\* taken again.  A failed enqueue is logged and forgotten.
Enqueue(ok) ==
  /\ wpc = "snapshot" /\ todo = {}
  /\ wpc' = "test"
  /\ published' = IF ok THEN snap ELSE published
  /\ dropped' = IF ok THEN dropped ELSE snap
  /\ UNCHANGED <<latest, cbpc, signaled, todo, snap, stop>>

Worker == Sleep \/ Claim \/ (\E q \in Queues : ReadPointer(q)) \/ (\E ok \in BOOLEAN : Enqueue(ok))

RecorderNext ==
  \/ \E q \in Queues : Note(q) \/ Signal(q)
  \/ ShutdownSend \/ ShutdownSignal
  \/ Worker

RecorderSpec == RecorderInit /\ [][RecorderNext]_recorderVars

\* The callbacks, the caller of shutdown() and the worker thread are scheduled; nobody is
\* obliged to write to a queue or to call shutdown().
RecorderFairSpec ==
  /\ RecorderSpec
  /\ WF_recorderVars(Worker) /\ WF_recorderVars(ShutdownSignal)
  /\ \A q \in Queues : WF_recorderVars(Signal(q))

-----------------------------------------------------------------------------
\* Type invariant.
RecorderTypeOK ==
  /\ latest \in [Queues -> Nat] /\ cbpc \in [Queues -> {"idle", "noted"}]
  /\ signaled \in BOOLEAN /\ wpc \in {"test", "asleep", "snapshot", "exited"}
  /\ todo \subseteq Queues
  /\ snap \in [Queues -> Nat] /\ published \in [Queues -> Nat] /\ dropped \in [Queues -> Nat]
  /\ stop \in {"no", "sent", "signaled"}

\* A pointer is on its way to the worker when its callback has still to signal.
Covered(q) == snap[q] = latest[q] \/ cbpc[q] = "noted"

\* No lost wakeup: the worker is asleep in cvar.wait only when every pointer is in the
\* last snapshot or will still be signalled, and never after shutdown() has returned.
SleepsInPeace ==
  wpc = "asleep" => (\A q \in Queues : Covered(q)) /\ stop # "signaled"

\* The recorder keeps what readers of inference-states rely on: published pointers exist
\* and never go back, although the snapshot is not atomic.
Abstract == INSTANCE LatestPointers
KeepsPromise == Abstract!Promise

\* Every pointer is published in the end (it or a newer one), unless the entry that held
\* it was refused by NormFS or the recorder is shut down.
EveryPointerRecorded ==
  \A q \in Queues : \A n \in 1..MaxPointer :
    latest[q] = n ~> published[q] >= n \/ dropped[q] >= n \/ stop # "no"

\* shutdown() ends the worker thread.
ShutdownEnds == stop = "sent" ~> wpc = "exited"
=============================================================================
