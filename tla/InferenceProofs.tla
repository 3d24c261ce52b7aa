-------------------------- MODULE InferenceProofs --------------------------
(***************************************************************************)
(* Proofs about the two ends of the inference-states queue: the recorder   *)
(* that fills it (InferenceRecorder) and the ring of frames in shared      *)
(* memory that is filled from it (ShmRing).                                *)
(*                                                                         *)
(* The recorder, for every set of queues: types, that no wakeup is lost    *)
(* (WakeInv), and the refinement of what its readers are promised          *)
(* (OrderInv).                                                             *)
(*                                                                         *)
(* The ring, for every number of buffers and words: the type invariant,    *)
(* FrameWhole and Untorn.  The inductive invariant says what sequence each *)
(* buffer has (RingOrder), that a buffer with a sequence is whole unless   *)
(* it is being copied to (Solid), what a crash can leave behind            *)
(* (AfterCrash), that stamps are never used twice (Fresh), and what the    *)
(* reader may hold (Reading).                                              *)
(***************************************************************************)
EXTENDS InferenceRecorder, ShmRing, TLAPS

\* The worker loses no wakeup because the flag is cleared before the pointers are read:
\* whatever the worker has read or will not read again before it tests the flag is
\* covered by a snapshot, by a callback that has still to signal, or by the flag.
FlagCovers ==
  ~signaled =>
    /\ wpc \in {"test", "asleep"} => \A q \in Queues : Covered(q)
    /\ wpc = "snapshot" => \A q \in Queues \ todo : Covered(q)

\* The inductive invariant behind SleepsInPeace.
WakeInv ==
  /\ RecorderTypeOK /\ FlagCovers
  /\ wpc = "asleep" => ~signaled /\ stop # "signaled"
  /\ stop = "signaled" => signaled \/ wpc = "exited"

\* The inductive invariant behind the refinement: pointers only grow from the published
\* entry over the snapshot to the newest entry.
OrderInv ==
  \A q \in Queues : published[q] <= snap[q] /\ snap[q] <= latest[q]

-----------------------------------------------------------------------------
LEMMA RecorderTypeInit == RecorderInit => RecorderTypeOK
<1> SUFFICES ASSUME RecorderInit PROVE RecorderTypeOK
  OBVIOUS
<1>1. latest \in [Queues -> Nat] /\ snap \in [Queues -> Nat]
  BY DEF RecorderInit
<1>2. published \in [Queues -> Nat] /\ dropped \in [Queues -> Nat]
  BY DEF RecorderInit
<1>3. cbpc \in [Queues -> {"idle", "noted"}]
  BY DEF RecorderInit
<1>4. /\ signaled \in BOOLEAN /\ wpc \in {"test", "asleep", "snapshot", "exited"}
      /\ todo \subseteq Queues /\ stop \in {"no", "sent", "signaled"}
  BY DEF RecorderInit
<1> QED
  BY <1>1, <1>2, <1>3, <1>4 DEF RecorderTypeOK

LEMMA RecorderTypeStep == RecorderTypeOK /\ [RecorderNext]_recorderVars => RecorderTypeOK'
<1> SUFFICES ASSUME RecorderTypeOK, [RecorderNext]_recorderVars PROVE RecorderTypeOK'
  OBVIOUS
<1>1. ASSUME NEW q \in Queues, Note(q) PROVE RecorderTypeOK'
  BY <1>1, RecorderAssumption DEF Note, RecorderTypeOK
<1>2. ASSUME NEW q \in Queues, Signal(q) PROVE RecorderTypeOK'
  BY <1>2 DEF Signal, Notify, RecorderTypeOK
<1>3. CASE ShutdownSend \/ ShutdownSignal
  BY <1>3 DEF ShutdownSend, ShutdownSignal, Notify, RecorderTypeOK
<1>4. CASE Sleep \/ Claim
  BY <1>4 DEF Sleep, Claim, RecorderTypeOK
<1>5. ASSUME NEW q \in Queues, ReadPointer(q) PROVE RecorderTypeOK'
  BY <1>5 DEF ReadPointer, RecorderTypeOK
<1>6. ASSUME NEW ok \in BOOLEAN, Enqueue(ok) PROVE RecorderTypeOK'
  BY <1>6 DEF Enqueue, RecorderTypeOK
<1>7. CASE UNCHANGED recorderVars
  BY <1>7 DEF recorderVars, RecorderTypeOK
<1> QED
  BY <1>1, <1>2, <1>3, <1>4, <1>5, <1>6, <1>7 DEF RecorderNext, Worker

\* Every variable of the recorder keeps its type.
THEOREM RecorderTypeCorrect == RecorderSpec => []RecorderTypeOK
<1> QED
  BY RecorderTypeInit, RecorderTypeStep, PTL DEF RecorderSpec

-----------------------------------------------------------------------------
LEMMA WakeStep == WakeInv /\ [RecorderNext]_recorderVars => WakeInv'
<1> SUFFICES ASSUME WakeInv, [RecorderNext]_recorderVars PROVE WakeInv'
  OBVIOUS
<1>0. RecorderTypeOK /\ RecorderTypeOK'
  BY RecorderTypeStep DEF WakeInv
<1>1. ASSUME NEW q \in Queues, Note(q) PROVE WakeInv'
  BY <1>0, <1>1 DEF Note, WakeInv, FlagCovers, Covered, RecorderTypeOK
<1>2. ASSUME NEW q \in Queues, Signal(q) PROVE WakeInv'
  BY <1>0, <1>2 DEF Signal, Notify, WakeInv, FlagCovers, RecorderTypeOK
<1>3. CASE ShutdownSend
  BY <1>0, <1>3 DEF ShutdownSend, WakeInv, FlagCovers, Covered, RecorderTypeOK
<1>4. CASE ShutdownSignal
  BY <1>0, <1>4 DEF ShutdownSignal, Notify, WakeInv, FlagCovers, RecorderTypeOK
<1>5. CASE Sleep
  BY <1>0, <1>5 DEF Sleep, WakeInv, FlagCovers, Covered, RecorderTypeOK
<1>6. CASE Claim
  BY <1>0, <1>6 DEF Claim, WakeInv, FlagCovers, Covered, RecorderTypeOK
<1>7. ASSUME NEW q \in Queues, ReadPointer(q) PROVE WakeInv'
  BY <1>0, <1>7 DEF ReadPointer, WakeInv, FlagCovers, Covered, RecorderTypeOK
<1>8. ASSUME NEW ok \in BOOLEAN, Enqueue(ok) PROVE WakeInv'
  BY <1>0, <1>8 DEF Enqueue, WakeInv, FlagCovers, Covered, RecorderTypeOK
<1>9. CASE UNCHANGED recorderVars
  BY <1>0, <1>9 DEF recorderVars, WakeInv, FlagCovers, Covered
<1> QED
  BY <1>1, <1>2, <1>3, <1>4, <1>5, <1>6, <1>7, <1>8, <1>9 DEF RecorderNext, Worker

\* The condition-variable handshake of callbacks, shutdown() and worker loses no wakeup,
\* for any number of queues.
THEOREM SleepsInPeaceAlways == RecorderSpec => []SleepsInPeace
<1>1. RecorderInit => WakeInv
  BY RecorderTypeInit DEF RecorderInit, WakeInv, FlagCovers, Covered
<1>2. WakeInv => SleepsInPeace
  BY DEF WakeInv, FlagCovers, SleepsInPeace
<1> QED
  BY <1>1, <1>2, WakeStep, PTL DEF RecorderSpec

-----------------------------------------------------------------------------
LEMMA OrderStep == RecorderTypeOK /\ OrderInv /\ [RecorderNext]_recorderVars => OrderInv'
<1> SUFFICES ASSUME RecorderTypeOK, OrderInv, [RecorderNext]_recorderVars PROVE OrderInv'
  OBVIOUS
<1>1. ASSUME NEW q \in Queues, Note(q) PROVE OrderInv'
  BY <1>1 DEF Note, OrderInv, RecorderTypeOK
<1>2. ASSUME NEW q \in Queues, Signal(q) PROVE OrderInv'
  BY <1>2 DEF Signal, OrderInv
<1>3. CASE ShutdownSend \/ ShutdownSignal \/ Sleep \/ Claim
  BY <1>3 DEF ShutdownSend, ShutdownSignal, Sleep, Claim, OrderInv
<1>4. ASSUME NEW q \in Queues, ReadPointer(q) PROVE OrderInv'
  BY <1>4 DEF ReadPointer, OrderInv, RecorderTypeOK
<1>5. ASSUME NEW ok \in BOOLEAN, Enqueue(ok) PROVE OrderInv'
  BY <1>5 DEF Enqueue, OrderInv, RecorderTypeOK
<1>6. CASE UNCHANGED recorderVars
  BY <1>6 DEF recorderVars, OrderInv
<1> QED
  BY <1>1, <1>2, <1>3, <1>4, <1>5, <1>6 DEF RecorderNext, Worker

LEMMA PromiseStep ==
  RecorderTypeOK /\ OrderInv /\ [RecorderNext]_recorderVars
    => [(\E q \in Queues : Abstract!Grow(q)) \/ Abstract!Publish]_(Abstract!absVars)
<1> SUFFICES ASSUME RecorderTypeOK, OrderInv, [RecorderNext]_recorderVars
             PROVE  (\E q \in Queues : Abstract!Grow(q)) \/ Abstract!Publish
                      \/ UNCHANGED <<latest, published>>
  BY DEF Abstract!absVars
<1>1. ASSUME NEW q \in Queues, Note(q) PROVE Abstract!Grow(q)
  BY <1>1 DEF Note, Abstract!Grow
<1>2. ASSUME NEW q \in Queues, Signal(q) \/ ReadPointer(q) PROVE UNCHANGED <<latest, published>>
  BY <1>2 DEF Signal, ReadPointer
<1>3. CASE ShutdownSend \/ ShutdownSignal \/ Sleep \/ Claim
  BY <1>3 DEF ShutdownSend, ShutdownSignal, Sleep, Claim
<1>4. ASSUME NEW ok \in BOOLEAN, Enqueue(ok) PROVE Abstract!Publish \/ UNCHANGED <<latest, published>>
  BY <1>4 DEF Enqueue, Abstract!Publish, OrderInv, RecorderTypeOK
<1>5. CASE UNCHANGED recorderVars
  BY <1>5 DEF recorderVars
<1> QED
  BY <1>1, <1>2, <1>3, <1>4, <1>5 DEF RecorderNext, Worker

\* The recorder implements what its readers are promised: published pointers exist and
\* never go back.
THEOREM RecorderRefinement == RecorderSpec => KeepsPromise
<1>1. RecorderInit => RecorderTypeOK /\ OrderInv
  BY RecorderTypeInit DEF RecorderInit, OrderInv
<1>2. RecorderInit => Abstract!Start
  BY DEF RecorderInit, Abstract!Start
<1> QED
  BY <1>1, <1>2, RecorderTypeStep, OrderStep, PromiseStep, PTL DEF RecorderSpec, KeepsPromise, Abstract!Promise

-----------------------------------------------------------------------------
LEMMA SlotRange ==
  ASSUME NEW i \in Nat
  PROVE  Slot(i) \in Buffers
  BY RingAssumption, SMT DEF Buffers, Slot

LEMMA SlotSmall ==
  ASSUME NEW i \in Nat, i < N
  PROVE  Slot(i) = i
  BY RingAssumption, SMT DEF Slot

LEMMA SlotSelf == Slot(N) = 0
  BY RingAssumption, SMT DEF Slot

LEMMA MulMonotone ==
  ASSUME NEW p \in Int, NEW q \in Int, p + 1 <= q
  PROVE  N * p + N <= N * q
<1>1. N * q = N * p + N * (q - p)
  BY RingAssumption, SMT
<1>2. N * (q - p) >= N
  <2>1. N * (q - p) = N + N * (q - p - 1)
    BY RingAssumption, SMT
  <2>2. N * (q - p - 1) >= 0
    BY RingAssumption, SMT
  <2> QED BY <2>1, <2>2, RingAssumption, SMT
<1> QED BY <1>1, <1>2, RingAssumption, SMT

LEMMA ModUnique ==
  ASSUME NEW q \in Int, NEW r \in Buffers
  PROVE  (N * q + r) % N = r
<1> DEFINE i == N * q + r
           d == i \div N
<1>1. d \in Int /\ i \in Int /\ i % N \in Buffers /\ i = N * d + (i % N)
  BY RingAssumption, SMT DEF Buffers
<1>2. ~(d + 1 <= q) /\ ~(q + 1 <= d)
  BY <1>1, MulMonotone, RingAssumption, SMT DEF Buffers
<1> QED BY <1>1, <1>2, RingAssumption, SMT DEF Buffers

LEMMA SlotSucc ==
  ASSUME NEW i \in Nat
  PROVE  Slot(i + 1) = IF Slot(i) = N - 1 THEN 0 ELSE Slot(i) + 1
<1> DEFINE q == i \div N
           r == i % N
<1>1. q \in Int /\ r \in Buffers /\ i = N * q + r
  BY RingAssumption, SMT DEF Buffers
<1>2. CASE r = N - 1
  <2>1. i + 1 = N * (q + 1) + 0
    BY <1>1, <1>2, RingAssumption, SMT
  <2>2. (N * (q + 1) + 0) % N = 0
    BY <1>1, ModUnique, RingAssumption, SMT DEF Buffers
  <2> QED BY <1>2, <2>1, <2>2 DEF Slot
<1>3. CASE r # N - 1
  <2>1. r + 1 \in Buffers /\ i + 1 = N * q + (r + 1)
    BY <1>1, <1>3, RingAssumption, SMT DEF Buffers
  <2>2. (N * q + (r + 1)) % N = r + 1
    BY <1>1, <2>1, ModUnique
  <2> QED BY <1>3, <2>1, <2>2 DEF Slot
<1> QED BY <1>2, <1>3

LEMMA BeforeIs ==
  ASSUME NEW b \in Buffers
  PROVE  Before(b) = IF b = 0 THEN N - 1 ELSE b - 1
  BY RingAssumption, SMT DEF Before, Buffers

-----------------------------------------------------------------------------
\* The number of frames published.
Count == IF Written THEN idx ELSE writeIdx

\* The sequence of a buffer when n frames were published.
Due(b, n) == IF b < Slot(n) THEN n - Slot(n) + b
             ELSE IF n < N THEN Unset ELSE n - N - Slot(n) + b

RingOrder ==
  pc # "init" => /\ Written => writeIdx = idx + 1
                 /\ \A b \in Buffers : sequence[b] = Due(b, Count)

Whole(b) == \A w \in Words : data[b][w] = stamp[b]
Shown(b) == /\ sequence[b] # Unset \/ (pc = "publish" /\ b = Slot(idx))
            /\ ~(pc = "copy" /\ b = Slot(idx))

Solid ==
  /\ pc # "init" => \A b \in Buffers : Shown(b) => Whole(b)
  /\ pc = "copy" => \A w \in Words \ left : data[Slot(idx)][w] = frame

\* A buffer that the crash found in the midst of a copy.
Broken(b) ==
  sequence[b] # Unset => /\ sequence[b] = 0 => b = 0
                         /\ Before(b) >= at => sequence[Before(b)] = sequence[b] + N - 1

AfterCrash ==
  pc = "init" => \A b \in Buffers : IF b < at THEN sequence[b] = Unset ELSE Whole(b) \/ Broken(b)

Newer(t) == t <= now /\ t > rstamp /\ \A b \in Buffers : t > stamp[b]
Fresh ==
  /\ rstamp <= now /\ \A b \in Buffers : stamp[b] <= now
  /\ \A i \in 1..Len(pending) : Newer(pending[i])
  /\ \A i, j \in 1..Len(pending) : i < j => pending[i] < pending[j]
  /\ pc = "copy" => Newer(frame) /\ \A i \in 1..Len(pending) : pending[i] > frame

Got == \A w \in Words \ rleft : rdata[w] = rstamp
Reading ==
  /\ rpc = "copy" /\ stamp[rbuf] = rstamp =>
       /\ pc # "init" /\ Shown(rbuf) => Got
       /\ pc = "init" /\ sequence[rbuf] # Unset => Got \/ Broken(rbuf)
  /\ rpc = "own" /\ stamp[rbuf] = rstamp
       /\ (sequence[rbuf] = rseq \/ (pc = "publish" /\ rbuf = Slot(idx))) => Got
  /\ rpc = "accepted" => Got
  /\ rpc \in {"own", "accepted"} => rleft = {}

IInv == TypeOK /\ RingOrder /\ Solid /\ AfterCrash /\ Fresh /\ Reading

-----------------------------------------------------------------------------
\* While a buffer is copied to, the buffer before has the newest frame.
LEMMA Lapped ==
  ASSUME TypeOK, RingOrder, pc = "copy", sequence[Slot(idx)] # Unset
  PROVE  LET b == Slot(idx)
         IN /\ sequence[Before(b)] = sequence[b] + N - 1
            /\ sequence[b] = 0 => b = 0
            /\ ~Follows(b, sequence[b])
<1> DEFINE b == Slot(idx)
<1>1. b \in Buffers /\ idx \in Nat /\ Count = idx
  BY SlotRange DEF TypeOK, Count, Written
<1>2. sequence[b] = idx - N /\ idx >= N
  BY <1>1, RingAssumption DEF RingOrder, Due, Buffers, TypeOK
<1>3. Before(b) \in Buffers /\ Before(b) = IF b = 0 THEN N - 1 ELSE b - 1
  BY <1>1, BeforeIs, RingAssumption DEF Buffers
<1>4. sequence[Before(b)] = idx - 1
  BY <1>1, <1>2, <1>3, RingAssumption DEF RingOrder, Due, Buffers
<1>5. sequence[b] = 0 => b = 0
  BY <1>1, <1>2, SlotSelf, RingAssumption
<1>6. ~Follows(b, sequence[b])
  BY <1>1, <1>2, <1>4, RingAssumption DEF Follows
<1> QED BY <1>1, <1>2, <1>4, <1>5, <1>6, RingAssumption

\* A buffer that a crash broke does not follow the one before.
LEMMA BrokenFollows ==
  ASSUME TypeOK, AfterCrash, pc = "init", NEW b \in Buffers, sequence[b] # Unset, Broken(b)
  PROVE  ~Follows(b, sequence[b])
<1>1. b >= at /\ sequence[b] \in Nat /\ at \in Nat /\ b \in Nat
  BY RingAssumption DEF AfterCrash, TypeOK, Buffers
<1>2. Before(b) \in Buffers /\ Before(b) = IF b = 0 THEN N - 1 ELSE b - 1
  BY BeforeIs, RingAssumption DEF Buffers
<1>3. CASE Before(b) >= at
  BY <1>1, <1>3, RingAssumption DEF Broken, Follows
<1>4. CASE Before(b) < at
  <2>1. sequence[Before(b)] = Unset
    BY <1>2, <1>4 DEF AfterCrash
  <2>2. b # 0
    BY <1>1, <1>2, <1>4, RingAssumption
  <2>3. sequence[b] # 0
    BY <2>2 DEF Broken
  <2> QED BY <1>1, <2>1, <2>3, RingAssumption DEF Follows
<1> QED BY <1>1, <1>2, <1>3, <1>4, RingAssumption DEF Buffers

LEMMA WholeFrames ==
  ASSUME IInv
  PROVE  FrameWhole
<1> SUFFICES ASSUME NEW b \in Buffers, sequence[b] # Unset, Follows(b, sequence[b])
             PROVE  Whole(b)
  BY DEF FrameWhole, Whole
<1>1. CASE pc = "init"
  BY <1>1, BrokenFollows DEF IInv, AfterCrash
<1>2. CASE pc = "copy" /\ b = Slot(idx)
  BY <1>2, Lapped DEF IInv
<1>3. CASE pc # "init" /\ ~(pc = "copy" /\ b = Slot(idx))
  BY <1>3 DEF IInv, Solid, Shown
<1> QED BY <1>1, <1>2, <1>3

-----------------------------------------------------------------------------
LEMMA InitHolds == Init => IInv
<1> SUFFICES ASSUME Init PROVE IInv
  OBVIOUS
<1>1. TypeOK
  BY RingAssumption DEF Init, TypeOK, Buffers
<1>2. RingOrder /\ Solid /\ Reading
  BY DEF Init, RingOrder, Solid, Reading
<1>3. AfterCrash
  BY RingAssumption DEF Init, AfterCrash, Whole, Buffers
<1>4. Fresh
  BY RingAssumption DEF Init, Fresh
<1> QED BY <1>1, <1>2, <1>3, <1>4 DEF IInv

LEMMA TypeStep == TypeOK /\ [Next]_vars => TypeOK'
<1> SUFFICES ASSUME TypeOK, [Next]_vars PROVE TypeOK'
  OBVIOUS
<1> USE RingAssumption DEF TypeOK, channel, writer, ring, reader
<1>1. ASSUME NEW t \in 1..MaxStamp, Entry(t) PROVE TypeOK'
  <2>1. t \in Nat /\ now' = t /\ UNCHANGED <<writer, ring, reader>>
    BY <1>1 DEF Entry
  <2>2. last' \in Nat /\ pending' \in Seq(Nat)
    <3>1. CASE last' = t /\ pending' = Append(pending, t)
      BY <2>1, <3>1
    <3>2. CASE UNCHANGED <<pending, last>>
      BY <3>2
    <3> QED BY <1>1, <3>1, <3>2 DEF Entry
  <2> QED BY <2>1, <2>2
<1>2. CASE Skip
  BY <1>2 DEF Skip
<1>3. CASE Take
  BY <1>3 DEF Take
<1>4. ASSUME NEW w \in Words, Copy(w) PROVE TypeOK'
  <2>1. Slot(idx) \in Buffers
    BY SlotRange
  <2> QED BY <1>4, <2>1 DEF Copy
<1>5. CASE Stamp
  BY <1>5, SlotRange DEF Stamp
<1>6. CASE Publish
  BY <1>6, SlotRange DEF Publish
<1>7. CASE Crash
  BY <1>7 DEF Crash
<1>8. CASE Reset
  BY <1>8 DEF Reset, Buffers
<1>9. CASE Started
  BY <1>9 DEF Started
<1>10. ASSUME NEW b \in Buffers, ReadSequence(b) PROVE TypeOK'
  BY <1>10 DEF ReadSequence
<1>11. CASE ReadStamp
  BY <1>11 DEF ReadStamp
<1>12. ASSUME NEW w \in Words, ReadWord(w) PROVE TypeOK'
  BY <1>12 DEF ReadWord
<1>13. CASE CheckBefore
  BY <1>13 DEF CheckBefore
<1>14. CASE CheckOwn
  BY <1>14 DEF CheckOwn
<1>15. CASE UNCHANGED vars
  BY <1>15 DEF vars
<1> QED BY <1>1, <1>2, <1>3, <1>4, <1>5, <1>6, <1>7, <1>8, <1>9, <1>10, <1>11, <1>12, <1>13,
           <1>14, <1>15 DEF Next, Write, Read

-----------------------------------------------------------------------------
LEMMA RingStep == TypeOK /\ RingOrder /\ AfterCrash /\ [Next]_vars => RingOrder'
<1> SUFFICES ASSUME TypeOK, RingOrder, AfterCrash, [Next]_vars PROVE RingOrder'
  OBVIOUS
<1> USE RingAssumption DEF channel, writer, ring, reader
<1>1. CASE UNCHANGED <<pc, writeIdx, idx, sequence>>
  <2>1. Count' = Count /\ Written' = Written
    BY <1>1 DEF Count, Written
  <2> QED BY <1>1, <2>1 DEF RingOrder, Due, Written
<1>2. CASE Take
  <2>1. Count' = Count /\ Written' /\ pc # "init"
    BY <1>2 DEF Take, Count, Written
  <2> QED BY <1>2, <2>1 DEF Take, RingOrder, Due
<1>3. CASE Stamp
  <2>1. Count' = Count /\ Written' /\ Written /\ pc # "init"
    BY <1>3 DEF Stamp, Count, Written
  <2> QED BY <1>3, <2>1 DEF Stamp, RingOrder, Due
<1>4. CASE Publish
  <2>1. /\ Count = idx /\ Count' = idx + 1 /\ ~Written' /\ idx \in Nat
        /\ sequence' = [sequence EXCEPT ![Slot(idx)] = idx]
        /\ sequence \in [Buffers -> Nat \cup {Unset}]
        /\ \A b \in Buffers : sequence[b] = Due(b, idx)
    BY <1>4 DEF Publish, Count, Written, RingOrder, TypeOK
  <2>2. Slot(idx) \in Buffers /\ Slot(idx + 1) = IF Slot(idx) = N - 1 THEN 0 ELSE Slot(idx) + 1
    BY <2>1, SlotRange, SlotSucc
  <2>3. idx < N => Slot(idx) = idx
    BY <2>1, SlotSmall
  <2>4. ASSUME NEW b \in Buffers PROVE sequence'[b] = Due(b, idx + 1)
    <3> DEFINE s == Slot(idx)
               n == Slot(idx + 1)
    <3>0. s \in Nat /\ s <= N - 1 /\ b \in Nat /\ b <= N - 1 /\ n = IF s = N - 1 THEN 0 ELSE s + 1
      BY <2>2 DEF Buffers
    <3>1. Due(b, idx + 1) = IF b < n THEN idx + 1 - n + b
                            ELSE IF idx + 1 < N THEN Unset ELSE idx + 1 - N - n + b
      BY <2>1, <2>2, <3>0 DEF Due
    <3>2. Due(b, idx) = IF b < s THEN idx - s + b ELSE IF idx < N THEN Unset ELSE idx - N - s + b
      BY DEF Due
    <3>3. idx < N => s = idx
      BY <2>3
    <3> HIDE DEF s, n
    <3>4. CASE b = s
      <4>1. sequence'[b] = idx
        BY <2>1, <2>2, <3>4 DEF s
      <4> QED BY <2>1, <3>0, <3>1, <3>3, <3>4, <4>1
    <3>5. CASE b # s
      <4>1. sequence'[b] = Due(b, idx)
        BY <2>1, <3>5 DEF s
      <4>2. CASE s = N - 1
        BY <2>1, <3>0, <3>1, <3>2, <3>3, <3>5, <4>1, <4>2
      <4>3. CASE s # N - 1
        BY <2>1, <3>0, <3>1, <3>2, <3>3, <3>5, <4>1, <4>3
      <4> QED BY <4>2, <4>3
    <3> QED BY <3>4, <3>5
  <2> QED BY <2>1, <2>4 DEF RingOrder, Due
<1>5. CASE Crash \/ Reset
  BY <1>5 DEF Crash, Reset, RingOrder
<1>6. CASE Started
  <2>1. Count' = 0 /\ ~Written' /\ Slot(0) = 0 /\ UNCHANGED sequence
    BY <1>6, SlotSmall DEF Started, Count, Written
  <2>2. \A b \in Buffers : sequence[b] = Unset
    BY <1>6 DEF Started, AfterCrash, Buffers
  <2> QED BY <2>1, <2>2 DEF RingOrder, Due, Buffers
<1> QED BY <1>1, <1>2, <1>3, <1>4, <1>5, <1>6
        DEF Next, Write, Read, Entry, Skip, Copy, ReadSequence, ReadStamp, ReadWord, CheckBefore,
            CheckOwn, vars

LEMMA SolidStep == TypeOK /\ Solid /\ AfterCrash /\ [Next]_vars => Solid'
<1> SUFFICES ASSUME TypeOK, Solid, AfterCrash, [Next]_vars PROVE Solid'
  OBVIOUS
<1> USE DEF channel, writer, ring, reader
<1>0. Slot(idx) \in Buffers /\ stamp \in [Buffers -> Nat] /\ data \in [Buffers -> [Words -> Nat]]
  BY SlotRange DEF TypeOK
<1>1. CASE UNCHANGED <<writer, ring>>
  BY <1>1 DEF Solid, Shown, Whole
<1>2. CASE Take
  <2>1. \A b \in Buffers : Shown(b)' => Shown(b) /\ Whole(b)' = Whole(b)
    BY <1>2 DEF Take, Shown, Whole
  <2> QED BY <1>2, <2>1 DEF Take, Solid
<1>3. ASSUME NEW w \in Words, Copy(w) PROVE Solid'
  <2>1. /\ pc = "copy" /\ UNCHANGED <<pc, idx, frame, sequence, stamp>> /\ left' = left \ {w}
        /\ data' = [data EXCEPT ![Slot(idx)] = [@ EXCEPT ![w] = frame]]
    BY <1>3 DEF Copy
  <2>2. ASSUME NEW b \in Buffers, Shown(b)' PROVE Whole(b)'
    <3>1. Shown(b) /\ b # Slot(idx)
      BY <2>1, <2>2 DEF Shown
    <3>2. data'[b] = data[b] /\ Whole(b)
      BY <1>0, <2>1, <3>1 DEF Solid
    <3> QED BY <2>1, <3>2 DEF Whole
  <2>3. \A v \in Words \ left' : data'[Slot(idx)][v] = frame
    BY <1>0, <2>1 DEF Solid
  <2>4. Slot(idx)' = Slot(idx)
    BY <2>1 DEF Slot
  <2> QED BY <2>1, <2>2, <2>3, <2>4 DEF Solid
<1>4. CASE Stamp
  <2>1. /\ pc = "copy" /\ pc' = "publish" /\ left = {} /\ UNCHANGED <<idx, sequence, data>>
        /\ stamp' = [stamp EXCEPT ![Slot(idx)] = frame]
    BY <1>4 DEF Stamp
  <2>2. ASSUME NEW b \in Buffers, Shown(b)' PROVE Whole(b)'
    <3>1. CASE b = Slot(idx)
      BY <1>0, <2>1, <3>1 DEF Solid, Whole
    <3>2. CASE b # Slot(idx)
      <4>1. Shown(b) /\ stamp'[b] = stamp[b]
        BY <1>0, <2>1, <2>2, <3>2 DEF Shown, Slot
      <4> QED BY <2>1, <4>1 DEF Solid, Whole
    <3> QED BY <3>1, <3>2
  <2> QED BY <2>1, <2>2 DEF Solid
<1>5. CASE Publish
  <2>1. /\ pc = "publish" /\ pc' = "idle" /\ UNCHANGED <<idx, data, stamp>>
        /\ sequence' = [sequence EXCEPT ![Slot(idx)] = idx]
    BY <1>5 DEF Publish
  <2>2. ASSUME NEW b \in Buffers, Shown(b)' PROVE Whole(b)'
    <3>1. Shown(b)
      BY <1>0, <2>1, <2>2 DEF Shown, TypeOK
    <3> QED BY <2>1, <3>1 DEF Solid, Whole
  <2> QED BY <2>1, <2>2 DEF Solid
<1>6. CASE Crash \/ Reset
  BY <1>6 DEF Crash, Reset, Solid
<1>7. CASE Started
  <2>1. \A b \in Buffers : sequence'[b] = Unset
    BY <1>7, RingAssumption DEF Started, AfterCrash, Buffers
  <2> QED BY <1>7, <2>1 DEF Started, Solid, Shown
<1> QED BY <1>1, <1>2, <1>3, <1>4, <1>5, <1>6, <1>7
        DEF Next, Write, Read, Entry, Skip, ReadSequence, ReadStamp, ReadWord, CheckBefore,
            CheckOwn, vars

\* A header that is reset repairs no buffer and breaks none.
LEMMA ResetBroken ==
  ASSUME TypeOK, Reset, NEW b \in Buffers, Broken(b)
  PROVE  Broken(b)'
<1>1. /\ sequence' = [sequence EXCEPT ![at] = Unset] /\ at' = at + 1 /\ at \in 0..N
      /\ sequence \in [Buffers -> Nat \cup {Unset}]
  BY DEF Reset, TypeOK
<1>2. Before(b) \in Buffers
  BY BeforeIs, RingAssumption DEF Buffers
<1>3. sequence'[b] # Unset => sequence'[b] = sequence[b]
  BY <1>1
<1>4. Before(b) >= at + 1 => Before(b) >= at /\ sequence'[Before(b)] = sequence[Before(b)]
  BY <1>1, <1>2, RingAssumption DEF Buffers
<1>5. Before(b)' = Before(b)
  BY DEF Before
<1> QED BY <1>1, <1>3, <1>4, <1>5 DEF Broken

LEMMA CrashStep == TypeOK /\ RingOrder /\ Solid /\ AfterCrash /\ [Next]_vars => AfterCrash'
<1> SUFFICES ASSUME TypeOK, RingOrder, Solid, AfterCrash, [Next]_vars PROVE AfterCrash'
  OBVIOUS
<1> USE DEF channel, writer, ring, reader
<1>1. CASE UNCHANGED <<pc, at, ring>>
  BY <1>1 DEF AfterCrash, Whole, Broken, Before
<1>2. CASE Crash
  <2>1. pc # "init" /\ at' = 0 /\ UNCHANGED ring
    BY <1>2 DEF Crash
  <2>2. ASSUME NEW b \in Buffers PROVE Whole(b)' \/ Broken(b)'
    <3>1. CASE Shown(b)
      BY <2>1, <3>1 DEF Solid, Whole
    <3>2. CASE sequence[b] = Unset
      BY <2>1, <3>2 DEF Broken
    <3>3. CASE pc = "copy" /\ b = Slot(idx) /\ sequence[b] # Unset
      BY <2>1, <3>3, Lapped DEF Broken, Before
    <3> QED BY <3>1, <3>2, <3>3 DEF Shown
  <2>3. \A b \in Buffers : ~(b < at')
    BY <2>1, RingAssumption DEF Buffers
  <2> QED BY <2>2, <2>3 DEF AfterCrash
<1>3. CASE Reset
  <2>1. /\ pc = "init" /\ at \in Buffers /\ at' = at + 1 /\ UNCHANGED <<stamp, data>>
        /\ sequence' = [sequence EXCEPT ![at] = Unset]
        /\ sequence \in [Buffers -> Nat \cup {Unset}]
    BY <1>3, RingAssumption DEF Reset, TypeOK, Buffers
  <2>2. ASSUME NEW b \in Buffers, b < at' PROVE sequence'[b] = Unset
    BY <2>1, <2>2, RingAssumption DEF AfterCrash, Buffers
  <2>3. ASSUME NEW b \in Buffers, ~(b < at') PROVE Whole(b)' \/ Broken(b)'
    <3>1. Whole(b) \/ Broken(b)
      BY <2>1, <2>3, RingAssumption DEF AfterCrash, Buffers
    <3> QED BY <1>3, <2>1, <3>1, ResetBroken DEF Whole
  <2> QED BY <2>2, <2>3 DEF AfterCrash
<1>4. CASE pc' # "init"
  BY <1>4 DEF AfterCrash
<1> QED BY <1>1, <1>2, <1>3, <1>4
        DEF Next, Write, Read, Entry, Skip, Take, Copy, Stamp, Publish, Started, ReadSequence,
            ReadStamp, ReadWord, CheckBefore, CheckOwn, vars

LEMMA FreshStep == TypeOK /\ Fresh /\ [Next]_vars => Fresh'
<1> SUFFICES ASSUME TypeOK, Fresh, [Next]_vars PROVE Fresh'
  OBVIOUS
<1> USE DEF channel, writer, ring, reader
<1>0. /\ now \in Nat /\ pending \in Seq(Nat) /\ stamp \in [Buffers -> Nat] /\ rstamp \in Nat
      /\ frame \in Nat /\ Slot(idx) \in Buffers /\ rbuf \in Buffers
  BY SlotRange DEF TypeOK
<1>1. CASE UNCHANGED <<now, pending, stamp, rstamp, frame>> /\ (pc' = "copy" => pc = "copy")
  BY <1>1 DEF Fresh, Newer
<1>2. ASSUME NEW t \in 1..MaxStamp, Entry(t) PROVE Fresh'
  <2>1. t \in Nat /\ t > now /\ now' = t /\ UNCHANGED <<pc, frame, stamp, rstamp>>
    BY <1>2, RingAssumption DEF Entry
  <2>2. \A s \in Nat : s <= now => s <= now' /\ s < t
    BY <1>0, <2>1
  <2>3. CASE UNCHANGED pending
    BY <1>0, <2>1, <2>2, <2>3 DEF Fresh, Newer
  <2>4. CASE pending' = Append(pending, t)
    <3>1. /\ Len(pending') = Len(pending) + 1 /\ Len(pending) \in Nat
          /\ pending'[Len(pending) + 1] = t
          /\ \A i \in 1..Len(pending) : pending'[i] = pending[i] /\ pending[i] \in Nat
      BY <1>0, <2>1, <2>4
    <3>2. Newer(t)'
      BY <1>0, <2>1, <2>2 DEF Fresh, Newer
    <3>3. \A s \in Nat : Newer(s) => Newer(s)' /\ s < t
      BY <1>0, <2>1, <2>2 DEF Newer
    <3>4. \A i \in 1..Len(pending') : Newer(pending[i])'
      BY <3>1, <3>2, <3>3 DEF Fresh, Newer
    <3>5. \A i, j \in 1..Len(pending') : i < j => pending'[i] < pending'[j]
      BY <3>1, <3>3 DEF Fresh
    <3>6. pc = "copy" => Newer(frame)' /\ \A i \in 1..Len(pending') : pending'[i] > frame
      BY <1>0, <3>1, <3>3, <2>1 DEF Fresh
    <3>7. rstamp' <= now' /\ \A b \in Buffers : stamp'[b] <= now'
      BY <1>0, <2>1, <2>2 DEF Fresh
    <3> QED BY <2>1, <3>4, <3>5, <3>6, <3>7 DEF Fresh, Newer
  <2> QED BY <1>2, <2>3, <2>4 DEF Entry
<1>3. ASSUME pending # <<>>, pending' = Tail(pending), UNCHANGED <<now, stamp, rstamp>>
      PROVE  /\ Len(pending) \in Nat \ {0} /\ Len(pending') = Len(pending) - 1
             /\ \A i \in 1..Len(pending') : pending'[i] = pending[i + 1] /\ i + 1 \in 1..Len(pending)
             /\ \A i \in 1..Len(pending') : Newer(pending[i])'
             /\ \A i, j \in 1..Len(pending') : i < j => pending'[i] < pending'[j]
             /\ rstamp' <= now' /\ \A b \in Buffers : stamp'[b] <= now'
  <2>1. /\ Len(pending) \in Nat \ {0} /\ Len(pending') = Len(pending) - 1
        /\ \A i \in 1..Len(pending') : pending'[i] = pending[i + 1] /\ i + 1 \in 1..Len(pending)
    BY <1>0, <1>3
  <2>2. \A i \in 1..Len(pending') : Newer(pending[i])'
    BY <1>3, <2>1 DEF Fresh, Newer
  <2>3. \A i, j \in 1..Len(pending') : i < j => pending'[i] < pending'[j]
    BY <2>1 DEF Fresh
  <2> QED BY <1>3, <2>1, <2>2, <2>3 DEF Fresh
<1>4. CASE Skip
  BY <1>3, <1>4 DEF Skip, Fresh, Newer
<1>5. CASE Take
  <2>1. /\ pending # <<>> /\ pending' = Tail(pending) /\ UNCHANGED <<now, stamp, rstamp>>
        /\ frame' = Head(pending)
    BY <1>5 DEF Take
  <2>2. 1 \in 1..Len(pending) /\ frame' = pending[1]
    BY <1>0, <1>3, <2>1
  <2>3. Newer(frame)'
    BY <2>1, <2>2 DEF Fresh, Newer
  <2>4. \A i \in 1..Len(pending') : pending'[i] > frame'
    <3> SUFFICES ASSUME NEW i \in 1..Len(pending') PROVE pending'[i] > frame'
      OBVIOUS
    <3>1. pending'[i] = pending[i + 1] /\ i + 1 \in 1..Len(pending) /\ 1 < i + 1
      BY <1>3, <2>1
    <3>2. pending[1] < pending[i + 1]
      BY <2>2, <3>1 DEF Fresh
    <3>3. pending[1] \in Nat /\ pending[i + 1] \in Nat
      BY <1>0, <2>2, <3>1
    <3> QED BY <2>2, <3>1, <3>2, <3>3
  <2> QED BY <1>3, <2>1, <2>3, <2>4 DEF Fresh, Newer
<1>6. CASE Stamp
  <2>1. /\ pc = "copy" /\ pc' = "publish" /\ UNCHANGED <<now, pending, rstamp>>
        /\ stamp' = [stamp EXCEPT ![Slot(idx)] = frame]
    BY <1>6 DEF Stamp
  <2>2. Newer(frame) /\ \A i \in 1..Len(pending) : pending[i] > frame
    BY <2>1 DEF Fresh
  <2>3. \A b \in Buffers : stamp'[b] = IF b = Slot(idx) THEN frame ELSE stamp[b]
    BY <1>0, <2>1
  <2>4. \A b \in Buffers : stamp'[b] <= now'
    BY <2>1, <2>2, <2>3 DEF Fresh, Newer
  <2>5. \A i \in 1..Len(pending') : Newer(pending[i])'
    BY <2>1, <2>2, <2>3 DEF Fresh, Newer
  <2> QED BY <2>1, <2>4, <2>5 DEF Fresh
<1>7. CASE Crash
  BY <1>7 DEF Crash, Fresh
<1>8. CASE ReadStamp
  <2>1. rstamp' = stamp[rbuf] /\ UNCHANGED <<now, pending, stamp, frame, pc>>
    BY <1>8 DEF ReadStamp
  <2>2. \A s \in Nat : Newer(s) => Newer(s)'
    BY <1>0, <2>1 DEF Newer
  <2>3. \A i \in 1..Len(pending) : pending[i] \in Nat
    BY <1>0
  <2> QED BY <1>0, <2>1, <2>2, <2>3 DEF Fresh, Newer
<1> QED BY <1>1, <1>2, <1>4, <1>5, <1>6, <1>7, <1>8
        DEF Next, Write, Read, Copy, Publish, Reset, Started, ReadSequence, ReadWord, CheckBefore,
            CheckOwn, vars

LEMMA ReadStep == IInv /\ [Next]_vars => Reading'
<1> SUFFICES ASSUME IInv, [Next]_vars PROVE Reading'
  OBVIOUS
<1> USE DEF channel, writer, ring, reader
<1>0. /\ rbuf \in Buffers /\ Slot(idx) \in Buffers /\ idx \in Nat /\ stamp \in [Buffers -> Nat]
      /\ sequence \in [Buffers -> Nat \cup {Unset}] /\ rseq \in Nat /\ rstamp \in Nat
      /\ TypeOK /\ Reading /\ Unset \notin Nat
  BY SlotRange, RingAssumption DEF IInv, TypeOK
<1>1. CASE UNCHANGED <<writer, ring, reader>>
  BY <1>0, <1>1 DEF Reading, Shown, Got, Broken, Before
<1>2. ASSUME UNCHANGED reader PROVE Got' = Got
  BY <1>2 DEF Got
<1>3. CASE Take
  <2>1. Shown(rbuf)' => Shown(rbuf)
    BY <1>3 DEF Take, Shown
  <2>2. pc = "idle" /\ pc' = "copy" /\ UNCHANGED <<ring, reader>>
    BY <1>3 DEF Take
  <2> QED BY <1>0, <1>2, <2>1, <2>2 DEF Reading
<1>4. ASSUME NEW w \in Words, Copy(w) PROVE Reading'
  <2>1. UNCHANGED <<pc, idx, sequence, stamp, reader>> /\ pc = "copy"
    BY <1>4 DEF Copy
  <2>2. Shown(rbuf)' = Shown(rbuf)
    BY <2>1 DEF Shown, Slot
  <2> QED BY <1>0, <1>2, <2>1, <2>2 DEF Reading
<1>5. CASE Stamp
  <2>1. /\ pc = "copy" /\ pc' = "publish" /\ UNCHANGED <<idx, sequence, reader>>
        /\ stamp' = [stamp EXCEPT ![Slot(idx)] = frame] /\ Slot(idx)' = Slot(idx)
    BY <1>5 DEF Stamp, Slot
  <2>2. CASE rbuf = Slot(idx)
    <3>1. stamp'[rbuf] # rstamp
      BY <1>0, <2>1, <2>2 DEF IInv, Fresh, Newer, TypeOK
    <3> QED BY <1>0, <1>2, <2>1, <3>1 DEF Reading
  <2>3. CASE rbuf # Slot(idx)
    <3>1. stamp'[rbuf] = stamp[rbuf] /\ Shown(rbuf)' = Shown(rbuf)
      BY <1>0, <2>1, <2>3 DEF Shown
    <3> QED BY <1>0, <1>2, <2>1, <2>3, <3>1 DEF Reading
  <2> QED BY <2>2, <2>3
<1>6. CASE Publish
  <2>1. /\ pc = "publish" /\ pc' = "idle" /\ UNCHANGED <<idx, stamp, reader>>
        /\ sequence' = [sequence EXCEPT ![Slot(idx)] = idx] /\ Slot(idx)' = Slot(idx)
    BY <1>6 DEF Publish, Slot
  <2>2. Shown(rbuf)' => Shown(rbuf)
    BY <1>0, <2>1 DEF Shown
  <2>3. rbuf = Slot(idx) \/ sequence'[rbuf] = sequence[rbuf]
    BY <1>0, <2>1
  <2> QED BY <1>0, <1>2, <2>1, <2>2, <2>3 DEF Reading
<1>7. CASE Crash
  <2>1. pc # "init" /\ pc' = "init" /\ at' = 0 /\ UNCHANGED <<ring, reader>>
    BY <1>7 DEF Crash
  <2>2. CASE Shown(rbuf)
    BY <1>0, <1>2, <2>1, <2>2 DEF Reading
  <2>3. CASE sequence[rbuf] = Unset
    BY <1>0, <1>2, <2>1, <2>3 DEF Reading
  <2>4. CASE pc = "copy" /\ rbuf = Slot(idx) /\ sequence[rbuf] # Unset
    <3>1. Broken(rbuf)'
      BY <2>1, <2>4, Lapped DEF IInv, Broken, Before
    <3> QED BY <1>0, <1>2, <2>1, <3>1 DEF Reading
  <2> QED BY <2>2, <2>3, <2>4 DEF Shown
<1>8. CASE Reset
  <2>1. /\ pc = "init" /\ pc' = "init" /\ UNCHANGED <<idx, stamp, reader>>
        /\ sequence' = [sequence EXCEPT ![at] = Unset]
    BY <1>8 DEF Reset
  <2>2. sequence'[rbuf] = Unset \/ sequence'[rbuf] = sequence[rbuf]
    BY <1>0, <2>1
  <2>3. Broken(rbuf) => Broken(rbuf)'
    <3> SUFFICES ASSUME Broken(rbuf) PROVE Broken(rbuf)'
      OBVIOUS
    <3>1. \A b \in Buffers : Broken(b) => Broken(b)'
      BY <1>0, <1>8, ResetBroken
    <3>2. rbuf' = rbuf
      BY <2>1
    <3> QED BY <1>0, <3>1, <3>2 DEF Broken, Before
  <2> QED BY <1>0, <1>2, <2>1, <2>2, <2>3 DEF Reading
<1>9. CASE Started
  <2>1. sequence[rbuf] = Unset
    BY <1>0, <1>9, RingAssumption DEF Started, IInv, AfterCrash, Buffers
  <2>2. pc' = "idle" /\ UNCHANGED <<ring, reader>>
    BY <1>9 DEF Started
  <2> QED BY <1>0, <1>2, <2>1, <2>2 DEF Reading, Shown
<1>10. ASSUME NEW b \in Buffers, ReadSequence(b) PROVE Reading'
  BY <1>10 DEF ReadSequence, Reading
<1>11. CASE ReadStamp
  BY <1>11 DEF ReadStamp, Reading, Got
<1>12. ASSUME NEW w \in Words, ReadWord(w) PROVE Reading'
  <2>1. /\ rpc = "copy" /\ UNCHANGED <<writer, ring, rpc, rbuf, rseq, rstamp>>
        /\ rdata' = [rdata EXCEPT ![w] = data[rbuf][w]] /\ rleft' = rleft \ {w}
    BY <1>12 DEF ReadWord
  <2>2. Shown(rbuf)' = Shown(rbuf) /\ Broken(rbuf)' = Broken(rbuf)
    BY <2>1 DEF Shown, Broken, Before, Slot
  <2>3. Got /\ Whole(rbuf) /\ stamp[rbuf] = rstamp => Got'
    BY <1>0, <2>1 DEF Got, Whole, TypeOK
  <2>4. pc # "init" /\ Shown(rbuf) => Whole(rbuf)
    BY <1>0 DEF IInv, Solid
  <2>5. pc = "init" /\ sequence[rbuf] # Unset => Whole(rbuf) \/ Broken(rbuf)
    BY <1>0 DEF IInv, AfterCrash
  <2> QED BY <1>0, <2>1, <2>2, <2>3, <2>4, <2>5 DEF Reading
<1>13. CASE CheckBefore
  <2>1. UNCHANGED <<writer, ring, rbuf, rseq, rstamp, rleft, rdata>> /\ rpc = "copy" /\ rleft = {}
    BY <1>13 DEF CheckBefore
  <2>2. CASE rpc' = "idle"
    BY <2>2 DEF Reading
  <2>3. CASE rpc' = "own" /\ Follows(rbuf, rseq)
    <3> SUFFICES ASSUME stamp[rbuf] = rstamp,
                        sequence[rbuf] = rseq \/ (pc = "publish" /\ rbuf = Slot(idx))
                 PROVE  Got
      BY <2>1, <2>3 DEF Reading, Got, Slot
    <3>1. CASE pc = "init"
      BY <1>0, <2>1, <2>3, <3>1, BrokenFollows DEF IInv, Reading
    <3>2. CASE pc = "copy" /\ rbuf = Slot(idx)
      BY <1>0, <2>3, <3>2, Lapped DEF IInv
    <3>3. CASE pc # "init" /\ ~(pc = "copy" /\ rbuf = Slot(idx))
      BY <1>0, <2>1, <3>3 DEF Shown, Reading
    <3> QED BY <3>1, <3>2, <3>3
  <2> QED BY <1>13, <2>2, <2>3 DEF CheckBefore
<1>14. CASE CheckOwn
  <2>1. UNCHANGED <<writer, ring, rbuf, rseq, rstamp, rleft, rdata>> /\ rpc = "own"
    BY <1>14 DEF CheckOwn
  <2>2. rpc' = "idle" \/ (rpc' = "accepted" /\ sequence[rbuf] = rseq /\ stamp[rbuf] = rstamp)
    BY <1>14 DEF CheckOwn
  <2> QED BY <1>0, <2>1, <2>2 DEF Reading, Got
<1> QED BY <1>1, <1>3, <1>4, <1>5, <1>6, <1>7, <1>8, <1>9, <1>10, <1>11, <1>12, <1>13, <1>14
        DEF Next, Write, Read, Entry, Skip, vars

LEMMA Inductive == IInv /\ [Next]_vars => IInv'
  BY TypeStep, RingStep, SolidStep, CrashStep, FreshStep, ReadStep DEF IInv

-----------------------------------------------------------------------------
LEMMA Holds == Spec => []IInv
  BY InitHolds, Inductive, PTL DEF Spec

\* Every behaviour of the writer, its crashes and the reader is type correct.
THEOREM TypeCorrect == Spec => []TypeOK
<1>1. IInv => TypeOK
  BY DEF IInv
<1> QED BY <1>1, Holds, PTL

\* A buffer whose predecessor holds the frame before is never half written, for rings of any
\* length and buffers of any size.
THEOREM FramesWhole == Spec => []FrameWhole
  BY WholeFrames, Holds, PTL

\* A reader that looks at the buffer before and then at its own header again accepts no
\* torn frame.
THEOREM ReaderUntorn == Spec => []Untorn
<1>1. IInv => Untorn
  BY DEF IInv, Reading, Got, Untorn
<1> QED BY <1>1, Holds, PTL
=============================================================================
