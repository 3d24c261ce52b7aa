------------------------- MODULE DatasetRangeProofs -------------------------
(***************************************************************************)
(* Proofs about MCDatasetRange: for any size of the batches, any capacity  *)
(* of the channel and recordings of any length, the search for the range   *)
(* is exact, the stream delivers the frames of the range in order and      *)
(* without a hole, and the summary of a run that was not cut off is exact. *)
(***************************************************************************)
EXTENDS MCDatasetRange, SequenceTheorems, WellFoundedInduction, TLAPS

\* The entries a..b exist and give no pointer of the target queue.
Passed(a, b) == \A i \in a..b : i <= Len(log) /\ ~Search!Match(i)

\* Of the entries a..b, those that were there when FetchQueueBounds was called do not.
Clear(a, b) == \A i \in a..b : i <= args.len => ~Search!Match(i)

Goroutine == [pc : {"idle", "probe", "scan", "found", "missing", "failed"}, cur : Nat, res : Nat]

SearchTypes ==
  /\ latest \in [{Target} -> Nat] /\ published \in [{Target} -> Nat]
  /\ log \in Seq(Nat)
  /\ args \in [from : Nat, to : Nat, len : Nat] /\ fwd \in Goroutine /\ bwd \in Goroutine
  /\ result \in [kind : {"none", "found", "missing", "failed"}, from : Nat, to : Nat]

\* Pointers in the log never go back, entries without the target queue left aside.
LogInv ==
  /\ \A i \in 1..Len(log) : log[i] <= published[Target]
  /\ \A i, k \in 1..Len(log) : i <= k /\ log[k] # 0 => log[i] <= log[k]

\* The entry that a goroutine has found: the first from args.from on, and the last up to
\* args.to of those that were there at the call.
IsFirst(i) ==
  /\ args.from <= i /\ Search!Match(i) /\ Passed(args.from, i - 1)
  /\ fwd.res = log[i] /\ (args.to < args.from => i = args.from)
IsLast(i) ==
  /\ i <= args.to /\ Search!Match(i) /\ Clear(i + 1, args.to)
  /\ bwd.res = log[i] /\ (IF args.from <= args.to THEN args.from <= i ELSE i = args.to)

\* What the goroutine of a bound knows: it has passed only entries without the queue.
FwdInv ==
  /\ fwd.pc # "idle"
  /\ fwd.pc = "probe" => fwd.cur = args.from
  /\ fwd.pc = "scan" => args.from <= fwd.cur /\ Passed(args.from, fwd.cur - 1)
  /\ fwd.pc = "found" => \E i \in 1..Len(log) : IsFirst(i)
  /\ fwd.pc = "missing" => Clear(args.from, args.to - 1)
BwdInv ==
  /\ bwd.pc # "idle"
  /\ bwd.pc = "probe" => bwd.cur = args.to
  /\ bwd.pc = "scan" => /\ bwd.cur <= args.to /\ Clear(bwd.cur, args.to)
                        /\ args.from <= args.to => args.from <= bwd.cur
  /\ bwd.pc = "found" => \E i \in 1..Len(log) : IsLast(i)
  /\ bwd.pc = "missing" => Clear(args.from, args.to)
ResultInv ==
  /\ result.kind = "found" => /\ fwd.pc = "found" /\ bwd.pc = "found"
                              /\ result.from = fwd.res /\ result.to = bwd.res
  /\ result.kind = "missing" => fwd.pc = "missing" \/ bwd.pc = "missing"

Called == 1 <= args.from /\ 1 <= args.to /\ args.len <= Len(log)

SearchInv ==
  \/ args = Search!NoArgs /\ fwd = Search!Idle /\ bwd = Search!Idle /\ result = Search!NoResult
  \/ Called /\ FwdInv /\ BwdInv /\ ResultInv

\* The stream, with what went through the channel.
D == Stream!Delivery
Wanted == Stream!Wanted

StreamTypes ==
  /\ \E n \in Nat : /\ good \in [1..n -> BOOLEAN]
                    /\ bounds \in [from : 1..n, to : 1..n]
  /\ spc \in {"read", "batch", "returned"} /\ cursor \in Nat /\ next \in Nat
  /\ received \in 0..ReadBatchSize /\ failed \in BOOLEAN
  /\ frames \in Seq(Nat) /\ taken \in Seq(Nat)

\* Of the deliveries d: only entries before x; all of W that lie before x.
OnlyBefore(d, x) == \A i \in 1..Len(d) : d[i] < x
AllBefore(d, W, x) == \A w \in W : w < x => \E k \in 1..Len(d) : d[k] = w

\* In order, frames of W only, and none of them left out on the way.
Gapless(d, W) ==
  /\ \A i, k \in 1..Len(d) : i < k => d[i] < d[k]
  /\ \A i \in 1..Len(d) : d[i] \in W /\ AllBefore(d, W, d[i])

\* The entries between the cursor and the next one do not unmarshal, so that it does no
\* harm that the next batch may read them again.
StreamInv ==
  /\ Gapless(D, Wanted)
  /\ spc = "read" => bounds.from <= cursor /\ OnlyBefore(D, cursor) /\ AllBefore(D, Wanted, cursor)
  /\ spc = "batch" => /\ bounds.from <= cursor /\ cursor <= next /\ (received > 0 => cursor < next)
                      /\ OnlyBefore(D, next) /\ OnlyBefore(D, cursor + 1) /\ AllBefore(D, Wanted, next)
  /\ spc = "returned" /\ ~failed => AllBefore(D, Wanted, bounds.to + 1)
  /\ failed => spc = "returned"

Messages == {"none", "saved", "discarded", "done"}
UiTypes == [running : BOOLEAN, done : BOOLEAN, err : BOOLEAN, saved : Nat, discarded : Nat]

\* The message in hand is what the counters of the UI are behind those of the detector.
Pending(o) == IF msg = o THEN 1 ELSE 0
ReportInv ==
  /\ ppc \in {"frames", "finalize", "report", "ended"} /\ perr \in BOOLEAN /\ msg \in Messages
  /\ stats \in [saved : Nat, discarded : Nat] /\ ui \in UiTypes
  /\ ppc # "frames" => Stream!Closed /\ perr = failed
  /\ msg = "done" => ppc = "ended"
  /\ ui.running => /\ ~ui.done
                   /\ stats.saved = ui.saved + Pending("saved")
                   /\ stats.discarded = ui.discarded + Pending("discarded")
  /\ ui.done => /\ ppc = "ended" /\ msg = "none" /\ ui.err = perr
                /\ ui.saved = stats.saved /\ ui.discarded = stats.discarded
  /\ summary # "none" => ~ui.running /\ summary = IF ui.err THEN "failed" ELSE "complete"

-----------------------------------------------------------------------------
\* The smallest element of a set of naturals, and the largest of one that is bounded.
LEMMA MinIsLeast ==
  ASSUME NEW S, S \subseteq Nat, S # {}
  PROVE  Search!Min(S) \in S /\ \A x \in S : Search!Min(S) <= x
<1> DEFINE R == {ss \in Nat \X Nat : ss[1] < ss[2]}
<1>1. IsWellFoundedOn(R, Nat)
  BY NatLessThanWellFounded DEF OpToRel
<1> HIDE DEF R
<1>2. PICK x \in S : \A y \in S : ~(<<y, x>> \in R)
  BY <1>1, WFMin
<1>3. \A y \in S : x <= y
  <2>1. ASSUME NEW y \in S, y < x PROVE FALSE
    <3>1. <<y, x>> \in R
      BY <2>1 DEF R
    <3>2. QED
      BY <1>2, <3>1
  <2>2. QED
    BY <2>1
<1>4. \E z \in S : \A y \in S : z <= y
  BY <1>3
<1>5. QED
  BY <1>4 DEF Search!Min

LEMMA MaxIsLargest ==
  ASSUME NEW n \in Nat, NEW S, S \subseteq 0..n, S # {}
  PROVE  Search!Max(S) \in S /\ \A x \in S : x <= Search!Max(S)
<1> DEFINE T == {n - x : x \in S}
<1>1. T \subseteq Nat /\ T # {}
  <2>1. PICK x \in S : TRUE
    OBVIOUS
  <2>2. n - x \in T
    BY <2>1
  <2>3. QED
    BY <2>2
<1>2. Search!Min(T) \in T /\ \A t \in T : Search!Min(T) <= t
  BY <1>1, MinIsLeast
<1>3. PICK x \in S : Search!Min(T) = n - x
  BY <1>2
<1>4. \A y \in S : y <= x
  BY <1>2, <1>3
<1>5. \E z \in S : \A y \in S : z >= y
  BY <1>4
<1>6. QED
  BY <1>5 DEF Search!Max

-----------------------------------------------------------------------------
\* The ids of a batch, up to the end of the log.
LEMMA BatchIs ==
  ASSUME SearchTypes, NEW a \in Nat, 1 <= a
  PROVE  LET e == IF a + SearchStep - 1 <= Len(log) THEN a + SearchStep - 1 ELSE Len(log)
         IN /\ Search!Batch(a) = a..e /\ e \in Nat /\ e <= Len(log)
            /\ a <= Len(log) => a <= e /\ Search!Max(Search!Batch(a)) = e
            /\ a > Len(log) => Search!Batch(a) = {}
<1> DEFINE e == IF a + SearchStep - 1 <= Len(log) THEN a + SearchStep - 1 ELSE Len(log)
           T == {a + SearchStep - 1, Len(log)}
<1>1. Len(log) \in Nat /\ SearchStep \in Nat /\ SearchStep >= 1
  BY BatchAssumption DEF SearchTypes
<1>2. Search!Min(T) \in T /\ \A x \in T : Search!Min(T) <= x
  <2>1. T \subseteq Nat /\ T # {}
    BY <1>1
  <2> HIDE DEF T
  <2>2. QED
    BY <2>1, MinIsLeast
<1>3. Search!Min(T) = e
  BY <1>1, <1>2
<1>4. /\ Search!Batch(a) = a..e /\ e \in Nat /\ e <= Len(log) /\ (a <= Len(log) => a <= e)
      /\ a > Len(log) => Search!Batch(a) = {}
  <2>1. Search!Batch(a) = a..e
    BY <1>3 DEF Search!Batch
  <2>2. e \in Nat /\ e <= Len(log) /\ (a <= Len(log) => a <= e)
    BY <1>1
  <2> HIDE DEF e
  <2>3. a > Len(log) => a..e = {}
    BY <1>1, <2>2
  <2>4. QED
    BY <2>1, <2>2, <2>3
<1>5. ASSUME a <= Len(log) PROVE Search!Max(a..e) = e
  <2> HIDE DEF e
  <2>1. a..e \subseteq 0..e /\ a..e # {} /\ e \in a..e
    BY <1>4, <1>5
  <2>2. Search!Max(a..e) \in a..e /\ \A x \in a..e : x <= Search!Max(a..e)
    BY <1>4, <2>1, MaxIsLargest
  <2>3. QED
    BY <1>4, <2>1, <2>2
<1>6. QED
  BY <1>4, <1>5

\* The record of a goroutine after an update.
Pcs == {"idle", "probe", "scan", "found", "missing", "failed"}
IsGoroutine(v, p, c, n) == v \in Goroutine /\ v.pc = p /\ v.cur = c /\ v.res = n

LEMMA Turned ==
  ASSUME NEW g \in Goroutine, NEW p \in Pcs
  PROVE  IsGoroutine([g EXCEPT !.pc = p], p, g.cur, g.res)
BY DEF Goroutine, Pcs, IsGoroutine

LEMMA Found ==
  ASSUME NEW g \in Goroutine, NEW n \in Nat
  PROVE  IsGoroutine([g EXCEPT !.pc = "found", !.res = n], "found", g.cur, n)
<1>1. [g EXCEPT !.pc = "found"] \in Goroutine
  BY DEF Goroutine
<1>2. [[g EXCEPT !.pc = "found"] EXCEPT !.res = n] \in Goroutine
  BY <1>1 DEF Goroutine
<1>3. [g EXCEPT !.pc = "found", !.res = n] \in Goroutine
  BY <1>2
<1>4. QED
  BY <1>3 DEF Goroutine, IsGoroutine

LEMMA Moved ==
  ASSUME NEW g \in Goroutine, NEW n \in Nat, NEW p \in Pcs
  PROVE  /\ IsGoroutine([g EXCEPT !.cur = n, !.pc = p], p, n, g.res)
         /\ IsGoroutine([g EXCEPT !.cur = n], g.pc, n, g.res)
<1>1. [g EXCEPT !.cur = n] \in Goroutine
  BY DEF Goroutine
<1>2. [[g EXCEPT !.cur = n] EXCEPT !.pc = p] \in Goroutine
  BY <1>1 DEF Goroutine, Pcs
<1>3. [g EXCEPT !.cur = n, !.pc = p] \in Goroutine
  BY <1>2
<1>4. QED
  BY <1>1, <1>3 DEF Goroutine, IsGoroutine

\* The log is only appended to, so that what a goroutine has seen stays.
LEMMA LogGrows ==
  ASSUME SearchTypes, SearchInv, UNCHANGED <<args, fwd, bwd, result>>,
         Len(log') \in Nat, Len(log) <= Len(log'), \A i \in 1..Len(log) : log'[i] = log[i]
  PROVE  SearchInv'
<1>1. CASE args = Search!NoArgs /\ fwd = Search!Idle /\ bwd = Search!Idle /\ result = Search!NoResult
  BY <1>1 DEF SearchInv, Search!NoArgs, Search!Idle, Search!NoResult
<1>2. CASE Called /\ FwdInv /\ BwdInv /\ ResultInv
  <2>1. /\ Len(log) \in Nat /\ args.from \in Nat /\ args.to \in Nat /\ args.len \in Nat
        /\ fwd.cur \in Nat /\ bwd.cur \in Nat
    BY DEF SearchTypes, Goroutine
  <2>2. \A i \in 1..Len(log) : Search!Match(i)' <=> Search!Match(i)
    BY <2>1 DEF Search!Match
  <2>3. ASSUME NEW a \in Nat, NEW b \in Int, 1 <= a, Clear(a, b)
        PROVE  Clear(a, b)'
    <3>1. ASSUME NEW i \in a..b, i <= args.len PROVE ~Search!Match(i)'
      <4>1. i \in 1..Len(log) /\ ~Search!Match(i)
        BY <1>2, <2>1, <2>3, <3>1 DEF Called, Clear
      <4>2. QED
        BY <2>2, <4>1
    <3>2. QED
      BY <3>1 DEF Clear
  <2>4. ASSUME NEW a \in Nat, NEW b \in Int, 1 <= a, Passed(a, b)
        PROVE  Passed(a, b)'
    <3>1. ASSUME NEW i \in a..b PROVE i <= Len(log') /\ ~Search!Match(i)'
      <4>1. i \in 1..Len(log) /\ ~Search!Match(i)
        BY <2>1, <2>4 DEF Passed
      <4>2. QED
        BY <2>1, <2>2, <4>1
    <3>2. QED
      BY <3>1 DEF Passed
  <2>5. FwdInv'
    <3>1. CASE fwd.pc = "found"
      <4>1. PICK i \in 1..Len(log) : IsFirst(i)
        BY <1>2, <3>1 DEF FwdInv
      <4>2. Passed(args.from, i - 1)'
        BY <1>2, <2>1, <2>4, <4>1 DEF IsFirst, Called
      <4>3. IsFirst(i)' /\ i \in 1..Len(log')
        BY <2>1, <2>2, <4>1, <4>2 DEF IsFirst
      <4>4. QED
        BY <3>1, <4>3 DEF FwdInv
    <3>2. CASE fwd.pc = "scan"
      <4>1. Passed(args.from, fwd.cur - 1)'
        BY <1>2, <2>1, <2>4, <3>2 DEF FwdInv, Called
      <4>2. QED
        BY <1>2, <3>2, <4>1 DEF FwdInv
    <3>3. CASE fwd.pc = "missing"
      <4>1. Clear(args.from, args.to - 1)'
        BY <1>2, <2>1, <2>3, <3>3 DEF FwdInv, Called
      <4>2. QED
        BY <1>2, <3>3, <4>1 DEF FwdInv
    <3>4. CASE fwd.pc \notin {"scan", "found", "missing"}
      BY <1>2, <3>4 DEF FwdInv
    <3>5. QED
      BY <3>1, <3>2, <3>3, <3>4
  <2>6. BwdInv'
    <3>1. CASE bwd.pc = "found"
      <4>1. PICK i \in 1..Len(log) : IsLast(i)
        BY <1>2, <3>1 DEF BwdInv
      <4>2. Clear(i + 1, args.to)'
        BY <2>1, <2>3, <4>1 DEF IsLast
      <4>3. IsLast(i)' /\ i \in 1..Len(log')
        BY <2>1, <2>2, <4>1, <4>2 DEF IsLast
      <4>4. QED
        BY <3>1, <4>3 DEF BwdInv
    <3>2. CASE bwd.pc = "scan"
      <4>0. CASE bwd.cur = 0
        <5>1. Clear(1, args.to)
          BY <1>2, <2>1, <3>2, <4>0 DEF BwdInv, Clear
        <5>2. Clear(1, args.to)'
          BY <2>1, <2>3, <5>1
        <5>3. ~Search!Match(0)'
          BY DEF Search!Match
        <5>4. Clear(0, args.to)'
          BY <2>1, <5>2, <5>3 DEF Clear
        <5>5. QED
          BY <1>2, <3>2, <4>0, <5>4 DEF BwdInv
      <4>1. CASE bwd.cur # 0
        <5>1. Clear(bwd.cur, args.to)'
          BY <1>2, <2>1, <2>3, <3>2, <4>1 DEF BwdInv
        <5>2. QED
          BY <1>2, <3>2, <5>1 DEF BwdInv
      <4>2. QED
        BY <4>0, <4>1
    <3>3. CASE bwd.pc = "missing"
      <4>1. Clear(args.from, args.to)'
        BY <1>2, <2>1, <2>3, <3>3 DEF BwdInv, Called
      <4>2. QED
        BY <1>2, <3>3, <4>1 DEF BwdInv
    <3>4. CASE bwd.pc \notin {"scan", "found", "missing"}
      BY <1>2, <3>4 DEF BwdInv
    <3>5. QED
      BY <3>1, <3>2, <3>3, <3>4
  <2>7. ResultInv' /\ Called'
    BY <1>2, <2>1 DEF ResultInv, Called
  <2>8. QED
    BY <2>5, <2>6, <2>7 DEF SearchInv
<1>3. QED
  BY <1>1, <1>2 DEF SearchInv

-----------------------------------------------------------------------------
LEMMA Numbers ==
  ASSUME SearchTypes
  PROVE  /\ Len(log) \in Nat /\ args.from \in Nat /\ args.to \in Nat /\ args.len \in Nat
         /\ fwd.cur \in Nat /\ bwd.cur \in Nat /\ \A i \in 1..Len(log) : log[i] \in Nat
  BY DEF SearchTypes, Goroutine

\* What does not change when neither the log nor the arguments do.
LEMMA SameLog ==
  ASSUME UNCHANGED <<log, args>>
  PROVE  /\ \A i : Search!Match(i)' <=> Search!Match(i)
         /\ \A a, b : (Clear(a, b)' <=> Clear(a, b)) /\ (Passed(a, b)' <=> Passed(a, b))
         /\ Called' <=> Called
<1>1. \A i : Search!Match(i)' <=> Search!Match(i)
  BY DEF Search!Match
<1>2. QED
  BY <1>1 DEF Clear, Passed, Called

\* One step of the goroutine of the lower bound.
LEMMA ForwardStep ==
  ASSUME SearchTypes, SearchInv, Search!ProbeFrom \/ Search!SearchForward
  PROVE  SearchTypes' /\ SearchInv'
<1>1. /\ UNCHANGED <<latest, published, seen, log, args, bwd, result>>
      /\ fwd.pc \in {"probe", "scan"} /\ fwd \in Goroutine
  BY DEF Search!ProbeFrom, Search!SearchForward, Search!recorderVars, SearchTypes
<1>2. Called /\ FwdInv /\ BwdInv /\ ResultInv
  BY <1>1 DEF SearchInv, Search!Idle
<1>3. /\ Len(log) \in Nat /\ args.from \in Nat /\ args.to \in Nat /\ args.len \in Nat
      /\ fwd.cur \in Nat /\ \A i \in 1..Len(log) : log[i] \in Nat
  BY Numbers
<1>4. /\ \A i : Search!Match(i)' <=> Search!Match(i)
      /\ \A a, b : (Clear(a, b)' <=> Clear(a, b)) /\ (Passed(a, b)' <=> Passed(a, b))
      /\ Called' <=> Called
  BY <1>1, SameLog
<1>5. result.kind \notin {"found", "missing"} \/ (result.kind = "missing" /\ bwd.pc = "missing")
  BY <1>1, <1>2 DEF ResultInv
<1>6. BwdInv'
  BY <1>1, <1>2, <1>4 DEF BwdInv, IsLast
<1>7. ASSUME fwd' \in Goroutine, FwdInv' PROVE SearchTypes' /\ SearchInv'
  <2>1. ResultInv'
    BY <1>1, <1>5 DEF ResultInv
  <2>2. QED
    BY <1>1, <1>2, <1>4, <1>6, <1>7, <2>1 DEF SearchTypes, SearchInv
<1>8. ASSUME NEW m \in 1..Len(log), args.from <= m, Search!Match(m), Passed(args.from, m - 1),
             args.to < args.from => m = args.from,
             fwd' = [fwd EXCEPT !.pc = "found", !.res = log[m]]
      PROVE  SearchTypes' /\ SearchInv'
  <2>1. fwd' \in Goroutine /\ fwd'.pc = "found" /\ fwd'.res = log[m]
    BY <1>1, <1>3, <1>8, Found DEF IsGoroutine
  <2>2. IsFirst(m)'
    BY <1>1, <1>4, <1>8, <2>1 DEF IsFirst
  <2>3. FwdInv'
    BY <1>1, <1>8, <2>1, <2>2 DEF FwdInv
  <2>4. QED
    BY <1>7, <2>1, <2>3
<1>9. ASSUME Clear(args.from, args.to - 1), fwd' = [fwd EXCEPT !.pc = "missing"]
      PROVE  SearchTypes' /\ SearchInv'
  <2>1. fwd' \in Goroutine /\ fwd'.pc = "missing"
    BY <1>1, <1>9, Turned DEF IsGoroutine, Pcs
  <2>2. FwdInv'
    BY <1>1, <1>4, <1>9, <2>1 DEF FwdInv
  <2>3. QED
    BY <1>7, <2>1, <2>2
<1>10. Passed(args.from, args.from - 1)
  BY <1>3 DEF Passed
<1>11. CASE Search!ProbeFrom
  <2>1. fwd.cur = args.from /\ fwd.pc = "probe"
    BY <1>2, <1>11 DEF Search!ProbeFrom, FwdInv
  <2>2. CASE Search!Match(fwd.cur)
    <3>1. fwd' = [fwd EXCEPT !.pc = "found", !.res = log[args.from]]
      BY <1>11, <2>1, <2>2 DEF Search!ProbeFrom, Search!Probed
    <3>2. args.from \in 1..Len(log) /\ Search!Match(args.from)
      BY <2>1, <2>2 DEF Search!Match
    <3>3. args.from \in Nat /\ args.from <= args.from
      BY <1>3
    <3>4. QED
      BY <1>8, <1>10, <3>1, <3>2, <3>3
  <2>3. CASE ~Search!Match(fwd.cur)
    <3>1. fwd' = [fwd EXCEPT !.pc = "scan"]
      BY <1>11, <2>3 DEF Search!ProbeFrom, Search!Probed
    <3>2. fwd' \in Goroutine /\ fwd'.pc = "scan" /\ fwd'.cur = args.from
      BY <1>1, <2>1, <3>1, Turned DEF IsGoroutine, Pcs
    <3>3. FwdInv'
      BY <1>1, <1>3, <1>4, <1>10, <3>2 DEF FwdInv
    <3>4. QED
      BY <1>7, <3>2, <3>3
  <2>4. QED
    BY <2>2, <2>3
<1>12. CASE Search!SearchForward
  <2> DEFINE c == fwd.cur  M == {i \in Search!Batch(c) : Search!Match(i)}
  <2>1. fwd.pc = "scan" /\ args.from <= c /\ Passed(args.from, c - 1) /\ 1 <= c
    BY <1>2, <1>3, <1>12 DEF Search!SearchForward, FwdInv, Called
  <2>2. CASE c >= args.to \/ Search!Batch(c) = {}
    <3>1. fwd' = [fwd EXCEPT !.pc = "missing"]
      BY <1>12, <2>2 DEF Search!SearchForward, Search!Forward
    <3>2. CASE c >= args.to
      <4>1. Clear(args.from, args.to - 1)
        BY <1>3, <2>1, <3>2 DEF Clear, Passed
      <4>2. QED
        BY <1>9, <3>1, <4>1
    <3>3. CASE Search!Batch(c) = {}
      <4>1. c > Len(log)
        <5>1. ASSUME c <= Len(log) PROVE FALSE
          <6>1. c \in Search!Batch(c)
            BY <1>3, <2>1, <5>1, BatchIs
          <6>2. QED
            BY <3>3, <6>1
        <5>2. QED
          BY <1>3, <5>1
      <4>2. ASSUME NEW i \in args.from..(args.to - 1), i <= args.len PROVE ~Search!Match(i)
        <5>1. i \in args.from..(c - 1)
          BY <1>2, <1>3, <2>1, <4>1, <4>2 DEF Called
        <5>2. QED
          BY <2>1, <5>1 DEF Passed
      <4>3. Clear(args.from, args.to - 1)
        BY <4>2 DEF Clear
      <4>4. QED
        BY <1>9, <3>1, <4>3
    <3>4. QED
      BY <2>2, <3>2, <3>3
  <2>3. CASE ~(c >= args.to \/ Search!Batch(c) = {})
    <3> DEFINE e == IF c + SearchStep - 1 <= Len(log) THEN c + SearchStep - 1 ELSE Len(log)
    <3>1. c \in 1..Len(log)
      BY <1>3, <2>1, <2>3, BatchIs
    <3>2. /\ Search!Batch(c) = c..e /\ e \in Nat /\ e <= Len(log) /\ c <= e
          /\ Search!Max(Search!Batch(c)) = e
      BY <1>3, <3>1, BatchIs
    <3> HIDE DEF e
    <3>3. CASE M # {}
      <4>1. M \subseteq Nat
        BY <1>3, <3>2
      <4>2. Search!Min(M) \in M /\ \A i \in M : Search!Min(M) <= i
        BY <3>3, <4>1, MinIsLeast
      <4> DEFINE m == Search!Min(M)
      <4>3. fwd' = [fwd EXCEPT !.pc = "found", !.res = log[m]]
        BY <1>12, <2>3, <3>3 DEF Search!SearchForward, Search!Forward
      <4>4. m \in c..e /\ Search!Match(m) /\ \A i \in c..(m - 1) : ~Search!Match(i)
        <5>1. m \in c..e /\ Search!Match(m)
          BY <3>2, <4>2
        <5>2. ASSUME NEW i \in c..(m - 1), Search!Match(i) PROVE FALSE
          <6>1. i \in c..e
            BY <1>3, <3>2, <5>1
          <6>2. i \in M
            BY <3>2, <5>2, <6>1
          <6>3. m <= i
            BY <4>2, <6>2
          <6>4. QED
            BY <1>3, <3>2, <5>1, <6>1, <6>3
        <5>3. QED
          BY <5>1, <5>2
      <4> HIDE DEF m
      <4>5. m \in 1..Len(log) /\ args.from <= m /\ ~(args.to < args.from)
        BY <1>3, <2>1, <2>3, <3>1, <3>2, <4>4
      <4>6. ASSUME NEW i \in args.from..(m - 1) PROVE i <= Len(log) /\ ~Search!Match(i)
        <5>1. CASE i <= c - 1
          BY <1>3, <2>1, <5>1 DEF Passed
        <5>2. CASE ~(i <= c - 1)
          BY <1>3, <3>1, <3>2, <4>4, <4>5, <5>2
        <5>3. QED
          BY <5>1, <5>2
      <4>7. Passed(args.from, m - 1)
        BY <4>6 DEF Passed
      <4>8. QED
        BY <1>8, <4>3, <4>4, <4>5, <4>7
    <3>4. CASE M = {}
      <4>1. fwd' = [fwd EXCEPT !.cur = e + 1]
        BY <1>12, <2>3, <3>2, <3>4 DEF Search!SearchForward, Search!Forward
      <4>2. e \in Nat /\ e + 1 \in Nat
        BY <1>3, <3>2
      <4>3. fwd' \in Goroutine /\ fwd'.pc = "scan" /\ fwd'.cur = e + 1
        <5>1. IsGoroutine(fwd', fwd.pc, e + 1, fwd.res)
          BY <1>1, <4>1, <4>2, Moved DEF Pcs
        <5>2. QED
          BY <2>1, <5>1 DEF IsGoroutine
      <4>4. \A i \in c..e : ~Search!Match(i)
        BY <3>2, <3>4
      <4>5. ASSUME NEW i \in args.from..e PROVE i <= Len(log) /\ ~Search!Match(i)
        <5>1. CASE i <= c - 1
          BY <1>3, <2>1, <5>1 DEF Passed
        <5>2. CASE ~(i <= c - 1)
          BY <1>3, <3>1, <3>2, <4>4, <5>2
        <5>3. QED
          BY <5>1, <5>2
      <4>6. Passed(args.from, e)
        BY <4>5 DEF Passed
      <4>7. (e + 1) - 1 = e /\ args.from <= e + 1
        BY <1>3, <2>1, <3>2, <4>2
      <4>8. FwdInv'
        BY <1>1, <1>4, <4>3, <4>6, <4>7 DEF FwdInv
      <4>9. QED
        BY <1>7, <4>3, <4>8
    <3>5. QED
      BY <3>3, <3>4
  <2>4. QED
    BY <2>2, <2>3
<1>13. QED
  BY <1>11, <1>12

\* One step of the goroutine of the upper bound.  A batch starts SearchStep before
\* currentPtr and so ends at least before it or with the log, and currentPtr itself was
\* read before.
LEMMA BackwardStep ==
  ASSUME SearchTypes, SearchInv, Search!ProbeTo \/ Search!SearchBackward
  PROVE  SearchTypes' /\ SearchInv'
<1>1. /\ UNCHANGED <<latest, published, seen, log, args, fwd, result>>
      /\ bwd.pc \in {"probe", "scan"} /\ bwd \in Goroutine
  BY DEF Search!ProbeTo, Search!SearchBackward, Search!recorderVars, SearchTypes
<1>2. Called /\ FwdInv /\ BwdInv /\ ResultInv
  BY <1>1 DEF SearchInv, Search!Idle
<1>3. /\ Len(log) \in Nat /\ args.from \in Nat /\ args.to \in Nat /\ args.len \in Nat
      /\ bwd.cur \in Nat /\ \A i \in 1..Len(log) : log[i] \in Nat
  BY Numbers
<1>4. /\ \A i : Search!Match(i)' <=> Search!Match(i)
      /\ \A a, b : (Clear(a, b)' <=> Clear(a, b)) /\ (Passed(a, b)' <=> Passed(a, b))
      /\ Called' <=> Called
  BY <1>1, SameLog
<1>5. result.kind \notin {"found", "missing"} \/ (result.kind = "missing" /\ fwd.pc = "missing")
  BY <1>1, <1>2 DEF ResultInv
<1>6. FwdInv'
  BY <1>1, <1>2, <1>4 DEF FwdInv, IsFirst
<1>7. ASSUME bwd' \in Goroutine, BwdInv' PROVE SearchTypes' /\ SearchInv'
  <2>1. ResultInv'
    BY <1>1, <1>5 DEF ResultInv
  <2>2. QED
    BY <1>1, <1>2, <1>4, <1>6, <1>7, <2>1 DEF SearchTypes, SearchInv
<1>8. ASSUME NEW m \in 1..Len(log), m <= args.to, Search!Match(m), Clear(m + 1, args.to),
             IF args.from <= args.to THEN args.from <= m ELSE m = args.to,
             bwd' = [bwd EXCEPT !.pc = "found", !.res = log[m]]
      PROVE  SearchTypes' /\ SearchInv'
  <2>1. bwd' \in Goroutine /\ bwd'.pc = "found" /\ bwd'.res = log[m]
    BY <1>1, <1>3, <1>8, Found DEF IsGoroutine
  <2>2. IsLast(m)'
    BY <1>1, <1>4, <1>8, <2>1 DEF IsLast
  <2>3. BwdInv'
    BY <1>1, <1>8, <2>1, <2>2 DEF BwdInv
  <2>4. QED
    BY <1>7, <2>1, <2>3
<1>9. CASE Search!ProbeTo
  <2>1. bwd.cur = args.to /\ bwd.pc = "probe"
    BY <1>2, <1>9 DEF Search!ProbeTo, BwdInv
  <2>2. CASE Search!Match(bwd.cur)
    <3>1. bwd' = [bwd EXCEPT !.pc = "found", !.res = log[args.to]]
      BY <1>9, <2>1, <2>2 DEF Search!ProbeTo, Search!Probed
    <3>2. args.to \in 1..Len(log) /\ Search!Match(args.to)
      BY <2>1, <2>2 DEF Search!Match
    <3>3. Clear(args.to + 1, args.to)
      BY <1>3 DEF Clear
    <3>4. args.to <= args.to /\ IF args.from <= args.to THEN args.from <= args.to ELSE args.to = args.to
      BY <1>3
    <3>5. QED
      BY <1>8, <3>1, <3>2, <3>3, <3>4
  <2>3. CASE ~Search!Match(bwd.cur)
    <3>1. bwd' = [bwd EXCEPT !.pc = "scan"]
      BY <1>9, <2>3 DEF Search!ProbeTo, Search!Probed
    <3>2. bwd' \in Goroutine /\ bwd'.pc = "scan" /\ bwd'.cur = args.to
      BY <1>1, <2>1, <3>1, Turned DEF IsGoroutine, Pcs
    <3>3. Clear(args.to, args.to)
      BY <1>3, <2>1, <2>3 DEF Clear
    <3>4. BwdInv'
      BY <1>1, <1>3, <1>4, <3>2, <3>3 DEF BwdInv
    <3>5. QED
      BY <1>7, <3>2, <3>4
  <2>4. QED
    BY <2>2, <2>3
<1>10. CASE Search!SearchBackward
  <2> DEFINE c == bwd.cur  s == Search!BatchStart(c)
             M == {i \in Search!Batch(s) : i <= c /\ Search!Match(i)}
  <2>1. /\ bwd.pc = "scan" /\ c <= args.to /\ Clear(c, args.to)
        /\ args.from <= args.to => args.from <= c
    BY <1>2, <1>10 DEF Search!SearchBackward, BwdInv
  <2>2. CASE c <= args.from
    <3>1. bwd' = [bwd EXCEPT !.pc = "missing"]
      BY <1>10, <2>2 DEF Search!SearchBackward, Search!Backward
    <3>2. bwd' \in Goroutine /\ bwd'.pc = "missing"
      BY <1>1, <3>1, Turned DEF IsGoroutine, Pcs
    <3>3. Clear(args.from, args.to)
      BY <1>3, <2>1, <2>2 DEF Clear
    <3>4. BwdInv'
      BY <1>1, <1>4, <3>2, <3>3 DEF BwdInv
    <3>5. QED
      BY <1>7, <3>2, <3>4
  <2>3. CASE ~(c <= args.from)
    <3> DEFINE e == IF s + SearchStep - 1 <= Len(log) THEN s + SearchStep - 1 ELSE Len(log)
               l == Search!LastEntry(c)
               n == Search!NextBack(c)
    <3>1. 1 <= s /\ args.from <= s /\ s < c /\ c <= s + SearchStep /\ s \in Nat
      <4>1. s = IF c >= SearchStep /\ c - SearchStep > args.from THEN c - SearchStep ELSE args.from
        BY DEF Search!BatchStart
      <4>2. SearchStep \in Nat /\ SearchStep >= 1 /\ 1 <= args.from
        BY <1>2, BatchAssumption DEF Called
      <4> HIDE DEF s
      <4>3. QED
        BY <1>3, <2>1, <2>3, <4>1, <4>2
    <3>2. /\ Search!Batch(s) = s..e /\ e \in Nat /\ e <= Len(log)
          /\ s <= Len(log) => s <= e /\ Search!Max(Search!Batch(s)) = e
          /\ s > Len(log) => Search!Batch(s) = {}
      BY <3>1, BatchIs
    <3>3. e = Len(log) \/ c - 1 <= e
      BY <1>3, <3>1, BatchAssumption
    <3> HIDE DEF e, s
    <3>4. ASSUME NEW i \in s..(c - 1), i <= args.len, Search!Match(i) PROVE i \in M
      <4>1. i \in s..e /\ i <= c
        BY <1>2, <1>3, <3>1, <3>2, <3>3, <3>4 DEF Called
      <4>2. QED
        BY <3>2, <3>4, <4>1
    <3>5. CASE M # {}
      <4>1. M \subseteq 0..Len(log)
        BY <1>3, <3>1, <3>2
      <4>2. Search!Max(M) \in M /\ \A i \in M : i <= Search!Max(M)
        BY <1>3, <3>5, <4>1, MaxIsLargest
      <4> DEFINE m == Search!Max(M)
      <4>3. bwd' = [bwd EXCEPT !.pc = "found", !.res = log[m]]
        BY <1>10, <2>3, <3>5 DEF Search!SearchBackward, Search!Backward, s
      <4>4. m \in s..e /\ m <= c /\ Search!Match(m)
        BY <3>2, <4>2
      <4>5. ASSUME NEW i \in (m + 1)..args.to, i <= args.len, Search!Match(i) PROVE FALSE
        <5>1. CASE i >= c
          BY <1>3, <2>1, <4>5, <5>1 DEF Clear
        <5>2. CASE i < c
          <6>1. i \in s..(c - 1) /\ i > m
            BY <1>3, <3>1, <3>2, <4>4, <5>2
          <6>2. i <= m
            BY <3>4, <4>2, <4>5, <6>1
          <6>3. QED
            BY <1>3, <3>1, <3>2, <4>4, <6>1, <6>2
        <5>3. QED
          BY <1>3, <5>1, <5>2, <4>4
      <4> HIDE DEF m
      <4>6. m \in 1..Len(log) /\ m <= args.to /\ args.from <= m /\ args.from <= args.to
        BY <1>3, <2>1, <2>3, <3>1, <3>2, <4>4
      <4>7. Clear(m + 1, args.to)
        BY <4>5 DEF Clear
      <4>8. QED
        BY <1>8, <4>3, <4>4, <4>6, <4>7
    <3>6. CASE M = {}
      <4>1. ASSUME Search!Batch(s) # {} PROVE l \in {e, c + 1} /\ e >= s /\ l <= c + 1
        <5>0. s <= Len(log)
          BY <1>3, <3>1, <3>2, <4>1
        <5> DEFINE T == {e, c + 1}
        <5>1. T \subseteq Nat /\ T # {}
          BY <1>3, <3>2
        <5>2. Search!Min(T) \in T /\ \A x \in T : Search!Min(T) <= x
          <6> HIDE DEF T
          <6>1. QED
            BY <5>1, MinIsLeast
        <5>3. l = Search!Min(T)
          BY <3>2, <5>0 DEF Search!LastEntry, s
        <5>4. QED
          BY <3>2, <5>0, <5>2, <5>3
      <4>2. n = IF Search!Batch(s) # {} /\ l < c THEN l ELSE s
        BY DEF Search!NextBack, s
      <4>3. bwd' = [bwd EXCEPT !.cur = n, !.pc = IF n = args.from THEN "missing" ELSE "scan"]
        BY <1>10, <2>3, <3>6 DEF Search!SearchBackward, Search!Backward, s
      <4> HIDE DEF n, l
      <4>4. n \in Nat /\ s <= n /\ n < c
        BY <1>3, <2>3, <3>1, <3>2, <4>1, <4>2
      <4>5. args.from <= n /\ n <= args.to /\ args.from <= args.to
        BY <1>3, <2>1, <2>3, <3>1, <4>4
      <4>6. ASSUME NEW i \in n..args.to, i <= args.len, Search!Match(i) PROVE FALSE
        <5>1. CASE i >= c
          BY <1>3, <2>1, <4>6, <5>1 DEF Clear
        <5>2. CASE i < c
          <6>1. i \in s..(c - 1)
            BY <1>3, <3>1, <4>4, <5>2
          <6>2. QED
            BY <3>4, <3>6, <4>6, <6>1
        <5>3. QED
          BY <1>3, <4>4, <5>1, <5>2
      <4>7. Clear(n, args.to)
        BY <4>6 DEF Clear
      <4>8. IsGoroutine(bwd', IF n = args.from THEN "missing" ELSE "scan", n, bwd.res)
        <5> DEFINE p == IF n = args.from THEN "missing" ELSE "scan"
        <5>1. p \in Pcs
          BY DEF Pcs
        <5> HIDE DEF p
        <5>2. bwd' = [bwd EXCEPT !.cur = n, !.pc = p]
          BY <4>3 DEF p
        <5>3. IsGoroutine(bwd', p, n, bwd.res)
          BY <1>1, <4>4, <5>1, <5>2, Moved
        <5>4. QED
          BY <5>3 DEF p
      <4>9. BwdInv'
        BY <1>1, <1>4, <4>5, <4>7, <4>8 DEF BwdInv, IsGoroutine
      <4>10. QED
        BY <1>7, <4>8, <4>9 DEF IsGoroutine
    <3>7. QED
      BY <3>5, <3>6
  <2>4. QED
    BY <2>2, <2>3
<1>11. QED
  BY <1>9, <1>10

-----------------------------------------------------------------------------
\* The recorder: it appends entries whose pointers are at least those before.
LEMMA StationStep ==
  ASSUME SearchTypes, LogInv, SearchInv, Search!Station
  PROVE  SearchTypes' /\ LogInv' /\ SearchInv'
<1>1. log \in Seq(Nat) /\ Len(log) \in Nat
  BY DEF SearchTypes
<1>2. CASE Search!Frame \/ Search!Restart
  <2>1. UNCHANGED <<published, log, args, fwd, bwd, result>> /\ latest' \in [{Target} -> Nat]
    BY <1>2 DEF Search!Frame, Search!Restart, Search!Recorder!Grow, SearchTypes
  <2>2. SearchInv'
    BY <1>1, <2>1, LogGrows
  <2>3. QED
    BY <2>1, <2>2 DEF SearchTypes, LogInv
<1>3. CASE Search!Record
  <2> DEFINE p == published'[Target]
  <2>1. /\ published' \in [{Target} -> Nat] /\ published[Target] <= p
        /\ UNCHANGED <<latest, args, fwd, bwd, result>>
    BY <1>3 DEF Search!Record, Search!Recorder!Publish
  <2>2. p \in Nat /\ published[Target] \in Nat
    BY <2>1 DEF SearchTypes
  <2>3. PICK e \in {0, p} : log' = Append(log, e)
    BY <1>3 DEF Search!Record
  <2>4. /\ log' \in Seq(Nat) /\ Len(log') = Len(log) + 1 /\ log'[Len(log) + 1] = e
        /\ \A i \in 1..Len(log) : log'[i] = log[i]
    BY <1>1, <2>2, <2>3
  <2>5. SearchInv'
    BY <1>1, <2>1, <2>4, LogGrows
  <2>6. \A i \in 1..Len(log) : log[i] \in Nat
    BY Numbers
  <2> HIDE DEF p
  <2>7. \A i \in 1..Len(log') : log'[i] <= p
    <3>1. \A i \in 1..Len(log) : log'[i] <= p
      BY <2>1, <2>2, <2>4, <2>6 DEF LogInv
    <3>2. log'[Len(log) + 1] <= p
      BY <2>2, <2>3, <2>4
    <3>3. QED
      BY <1>1, <2>4, <3>1, <3>2
  <2>8. \A i, k \in 1..Len(log') : i <= k /\ log'[k] # 0 => log'[i] <= log'[k]
    <3> SUFFICES ASSUME NEW i \in 1..Len(log'), NEW k \in 1..Len(log'), i <= k, log'[k] # 0
                 PROVE  log'[i] <= log'[k]
      OBVIOUS
    <3>1. CASE k = Len(log) + 1
      BY <2>3, <2>4, <2>7, <3>1
    <3>2. CASE k # Len(log) + 1
      <4>1. i \in 1..Len(log) /\ k \in 1..Len(log)
        BY <1>1, <2>4, <3>2
      <4>2. log'[i] = log[i] /\ log'[k] = log[k]
        BY <2>4, <4>1
      <4>3. QED
        BY <4>1, <4>2 DEF LogInv
    <3>3. QED
      BY <3>1, <3>2
  <2>9. LogInv'
    BY <2>7, <2>8 DEF LogInv, p
  <2>10. QED
    BY <2>1, <2>4, <2>5, <2>9 DEF SearchTypes
<1>4. QED
  BY <1>2, <1>3 DEF Search!Station

\* The other steps of FetchQueueBounds.
LEMMA FetchStep ==
  ASSUME SearchTypes, SearchInv, NEW from \in Search!Decimals, NEW to \in Search!Decimals,
         Search!Fetch(from, to)
  PROVE  SearchTypes' /\ SearchInv'
<1>0. from \in Nat /\ to \in Nat /\ 1 <= from /\ 1 <= to
  BY DEF Search!Decimals
<1>1. Len(log) \in Nat /\ result.kind \in {"none", "failed"}
  BY <1>0 DEF Search!Fetch, SearchInv, SearchTypes, Search!NoArgs, Search!NoResult, Called
<1>2. /\ UNCHANGED <<latest, published, seen, log, result>>
      /\ args' = [from |-> from, to |-> to, len |-> Len(log)]
      /\ fwd' = [pc |-> "probe", cur |-> from, res |-> 0]
      /\ bwd' = [pc |-> "probe", cur |-> to, res |-> 0]
  BY DEF Search!Fetch
<1>3. SearchTypes'
  BY <1>0, <1>1, <1>2 DEF SearchTypes, Goroutine
<1>4. FwdInv' /\ BwdInv' /\ ResultInv' /\ Called'
  BY <1>0, <1>1, <1>2 DEF FwdInv, BwdInv, ResultInv, Called
<1>5. QED
  BY <1>3, <1>4 DEF SearchInv

LEMMA JoinStep ==
  ASSUME SearchTypes, SearchInv, Search!ReadFails \/ Search!Join
  PROVE  SearchTypes' /\ SearchInv'
<1>1. UNCHANGED <<latest, published, seen, log, args>>
  BY DEF Search!ReadFails, Search!Join, Search!recorderVars
<1>2. Called /\ FwdInv /\ BwdInv /\ ResultInv
  BY DEF Search!ReadFails, Search!Join, Search!Reading, Search!Ended, SearchInv, Search!Idle
<1>3. /\ \A i : Search!Match(i)' <=> Search!Match(i)
      /\ \A a, b : (Clear(a, b)' <=> Clear(a, b)) /\ (Passed(a, b)' <=> Passed(a, b))
      /\ Called' <=> Called
  BY <1>1, SameLog
<1>4. CASE Search!ReadFails
  <2>1. result' = result
    BY <1>4 DEF Search!ReadFails
  <2>2. CASE Search!Reading(fwd) /\ fwd' = [fwd EXCEPT !.pc = "failed"] /\ UNCHANGED bwd
    <3>1. fwd' \in Goroutine /\ fwd'.pc = "failed" /\ fwd.pc \in {"probe", "scan"}
      BY <2>2, Turned DEF IsGoroutine, Pcs, Search!Reading, SearchTypes
    <3>2. FwdInv' /\ BwdInv' /\ ResultInv'
      BY <1>1, <1>2, <1>3, <2>1, <2>2, <3>1 DEF FwdInv, BwdInv, ResultInv, IsFirst, IsLast
    <3>3. QED
      BY <1>1, <1>2, <1>3, <2>1, <2>2, <3>1, <3>2 DEF SearchTypes, SearchInv
  <2>3. CASE Search!Reading(bwd) /\ bwd' = [bwd EXCEPT !.pc = "failed"] /\ UNCHANGED fwd
    <3>1. bwd' \in Goroutine /\ bwd'.pc = "failed" /\ bwd.pc \in {"probe", "scan"}
      BY <2>3, Turned DEF IsGoroutine, Pcs, Search!Reading, SearchTypes
    <3>2. FwdInv' /\ BwdInv' /\ ResultInv'
      BY <1>1, <1>2, <1>3, <2>1, <2>3, <3>1 DEF FwdInv, BwdInv, ResultInv, IsFirst, IsLast
    <3>3. QED
      BY <1>1, <1>2, <1>3, <2>1, <2>3, <3>1, <3>2 DEF SearchTypes, SearchInv
  <2>4. QED
    BY <1>4, <2>2, <2>3 DEF Search!ReadFails
<1>5. CASE Search!Join
  <2>1. /\ UNCHANGED <<fwd, bwd>> /\ fwd.pc \in {"found", "missing", "failed"}
        /\ bwd.pc \in {"found", "missing", "failed"}
        /\ result' = IF fwd.pc # "found" THEN [Search!NoResult EXCEPT !.kind = fwd.pc]
                     ELSE IF bwd.pc # "found" THEN [Search!NoResult EXCEPT !.kind = bwd.pc]
                     ELSE [kind |-> "found", from |-> fwd.res, to |-> bwd.res]
    BY <1>5 DEF Search!Join, Search!Ended
  <2>2. fwd.res \in Nat /\ bwd.res \in Nat
    BY DEF SearchTypes, Goroutine
  <2>3. result' \in [kind : {"none", "found", "missing", "failed"}, from : Nat, to : Nat] /\ ResultInv'
    BY <2>1, <2>2 DEF ResultInv, Search!NoResult
  <2>4. FwdInv' /\ BwdInv'
    BY <1>1, <1>2, <1>3, <2>1 DEF FwdInv, BwdInv, IsFirst, IsLast
  <2>5. QED
    BY <1>1, <1>2, <1>3, <2>1, <2>3, <2>4 DEF SearchTypes, SearchInv
<1>6. QED
  BY <1>4, <1>5

LEMMA SearchAlways == Init /\ [][Next]_vars => [](SearchTypes /\ LogInv /\ SearchInv)
<1>1. Init => SearchTypes /\ LogInv /\ SearchInv
  BY DEF Init, Search!Init, Search!Recorder!Start, SearchTypes, LogInv, SearchInv, Search!NoArgs,
         Search!Idle, Search!NoResult, Goroutine
<1>2. SearchTypes /\ LogInv /\ SearchInv /\ [Next]_vars => SearchTypes' /\ LogInv' /\ SearchInv'
  <2> SUFFICES ASSUME SearchTypes, LogInv, SearchInv, [Next]_vars
               PROVE  SearchTypes' /\ LogInv' /\ SearchInv'
    OBVIOUS
  <2>1. CASE UNCHANGED searchVars
    <3>1. SearchTypes' /\ LogInv'
      BY <2>1 DEF searchVars, SearchTypes, LogInv
    <3>2. SearchInv'
      <4>1. Len(log) \in Nat
        BY DEF SearchTypes
      <4>2. QED
        BY <2>1, <4>1, LogGrows DEF searchVars
    <3>3. QED
      BY <3>1, <3>2
  <2>2. CASE Search!Next
    <3>1. CASE Search!Station
      BY <3>1, StationStep
    <3>2. CASE \/ Search!ReadFails \/ Search!Generator
               \/ \E from, to \in Search!Decimals : Search!Fetch(from, to)
      <4>1. UNCHANGED <<published, log>>
        BY <3>2 DEF Search!ReadFails, Search!Generator, Search!Fetch, Search!ProbeFrom, Search!ProbeTo,
                    Search!SearchForward, Search!SearchBackward, Search!Join, Search!recorderVars
      <4>2. LogInv'
        BY <4>1 DEF LogInv
      <4>3. SearchTypes' /\ SearchInv'
        BY <3>2, ForwardStep, BackwardStep, FetchStep, JoinStep DEF Search!Generator
      <4>4. QED
        BY <4>2, <4>3
    <3>3. QED
      BY <2>2, <3>1, <3>2 DEF Search!Next
  <2>3. QED
    BY <2>1, <2>2 DEF Next, InSearch, InStream, vars
<1>3. QED
  BY <1>1, <1>2, PTL

\* The range that FetchQueueBounds returns is that of the first and of the last entry
\* between its arguments that list the queue, and is inverted only if the arguments are:
\* whatever the arguments, the size of the batches, the entries the recorder adds meanwhile
\* and the restarts of the station are (RangeExact).
THEOREM RangeExactAlways == FairSpec => []RangeExact
<1>1. SearchTypes /\ LogInv /\ SearchInv => RangeExact
  <2> SUFFICES ASSUME SearchTypes, LogInv, SearchInv PROVE RangeExact
    OBVIOUS
  <2>1. /\ Len(log) \in Nat /\ args.from \in Nat /\ args.to \in Nat /\ args.len \in Nat
        /\ \A i \in 1..Len(log) : log[i] \in Nat
    BY Numbers
  <2>2. CASE result.kind \notin {"found", "missing"}
    BY <2>2 DEF RangeExact, Search!BoundsExact, Search!RangeNotInverted
  <2>3. CASE result.kind \in {"found", "missing"}
    <3>1. Called /\ FwdInv /\ BwdInv /\ ResultInv
      BY <2>3 DEF SearchInv, Search!NoResult
    <3>2. CASE result.kind = "missing"
      <4>1. Clear(args.from, args.to - 1)
        BY <2>1, <3>1, <3>2 DEF FwdInv, BwdInv, ResultInv, Clear
      <4>2. Search!Present \subseteq {args.to}
        BY <2>1, <4>1 DEF Clear, Search!Wanted, Search!Present
      <4>3. QED
        BY <3>2, <4>2 DEF RangeExact, Search!BoundsExact, Search!RangeNotInverted
    <3>3. CASE result.kind = "found"
      <4> DEFINE W == Search!Wanted
      <4>1. PICK i \in 1..Len(log) : IsFirst(i) /\ result.from = log[i]
        BY <3>1, <3>3 DEF FwdInv, ResultInv, IsFirst
      <4>2. PICK k \in 1..Len(log) : IsLast(k) /\ result.to = log[k]
        BY <3>1, <3>3 DEF BwdInv, ResultInv, IsLast
      <4>3. log[i] # 0 /\ log[k] # 0 /\ Search!Match(i) /\ Search!Match(k)
        BY <4>1, <4>2 DEF IsFirst, IsLast, Search!Match
      <4>4. CASE args.to < args.from
        <5>1. i = args.from /\ k = args.to
          BY <2>1, <4>1, <4>2, <4>4 DEF IsFirst, IsLast
        <5>2. log[k] <= log[i]
          BY <2>1, <4>3, <4>4, <5>1 DEF LogInv
        <5>3. ~(args.from <= args.to)
          BY <2>1, <4>4
        <5>4. QED
          BY <3>3, <4>1, <4>2, <4>3, <5>1, <5>2, <5>3
          DEF RangeExact, Search!BoundsExact, Search!RangeNotInverted
      <4>5. CASE args.from <= args.to
        <5>1. args.from <= i /\ args.from <= k /\ k <= args.to
          BY <4>1, <4>2, <4>5 DEF IsFirst, IsLast
        <5>2. Passed(args.from, i - 1) /\ Clear(k + 1, args.to)
          BY <4>1, <4>2 DEF IsFirst, IsLast
        <5>3. i <= k
          <6>1. CASE k <= i - 1
            BY <2>1, <4>3, <5>1, <5>2, <6>1 DEF Passed
          <6>2. QED
            BY <2>1, <6>1
        <5>4. i \in W /\ k \in W /\ W \subseteq Nat
          BY <2>1, <4>3, <5>1, <5>3 DEF Search!Wanted
        <5>5. \A x \in W : i <= x
          <6>1. ASSUME NEW x \in W PROVE i <= x
            <7>1. x \in args.from..args.to /\ Search!Match(x)
              BY DEF Search!Wanted
            <7>2. ~(x <= i - 1)
              BY <2>1, <5>2, <7>1 DEF Passed
            <7>3. QED
              BY <2>1, <7>1, <7>2
          <6>2. QED
            BY <6>1
        <5>6. \A x \in Search!Present : x <= k
          <6>1. ASSUME NEW x \in Search!Present PROVE x <= k
            <7>1. x \in args.from..args.to /\ Search!Match(x) /\ x <= args.len
              BY DEF Search!Wanted, Search!Present
            <7>2. ~(x >= k + 1)
              BY <2>1, <5>2, <7>1 DEF Clear
            <7>3. QED
              BY <2>1, <7>1, <7>2
          <6>2. QED
            BY <6>1
        <5> HIDE DEF W
        <5>7. Search!Min(W) \in W /\ \A x \in W : Search!Min(W) <= x
          BY <5>4, MinIsLeast
        <5>8. Search!Min(W) = i
          <6>1. Search!Min(W) \in Nat /\ i \in Nat
            BY <5>4, <5>7
          <6>2. Search!Min(W) <= i /\ i <= Search!Min(W)
            BY <5>4, <5>5, <5>7
          <6>3. QED
            BY <6>1, <6>2
        <5>9. log[i] <= log[k]
          BY <4>3, <5>3 DEF LogInv
        <5>10. Search!Min(Search!Wanted) = i /\ k \in Search!Wanted /\ Search!Wanted # {}
          BY <5>4, <5>8 DEF W
        <5>11. QED
          BY <3>3, <4>1, <4>2, <4>5, <5>6, <5>9, <5>10
          DEF RangeExact, Search!BoundsExact, Search!RangeNotInverted
      <4>6. QED
        BY <2>1, <4>4, <4>5
    <3>4. QED
      BY <2>3, <3>2, <3>3
  <2>4. QED
    BY <2>2, <2>3
<1>2. QED
  BY <1>1, SearchAlways, PTL DEF FairSpec

-----------------------------------------------------------------------------
\* What went through the channel, after a send and after a receive.
LEMMA DeliverySend ==
  ASSUME NEW t \in Seq(Nat), NEW f \in Seq(Nat), NEW x \in Nat
  PROVE  t \o Append(f, x) = Append(t \o f, x)
<1>1. <<x>> \in Seq(Nat) /\ t \o f \in Seq(Nat)
  OBVIOUS
<1>2. Append(f, x) = f \o <<x>> /\ Append(t \o f, x) = (t \o f) \o <<x>>
  BY <1>1, AppendIsConcat
<1>3. (t \o f) \o <<x>> = t \o (f \o <<x>>)
  BY <1>1, ConcatAssociative
<1>4. QED
  BY <1>2, <1>3

LEMMA Associative ==
  ASSUME NEW s \in Seq(Nat), NEW h \in Seq(Nat), NEW u \in Seq(Nat)
  PROVE  (s \o h) \o u = s \o (h \o u)
BY ConcatAssociative

LEMMA DeliveryTake ==
  ASSUME NEW t \in Seq(Nat), NEW f \in Seq(Nat), f # <<>>
  PROVE  Append(t, Head(f)) \o Tail(f) = t \o f
<1>1. Head(f) \in Nat /\ Tail(f) \in Seq(Nat) /\ <<Head(f)>> \in Seq(Nat)
  OBVIOUS
<1>2. <<Head(f)>> \o Tail(f) = f
  <2>1. <<Head(f)>> \o Tail(f) \in Seq(Nat) /\ Len(<<Head(f)>> \o Tail(f)) = Len(f)
    BY <1>1
  <2>2. \A i \in 1..Len(f) : (<<Head(f)>> \o Tail(f))[i] = f[i]
    BY <1>1
  <2>3. QED
    BY <2>1, <2>2, SeqEqual
<1>3. Append(t, Head(f)) = t \o <<Head(f)>>
  BY <1>1, AppendIsConcat
<1>4. (t \o <<Head(f)>>) \o Tail(f) = t \o (<<Head(f)>> \o Tail(f))
  BY <1>1, Associative
<1>5. QED
  BY <1>2, <1>3, <1>4

\* The range, and the type of what was delivered.
LEMMA StreamFacts ==
  ASSUME StreamTypes
  PROVE  /\ bounds.from \in Nat /\ bounds.to \in Nat /\ 1 <= bounds.from
         /\ \A x \in Nat : 1 <= x /\ x \notin DOMAIN good => x > bounds.to
         /\ Wanted \subseteq Nat /\ D \in Seq(Nat) /\ Len(D) \in Nat
         /\ \A w \in Wanted : bounds.from <= w /\ w <= bounds.to /\ good[w]
         /\ \A x \in Nat : bounds.from <= x /\ x <= bounds.to /\ good[x] => x \in Wanted
<1>1. PICK n \in Nat : /\ good \in [1..n -> BOOLEAN]
                       /\ bounds \in [from : 1..n, to : 1..n]
  BY DEF StreamTypes
<1>2. /\ bounds.from \in Nat /\ bounds.to \in Nat /\ 1 <= bounds.from
      /\ bounds.to <= n /\ DOMAIN good = 1..n
  BY <1>1
<1>3. \A x \in Nat : 1 <= x /\ x \notin DOMAIN good => x > bounds.to
  BY <1>2
<1>4. D \in Seq(Nat) /\ Len(D) \in Nat
  BY DEF D, Stream!Delivery, StreamTypes
<1>5. QED
  BY <1>2, <1>3, <1>4 DEF Wanted, Stream!Wanted

\* Steps that neither deliver a frame nor change the range.
LEMMA BatchStep ==
  ASSUME StreamTypes, StreamInv,
         Stream!OpenBatch \/ Stream!PassEnd \/ Stream!SkipBad \/ Stream!BatchEnd \/ Stream!ReadError
  PROVE  StreamTypes' /\ StreamInv'
<1>1. UNCHANGED <<good, bounds, frames, taken>>
  BY DEF Stream!OpenBatch, Stream!PassEnd, Stream!SkipBad, Stream!BatchEnd, Stream!ReadError
<1>2. D' = D /\ Wanted' = Wanted
  BY <1>1 DEF D, Stream!Delivery, Wanted, Stream!Wanted
<1>4. /\ bounds.from \in Nat /\ bounds.to \in Nat /\ 1 <= bounds.from
      /\ \A x \in Nat : 1 <= x /\ x \notin DOMAIN good => x > bounds.to
      /\ Wanted \subseteq Nat /\ D \in Seq(Nat) /\ Len(D) \in Nat
      /\ \A w \in Wanted : bounds.from <= w /\ w <= bounds.to /\ good[w]
  BY StreamFacts
<1>5. Gapless(D, Wanted)'
  BY <1>2 DEF StreamInv
<1>6. cursor \in Nat /\ next \in Nat /\ received \in Nat /\ received <= ReadBatchSize /\ ReadBatchSize \in Nat
      /\ ReadBatchSize >= 1
  BY BatchAssumption DEF StreamTypes
<1>7. CASE Stream!OpenBatch
  <2>1. spc = "read" /\ spc' = "batch" /\ next' = cursor /\ received' = 0 /\ UNCHANGED <<cursor, failed>>
    BY <1>7 DEF Stream!OpenBatch
  <2>2. StreamTypes'
    BY <1>1, <1>6, <2>1 DEF StreamTypes
  <2>3. bounds.from <= cursor /\ OnlyBefore(D, cursor) /\ AllBefore(D, Wanted, cursor) /\ ~failed
    BY <2>1 DEF StreamInv
  <2>4. OnlyBefore(D, cursor + 1)
    BY <1>4, <1>6, <2>3 DEF OnlyBefore
  <2>5. StreamInv'
    BY <1>1, <1>2, <1>5, <1>6, <2>1, <2>3, <2>4 DEF StreamInv
  <2>6. QED
    BY <2>2, <2>5
<1>8. CASE Stream!PassEnd \/ Stream!SkipBad
  <2>1. /\ spc = "batch" /\ next' = next + 1 /\ received' = received + 1 /\ received < ReadBatchSize
        /\ UNCHANGED <<cursor, failed>>
    BY <1>8 DEF Stream!PassEnd, Stream!SkipBad, Stream!Delivered
  <2>2. StreamTypes'
    BY <1>1, <1>6, <1>8, <2>1 DEF StreamTypes, Stream!PassEnd, Stream!SkipBad
  <2>3. /\ bounds.from <= cursor /\ cursor <= next /\ OnlyBefore(D, next) /\ OnlyBefore(D, cursor + 1)
        /\ AllBefore(D, Wanted, next) /\ ~failed
    BY <2>1 DEF StreamInv
  <2>4. CASE Stream!PassEnd
    <3>1. spc' = "returned" /\ next > bounds.to
      BY <2>4 DEF Stream!PassEnd
    <3>2. AllBefore(D, Wanted, bounds.to + 1)
      BY <1>4, <1>6, <2>3, <3>1 DEF AllBefore
    <3>3. StreamInv'
      BY <1>1, <1>2, <1>5, <2>1, <2>3, <3>1, <3>2 DEF StreamInv
    <3>4. QED
      BY <2>2, <3>3
  <2>5. CASE Stream!SkipBad
    <3>1. spc' = "batch" /\ ~good[next]
      BY <2>1, <2>5 DEF Stream!SkipBad
    <3>2. OnlyBefore(D, next + 1) /\ AllBefore(D, Wanted, next + 1)
      BY <1>4, <1>6, <2>3, <3>1 DEF OnlyBefore, AllBefore
    <3>3. StreamInv'
      BY <1>1, <1>2, <1>5, <1>6, <2>1, <2>3, <3>1, <3>2 DEF StreamInv
    <3>4. QED
      BY <2>2, <3>3
  <2>6. QED
    BY <1>8, <2>4, <2>5
<1>9. CASE Stream!BatchEnd
  <2>1. /\ spc = "batch" /\ (received = ReadBatchSize \/ next \notin DOMAIN good)
        /\ UNCHANGED <<next, received, failed>>
    BY <1>9 DEF Stream!BatchEnd
  <2>2. /\ bounds.from <= cursor /\ cursor <= next /\ (received > 0 => cursor < next)
        /\ OnlyBefore(D, cursor + 1) /\ AllBefore(D, Wanted, next) /\ ~failed
    BY <2>1 DEF StreamInv
  <2>3. CASE received < ReadBatchSize \/ cursor >= bounds.to
    <3>1. spc' = "returned" /\ UNCHANGED cursor
      BY <1>9, <2>3 DEF Stream!BatchEnd
    <3>2. StreamTypes'
      BY <1>1, <2>1, <3>1 DEF StreamTypes
    <3>3. next > bounds.to
      BY <1>4, <1>6, <2>1, <2>2, <2>3
    <3>4. AllBefore(D, Wanted, bounds.to + 1)
      BY <1>4, <1>6, <2>2, <3>3 DEF AllBefore
    <3>5. StreamInv'
      BY <1>1, <1>2, <1>5, <3>1, <3>4 DEF StreamInv
    <3>6. QED
      BY <3>2, <3>5
  <2>4. CASE ~(received < ReadBatchSize \/ cursor >= bounds.to)
    <3>1. spc' = "read" /\ cursor' = cursor + 1
      BY <1>9, <2>4 DEF Stream!BatchEnd, Stream!NextCursor
    <3>2. StreamTypes'
      BY <1>1, <1>6, <2>1, <3>1 DEF StreamTypes
    <3>3. AllBefore(D, Wanted, cursor + 1)
      <4>1. cursor + 1 <= next
        BY <1>6, <2>2, <2>4
      <4>2. QED
        BY <1>4, <1>6, <2>2, <4>1 DEF AllBefore
    <3>4. StreamInv'
      BY <1>1, <1>2, <1>4, <1>5, <1>6, <2>1, <2>2, <3>1, <3>3 DEF StreamInv
    <3>5. QED
      BY <3>2, <3>4
  <2>5. QED
    BY <2>3, <2>4
<1>10. CASE Stream!ReadError
  <2>1. spc' = "returned" /\ failed' = TRUE /\ UNCHANGED <<cursor, next, received>>
    BY <1>10 DEF Stream!ReadError
  <2>2. StreamTypes'
    BY <1>1, <2>1 DEF StreamTypes
  <2>3. StreamInv'
    BY <1>5, <2>1 DEF StreamInv
  <2>4. QED
    BY <2>2, <2>3
<1>11. QED
  BY <1>7, <1>8, <1>9, <1>10

LEMMA AppendGapless ==
  ASSUME NEW W, W \subseteq Nat, NEW d \in Seq(Nat), NEW x \in W,
         Gapless(d, W), OnlyBefore(d, x), AllBefore(d, W, x)
  PROVE  /\ Gapless(Append(d, x), W) /\ OnlyBefore(Append(d, x), x + 1)
         /\ AllBefore(Append(d, x), W, x + 1)
<1> DEFINE e == Append(d, x)  n == Len(d)
<1>1. n \in Nat /\ Len(e) = n + 1 /\ e[n + 1] = x /\ x \in Nat
  OBVIOUS
<1>2. \A i \in 1..n : e[i] = d[i] /\ d[i] \in Nat
  OBVIOUS
<1>3. \A i \in 1..(n + 1) : i = n + 1 \/ i \in 1..n
  BY <1>1
<1> HIDE DEF e, n
<1>4. \A i \in 1..n : e[i] < x
  BY <1>2 DEF OnlyBefore, n
<1>5. OnlyBefore(e, x + 1)
  BY <1>1, <1>2, <1>3, <1>4 DEF OnlyBefore
<1>6. ASSUME NEW y \in Nat, AllBefore(d, W, y) PROVE AllBefore(e, W, y)
  <2>1. ASSUME NEW w \in W, w < y PROVE \E k \in 1..Len(e) : e[k] = w
    <3>1. PICK k \in 1..n : d[k] = w
      BY <1>6, <2>1 DEF AllBefore, n
    <3>2. k \in 1..Len(e) /\ e[k] = w
      BY <1>1, <1>2, <3>1
    <3>3. QED
      BY <3>2
  <2>2. QED
    BY <2>1 DEF AllBefore
<1>7. AllBefore(e, W, x) /\ \A i \in 1..n : AllBefore(e, W, e[i])
  BY <1>1, <1>2, <1>6 DEF Gapless, n
<1>8. AllBefore(e, W, x + 1)
  <2>1. \A w \in W : w < x + 1 => w = x \/ w < x
    BY <1>1
  <2>2. n + 1 \in 1..Len(e)
    BY <1>1
  <2>3. QED
    BY <1>1, <1>7, <2>1, <2>2 DEF AllBefore
<1>9. \A i, k \in 1..Len(e) : i < k => e[i] < e[k]
  <2>1. ASSUME NEW i \in 1..n, NEW k \in 1..n, i < k PROVE e[i] < e[k]
    BY <1>2, <2>1 DEF Gapless, n
  <2>2. QED
    BY <1>1, <1>3, <1>4, <2>1
<1>10. \A i \in 1..Len(e) : e[i] \in W /\ AllBefore(e, W, e[i])
  <2>1. \A i \in 1..n : e[i] \in W
    BY <1>2 DEF Gapless, n
  <2>2. QED
    BY <1>1, <1>3, <1>7, <2>1
<1>11. Gapless(e, W)
  BY <1>9, <1>10 DEF Gapless
<1>12. QED
  BY <1>5, <1>8, <1>11 DEF e

\* The frame that is sent comes right after the ones sent before.
LEMMA SendStep ==
  ASSUME StreamTypes, StreamInv, Stream!SendFrame
  PROVE  StreamTypes' /\ StreamInv'
<1>1. /\ UNCHANGED <<good, bounds, spc, failed, taken>> /\ frames' = Append(frames, next) /\ cursor' = next
      /\ next' = next + 1 /\ received' = received + 1 /\ spc = "batch" /\ received < ReadBatchSize
      /\ next <= bounds.to /\ good[next]
  BY DEF Stream!SendFrame, Stream!Delivered
<1>2. /\ cursor \in Nat /\ next \in Nat /\ received \in Nat /\ ReadBatchSize \in Nat
      /\ frames \in Seq(Nat) /\ taken \in Seq(Nat)
  BY BatchAssumption DEF StreamTypes
<1>3. StreamTypes'
  BY <1>1, <1>2 DEF StreamTypes
<1>4. D' = Append(D, next) /\ Wanted' = Wanted
  BY <1>1, <1>2, DeliverySend DEF D, Stream!Delivery, Wanted, Stream!Wanted
<1>5. /\ bounds.from <= cursor /\ cursor <= next /\ OnlyBefore(D, next) /\ AllBefore(D, Wanted, next) /\ ~failed
      /\ Gapless(D, Wanted)
  BY <1>1 DEF StreamInv
<1>6. Wanted \subseteq Nat /\ D \in Seq(Nat) /\ Len(D) \in Nat /\ next \in Wanted
  BY <1>1, <1>2, <1>5, StreamFacts
<1>7. /\ Gapless(D', Wanted') /\ OnlyBefore(D', next') /\ AllBefore(D', Wanted', next')
      /\ cursor' + 1 = next'
  <2>1. D' = Append(D, next) /\ Wanted' = Wanted /\ next' = next + 1 /\ cursor' + 1 = next + 1
    BY <1>1, <1>4
  <2>2. /\ Gapless(Append(D, next), Wanted) /\ OnlyBefore(Append(D, next), next + 1)
        /\ AllBefore(Append(D, next), Wanted, next + 1)
    BY <1>5, <1>6, AppendGapless
  <2>3. QED
    BY <2>1, <2>2
<1>8. bounds'.from <= cursor' /\ cursor' <= next' /\ cursor' < next'
  BY <1>1, <1>2, <1>5, StreamFacts
<1>9. StreamInv'
  BY <1>1, <1>5, <1>7, <1>8 DEF StreamInv
<1>10. QED
  BY <1>3, <1>9

\* The consumer takes a frame out of the channel.
LEMMA TakeStep ==
  ASSUME StreamTypes, StreamInv, Stream!Take
  PROVE  StreamTypes' /\ StreamInv'
<1>1. /\ UNCHANGED <<good, bounds, spc, cursor, next, received, failed>> /\ frames # <<>>
      /\ taken' = Append(taken, Head(frames)) /\ frames' = Tail(frames)
  BY DEF Stream!Take
<1>2. frames \in Seq(Nat) /\ taken \in Seq(Nat)
  BY DEF StreamTypes
<1>3. frames' \in Seq(Nat) /\ taken' \in Seq(Nat)
  BY <1>1, <1>2
<1>4. D' = D /\ Wanted' = Wanted
  BY <1>1, <1>2, DeliveryTake DEF D, Stream!Delivery, Wanted, Stream!Wanted
<1>5. QED
  BY <1>1, <1>3, <1>4 DEF StreamTypes, StreamInv

-----------------------------------------------------------------------------
\* The detector's counters after an episode, field by field.
LEMMA Counters ==
  ASSUME ReportInv, NEW o \in Stream!Outcomes, Stream!Outcome(o)
  PROVE  /\ msg = "none" /\ msg' = o /\ o \in {"none", "saved", "discarded"}
         /\ stats' \in [saved : Nat, discarded : Nat]
         /\ stats'.saved = IF o = "saved" THEN stats.saved + 1 ELSE stats.saved
         /\ stats'.discarded = IF o = "discarded" THEN stats.discarded + 1 ELSE stats.discarded
<1> DEFINE Type == [saved : Nat, discarded : Nat]
           a == IF o = "saved" THEN stats.saved + 1 ELSE stats.saved
           b == IF o = "discarded" THEN stats.discarded + 1 ELSE stats.discarded
<1>1. stats \in Type /\ a \in Nat /\ b \in Nat /\ o \in {"none", "saved", "discarded"}
  BY DEF ReportInv, Stream!Outcomes
<1>2. msg = "none" /\ msg' = o /\ stats' = [stats EXCEPT !.saved = a, !.discarded = b]
  BY DEF Stream!Outcome
<1> HIDE DEF a, b
<1>3. [stats EXCEPT !.saved = a] \in Type
  BY <1>1
<1>4. [[stats EXCEPT !.saved = a] EXCEPT !.discarded = b] \in Type
  BY <1>1, <1>3
<1>5. stats' \in Type /\ stats'.saved = a /\ stats'.discarded = b
  BY <1>1, <1>2, <1>4
<1>6. QED
  BY <1>1, <1>2, <1>5 DEF a, b

\* The UI after it took a message.
LEMMA Updated ==
  ASSUME ReportInv, Stream!Update
  PROVE  /\ ui' \in UiTypes /\ msg \in Messages /\ msg # "none" /\ msg' = "none"
         /\ ui'.saved = ui.saved + Pending("saved") /\ ui'.discarded = ui.discarded + Pending("discarded")
         /\ ui'.done = (msg = "done") /\ ui'.err = (msg = "done" /\ perr) /\ ui'.running = (msg # "done")
<1> DEFINE a == IF msg = "saved" THEN ui.saved + 1 ELSE ui.saved
           b == IF msg = "discarded" THEN ui.discarded + 1 ELSE ui.discarded
           d == (msg = "done")
           f == (msg = "done" /\ perr)
           r == (msg # "done")
<1>1. /\ ui \in UiTypes /\ a \in Nat /\ b \in Nat /\ d \in BOOLEAN /\ f \in BOOLEAN /\ r \in BOOLEAN
      /\ ui.saved \in Nat /\ ui.discarded \in Nat
  BY DEF ReportInv, UiTypes
<1>2. /\ ui' = [ui EXCEPT !.saved = a, !.discarded = b, !.done = d, !.err = f, !.running = r]
      /\ msg' = "none" /\ msg # "none" /\ msg \in Messages
  BY DEF Stream!Update, ReportInv
<1>3. a = ui.saved + Pending("saved") /\ b = ui.discarded + Pending("discarded")
  BY <1>1 DEF Pending
<1> HIDE DEF a, b, d, f, r
<1>4. [ui EXCEPT !.saved = a] \in UiTypes
  BY <1>1 DEF UiTypes
<1>5. [[ui EXCEPT !.saved = a] EXCEPT !.discarded = b] \in UiTypes
  BY <1>1, <1>4 DEF UiTypes
<1>6. [[[ui EXCEPT !.saved = a] EXCEPT !.discarded = b] EXCEPT !.done = d] \in UiTypes
  BY <1>1, <1>5 DEF UiTypes
<1>7. [[[[ui EXCEPT !.saved = a] EXCEPT !.discarded = b] EXCEPT !.done = d] EXCEPT !.err = f] \in UiTypes
  BY <1>1, <1>6 DEF UiTypes
<1>8. [[[[[ui EXCEPT !.saved = a] EXCEPT !.discarded = b] EXCEPT !.done = d] EXCEPT !.err = f]
          EXCEPT !.running = r] \in UiTypes
  BY <1>1, <1>7 DEF UiTypes
<1>9. ui' \in UiTypes
  BY <1>2, <1>8
<1>10. ui'.saved = a /\ ui'.discarded = b /\ ui'.done = d /\ ui'.err = f /\ ui'.running = r
  BY <1>1, <1>2 DEF UiTypes
<1>11. QED
  BY <1>2, <1>3, <1>9, <1>10 DEF d, f, r

LEMMA ReportStep ==
  ASSUME StreamTypes, StreamInv, ReportInv, Stream!Next
  PROVE  ReportInv'
<1> USE DEF Messages
<1>1. CASE Stream!Streaming \/ Stream!StreamFails
  <2>1. /\ UNCHANGED <<ppc, perr, stats, msg, ui, summary>> /\ spc \in {"read", "batch"}
    BY <1>1 DEF Stream!Streaming, Stream!StreamFails, Stream!Streamer, Stream!OpenBatch, Stream!PassEnd,
                Stream!SkipBad, Stream!SendFrame, Stream!BatchEnd, Stream!ReadError, Stream!Delivered
  <2>2. ppc = "frames"
    BY <2>1 DEF ReportInv, Stream!Closed
  <2>3. QED
    BY <2>1, <2>2 DEF ReportInv, Pending
<1>2. CASE Stream!Process
  <2>1. /\ ppc = "frames" /\ summary = "none" /\ UNCHANGED <<ppc, perr, ui, summary>>
        /\ \E o \in Stream!Outcomes : Stream!Outcome(o)
    BY <1>2 DEF Stream!Process, Stream!Alive
  <2>2. PICK o \in Stream!Outcomes : Stream!Outcome(o)
    BY <2>1
  <2>3. /\ msg = "none" /\ msg' = o /\ o \in {"none", "saved", "discarded"}
        /\ stats' \in [saved : Nat, discarded : Nat]
        /\ stats'.saved = IF o = "saved" THEN stats.saved + 1 ELSE stats.saved
        /\ stats'.discarded = IF o = "discarded" THEN stats.discarded + 1 ELSE stats.discarded
    BY <2>2, Counters
  <2>4. ui.saved \in Nat /\ ui.discarded \in Nat
    BY DEF ReportInv, UiTypes
  <2>5. QED
    BY <2>1, <2>3, <2>4 DEF ReportInv, Pending
<1>3. CASE Stream!FramesEnd
  <2>1. /\ ppc = "frames" /\ Stream!Closed /\ ppc' \in {"report", "finalize"} /\ perr' = failed
        /\ UNCHANGED <<spc, frames, failed, stats, msg, ui, summary>> /\ msg = "none"
    BY <1>3 DEF Stream!FramesEnd, Stream!streamVars
  <2>2. Stream!Closed'
    BY <2>1 DEF Stream!Closed
  <2>3. failed \in BOOLEAN => ReportInv'
    BY <2>1, <2>2 DEF ReportInv, Pending
  <2>4. QED
    BY <2>3 DEF StreamTypes
<1>4. CASE Stream!Finalize
  <2>1. /\ ppc = "finalize" /\ ppc' = "report" /\ summary = "none" /\ UNCHANGED <<perr, ui, summary>>
        /\ UNCHANGED <<spc, frames, failed>> /\ \E o \in Stream!Outcomes : Stream!Outcome(o)
    BY <1>4 DEF Stream!Finalize, Stream!Alive, Stream!streamVars
  <2>2. PICK o \in Stream!Outcomes : Stream!Outcome(o)
    BY <2>1
  <2>3. /\ msg = "none" /\ msg' = o /\ o \in {"none", "saved", "discarded"}
        /\ stats' \in [saved : Nat, discarded : Nat]
        /\ stats'.saved = IF o = "saved" THEN stats.saved + 1 ELSE stats.saved
        /\ stats'.discarded = IF o = "discarded" THEN stats.discarded + 1 ELSE stats.discarded
    BY <2>2, Counters
  <2>4. ui.saved \in Nat /\ ui.discarded \in Nat
    BY DEF ReportInv, UiTypes
  <2>5. QED
    BY <2>1, <2>3, <2>4 DEF ReportInv, Pending, Stream!Closed
<1>5. CASE Stream!Report
  <2>1. /\ ppc = "report" /\ msg = "none" /\ msg' = "done" /\ ppc' = "ended"
        /\ UNCHANGED <<spc, frames, failed, perr, stats, ui, summary>>
    BY <1>5 DEF Stream!Report, Stream!streamVars
  <2>2. QED
    BY <2>1 DEF ReportInv, Pending, Stream!Closed
<1>6. CASE Stream!Update
  <2>1. /\ UNCHANGED <<spc, frames, failed, ppc, perr, stats, summary>> /\ ui.running /\ summary = "none"
    BY <1>6 DEF Stream!Update, Stream!Alive, Stream!streamVars
  <2>2. /\ ui' \in UiTypes /\ msg \in Messages /\ msg # "none" /\ msg' = "none"
        /\ ui'.saved = ui.saved + Pending("saved") /\ ui'.discarded = ui.discarded + Pending("discarded")
        /\ ui'.done = (msg = "done") /\ ui'.err = (msg = "done" /\ perr) /\ ui'.running = (msg # "done")
    BY <1>6, Updated
  <2>3. stats.saved = ui'.saved /\ stats.discarded = ui'.discarded
    BY <2>1, <2>2 DEF ReportInv
  <2>4. ui'.saved \in Nat /\ ui'.discarded \in Nat
    BY <2>2 DEF UiTypes
  <2>5. CASE msg = "done"
    BY <2>1, <2>2, <2>3, <2>5 DEF ReportInv, Stream!Closed
  <2>6. CASE msg # "done"
    <3>1. Pending("saved")' = 0 /\ Pending("discarded")' = 0
      BY <2>2 DEF Pending
    <3>2. ui'.saved + 0 = ui'.saved /\ ui'.discarded + 0 = ui'.discarded
      BY <2>4
    <3>3. ui'.done = FALSE /\ ui'.running = TRUE
      BY <2>2, <2>6
    <3>4. ppc # "frames" => Stream!Closed' /\ perr = failed
      BY <2>1 DEF ReportInv, Stream!Closed
    <3>5. /\ ppc \in {"frames", "finalize", "report", "ended"} /\ perr \in BOOLEAN
          /\ stats \in [saved : Nat, discarded : Nat]
      BY DEF ReportInv
    <3>6. QED
      BY <2>1, <2>2, <2>3, <3>1, <3>2, <3>3, <3>4, <3>5 DEF ReportInv
  <2>7. QED
    BY <2>5, <2>6
<1>7. CASE Stream!Quit
  <2>1. /\ UNCHANGED <<spc, frames, failed, ppc, perr, stats, msg, summary>> /\ ui.running /\ summary = "none"
        /\ ui' = [ui EXCEPT !.running = FALSE]
    BY <1>7 DEF Stream!Quit, Stream!Alive, Stream!streamVars
  <2>2. ui' \in UiTypes /\ ui'.running = FALSE /\ ui'.done = ui.done
    BY <2>1 DEF ReportInv, UiTypes
  <2>3. QED
    BY <2>1, <2>2 DEF ReportInv, Stream!Closed
<1>8. CASE Stream!SendIgnored
  <2>1. /\ UNCHANGED <<spc, frames, failed, ppc, perr, stats, ui, summary>> /\ ~ui.running
        /\ msg # "none" /\ msg' = "none"
    BY <1>8 DEF Stream!SendIgnored, Stream!streamVars
  <2>2. QED
    BY <2>1 DEF ReportInv, Stream!Closed
<1>9. CASE Stream!PrintSummary
  <2>1. /\ UNCHANGED <<spc, frames, failed, ppc, perr, stats, msg, ui>> /\ ~ui.running
        /\ summary' = IF ui.err THEN "failed" ELSE "complete"
    BY <1>9 DEF Stream!PrintSummary, Stream!streamVars
  <2>2. QED
    BY <2>1 DEF ReportInv, Stream!Closed
<1>10. QED
  BY <1>1, <1>2, <1>3, <1>4, <1>5, <1>6, <1>7, <1>8, <1>9 DEF Stream!Next, Stream!Processing, Stream!Ui

LEMMA StreamStep ==
  ASSUME StreamTypes, StreamInv, Stream!Next
  PROVE  StreamTypes' /\ StreamInv'
<1>1. CASE Stream!Streaming \/ Stream!StreamFails
  BY <1>1, BatchStep, SendStep DEF Stream!Streaming, Stream!StreamFails, Stream!Streamer
<1>2. CASE Stream!Process
  BY <1>2, TakeStep DEF Stream!Process
<1>3. CASE UNCHANGED Stream!streamVars
  <2>1. UNCHANGED <<good, bounds, spc, cursor, next, received, frames, failed, taken>>
    BY <1>3 DEF Stream!streamVars
  <2>2. D' = D /\ Wanted' = Wanted
    BY <2>1 DEF D, Stream!Delivery, Wanted, Stream!Wanted
  <2>3. QED
    BY <2>1, <2>2 DEF StreamTypes, StreamInv
<1>4. QED
  BY <1>1, <1>2, <1>3 DEF Stream!Next, Stream!Processing, Stream!Ui, Stream!FramesEnd, Stream!Finalize,
        Stream!Report, Stream!Update, Stream!SendIgnored, Stream!PrintSummary, Stream!Quit

LEMMA StreamAlways == Init /\ [][Next]_vars => [](StreamTypes /\ StreamInv /\ ReportInv)
<1>1. Init => StreamTypes /\ StreamInv /\ ReportInv
  <2> SUFFICES ASSUME Init PROVE StreamTypes /\ StreamInv /\ ReportInv
    OBVIOUS
  <2>1. Stream!StreamInit
    BY DEF Init, Stream!Init
  <2>2. PICK n \in 1..MaxId : good \in [1..n -> BOOLEAN]
    BY <2>1 DEF Stream!StreamInit
  <2>3. PICK f \in DOMAIN good, t \in DOMAIN good : bounds = [from |-> f, to |-> t]
    BY <2>1 DEF Stream!StreamInit
  <2>4. n \in Nat /\ DOMAIN good = 1..n
    BY <2>2
  <2>5. bounds \in [from : 1..n, to : 1..n] /\ bounds.from \in Nat
    BY <2>3, <2>4
  <2>6. /\ spc = "read" /\ cursor = bounds.from /\ next = 0 /\ received = 0 /\ failed = FALSE
        /\ frames = <<>> /\ taken = <<>>
    BY <2>1 DEF Stream!StreamInit
  <2>7. StreamTypes
    <3>1. cursor \in Nat /\ 0 \in 0..ReadBatchSize /\ <<>> \in Seq(Nat)
      BY <2>5, <2>6, BatchAssumption
    <3>2. QED
      BY <2>2, <2>4, <2>5, <2>6, <3>1 DEF StreamTypes
  <2>8. Len(D) = 0
    BY <2>6 DEF D, Stream!Delivery
  <2>9. StreamInv
    BY <2>5, <2>6, <2>7, <2>8, StreamFacts DEF StreamInv, Gapless, OnlyBefore, AllBefore
  <2>10. ReportInv
    <3>1. /\ ppc = "frames" /\ perr = FALSE /\ stats = [saved |-> 0, discarded |-> 0]
          /\ msg = "none" /\ summary = "none"
          /\ ui = [running |-> TRUE, done |-> FALSE, err |-> FALSE, saved |-> 0, discarded |-> 0]
      BY DEF Init, Stream!Init
    <3>2. Pending("saved") = 0 /\ Pending("discarded") = 0
      BY <3>1 DEF Pending
    <3>3. ui \in UiTypes /\ stats \in [saved : Nat, discarded : Nat]
      BY <3>1 DEF UiTypes
    <3>4. ui.running /\ ~ui.done /\ stats.saved = ui.saved + 0 /\ stats.discarded = ui.discarded + 0
      BY <3>1
    <3>5. QED
      BY <3>1, <3>2, <3>3, <3>4 DEF ReportInv, Messages
  <2>11. QED
    BY <2>7, <2>9, <2>10
<1>2. StreamTypes /\ StreamInv /\ ReportInv /\ [Next]_vars => (StreamTypes /\ StreamInv /\ ReportInv)'
  <2> SUFFICES ASSUME StreamTypes, StreamInv, ReportInv, [Next]_vars
               PROVE  StreamTypes' /\ StreamInv' /\ ReportInv'
    OBVIOUS
  <2>1. CASE UNCHANGED generatorVars
    <3>1. /\ UNCHANGED <<good, bounds, spc, cursor, next, received, frames, failed, taken>>
          /\ UNCHANGED <<ppc, perr, stats, msg, ui, summary>>
      BY <2>1 DEF generatorVars
    <3>2. D' = D /\ Wanted' = Wanted /\ (Stream!Closed' <=> Stream!Closed)
      BY <3>1 DEF D, Stream!Delivery, Wanted, Stream!Wanted, Stream!Closed
    <3>3. StreamTypes' /\ StreamInv'
      BY <3>1, <3>2 DEF StreamTypes, StreamInv
    <3>4. ReportInv'
      BY <3>1, <3>2 DEF ReportInv, Pending
    <3>5. QED
      BY <3>3, <3>4
  <2>2. CASE Stream!Next
    BY <2>2, StreamStep, ReportStep
  <2>3. QED
    BY <2>1, <2>2 DEF Next, InSearch, InStream, vars
<1>3. QED
  BY <1>1, <1>2, PTL

\* StreamFrames delivers the decodable frames of the range in order, each once, with none
\* left out, and all of them unless a read failed: for any size of the batches, any channel
\* and any pattern of entries that do not unmarshal.
THEOREM FramesExactAlways == FairSpec => []FramesExact
<1>1. StreamTypes /\ StreamInv => FramesExact
  <2> SUFFICES ASSUME StreamTypes, StreamInv PROVE FramesExact
    OBVIOUS
  <2>1. Wanted \subseteq Nat /\ D \in Seq(Nat) /\ Len(D) \in Nat /\ bounds.to \in Nat
        /\ \A w \in Wanted : w <= bounds.to
    BY StreamFacts
  <2>2. \A i \in 1..Len(D) : D[i] \in Nat
    BY <2>1
  <2>3. Gapless(D, Wanted)
    BY DEF StreamInv
  <2>4. ASSUME NEW i \in 1..Len(D), NEW w \in Wanted, w <= D[i] PROVE \E k \in 1..i : D[k] = w
    <3>1. CASE w = D[i]
      BY <2>1, <3>1
    <3>2. CASE w < D[i]
      <4>1. PICK k \in 1..Len(D) : D[k] = w
        BY <2>3, <3>2 DEF Gapless, AllBefore
      <4>2. ~(i < k)
        BY <2>1, <2>2, <2>3, <3>2, <4>1 DEF Gapless
      <4>3. k \in 1..i
        BY <2>1, <4>2
      <4>4. QED
        BY <4>1, <4>3
    <3>3. QED
      BY <2>1, <2>2, <2>4, <3>1, <3>2
  <2>5. Stream!InOrderOnce
    BY <2>3, <2>4 DEF Stream!InOrderOnce, Gapless, D, Wanted
  <2>6. ASSUME spc = "returned", ~failed, NEW w \in Wanted PROVE w \in Stream!ToSet(D)
    <3>1. w < bounds.to + 1
      BY <2>1
    <3>2. PICK k \in 1..Len(D) : D[k] = w
      BY <2>6, <3>1 DEF StreamInv, AllBefore
    <3>3. k \in DOMAIN D
      BY <2>1
    <3>4. QED
      BY <3>2, <3>3 DEF Stream!ToSet
  <2>7. Stream!NothingMissing
    BY <2>6 DEF Stream!NothingMissing, D, Wanted
  <2>8. QED
    BY <2>5, <2>7 DEF FramesExact
<1>2. QED
  BY <1>1, StreamAlways, PTL DEF FairSpec

\* The summary that main prints after the UI has seen the end is exact: the counters are
\* the detector's, "complete" means that every frame of the range was processed, and a
\* stream that failed is reported as failed, whenever messages, keys and reads come.
THEOREM SummaryExactAlways == FairSpec => []SummaryExact
<1>1. StreamTypes /\ StreamInv /\ ReportInv => SummaryExact
  <2> SUFFICES ASSUME StreamTypes, StreamInv, ReportInv, summary # "none", ui.done
               PROVE  /\ ui.saved = stats.saved /\ ui.discarded = stats.discarded
                      /\ summary = "complete" => Stream!ToSet(taken) = Wanted
                      /\ failed <=> summary = "failed"
    BY DEF SummaryExact, Stream!SummaryExact, Wanted
  <2>1. ui.saved = stats.saved /\ ui.discarded = stats.discarded /\ ppc = "ended" /\ ui.err = perr
    BY DEF ReportInv
  <2>2. spc = "returned" /\ frames = <<>> /\ perr = failed
    BY <2>1 DEF ReportInv, Stream!Closed
  <2>3. summary = IF failed THEN "failed" ELSE "complete"
    BY <2>1, <2>2 DEF ReportInv
  <2>4. D = taken /\ taken \in Seq(Nat)
    BY <2>2, ConcatEmptySeq DEF D, Stream!Delivery, StreamTypes
  <2>5. ASSUME ~failed PROVE Stream!ToSet(taken) = Wanted
    <3>1. DOMAIN taken = 1..Len(taken)
      BY <2>4
    <3>2. \A w \in Wanted : w < bounds.to + 1
      BY StreamFacts
    <3>3. \A w \in Wanted : \E k \in 1..Len(taken) : taken[k] = w
      BY <2>2, <2>4, <2>5, <3>2 DEF StreamInv, AllBefore
    <3>4. \A k \in 1..Len(taken) : taken[k] \in Wanted
      BY <2>4 DEF StreamInv, Gapless
    <3>5. QED
      BY <3>1, <3>3, <3>4 DEF Stream!ToSet
  <2>6. QED
    BY <2>1, <2>3, <2>5
<1>2. QED
  BY <1>1, StreamAlways, PTL DEF FairSpec
=============================================================================
