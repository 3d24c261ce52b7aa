-------------------------- MODULE RenderPoolProofs --------------------------
(***************************************************************************)
(* Proofs about RenderPool: for any number of frames, cells, workers and   *)
(* renderers and any capacity of the channels, nothing panics, no picture  *)
(* is missed, and the pool implements the safety part of RenderAll.        *)
(***************************************************************************)
EXTENDS RenderPool, FiniteSetTheorems, TLAPS

\* What a channel holds, and that it holds nothing twice.
Elems(s) == {s[i] : i \in 1..Len(s)}
Once(s) == \A i, k \in 1..Len(s) : s[i] = s[k] => i = k

Busy(w) == worker[w].at \in {"request", "collect", "result"}
Serving(r) == renderer[r].at \in {"fetch", "close"}

\* The jobs that a worker has taken from the channel.
Taken == (1..sent) \ Elems(jobs)

\* Where the jobs are: each is unsent, in jobs, with one worker, in results or counted, and
\* its outcome is known from the moment its worker has drawn it.
PlaceInv ==
  /\ Once(jobs) /\ Elems(jobs) \subseteq 1..sent
  /\ Once(results) /\ Elems(results) \subseteq Taken
  /\ \A w \in Workers : Busy(w) => worker[w].job \in Taken \ Elems(results)
  /\ \A w, v \in Workers : w # v /\ Busy(w) /\ Busy(v) => worker[w].job # worker[v].job
  /\ \A j \in Jobs \ Taken : outcome[j] = "pending"
  /\ \A w \in Workers : worker[w].at \in {"request", "collect"} => outcome[worker[w].job] = "pending"
  /\ \A j \in Taken : outcome[j] = "pending" =>
       \E w \in Workers : worker[w].at \in {"request", "collect"} /\ worker[w].job = j

\* How far main has come, and what that says of the others.
MainInv ==
  /\ mpc # "send" => sent = NumJobs
  /\ "jobs" \in closed => mpc # "send"
  /\ "results" \in closed => mpc \in {"collector", "renderers", "video"}
  /\ "service" \in closed => mpc \in {"renderers", "video"}
  /\ \A w \in Workers : worker[w].at = "done" => mpc # "send" /\ jobs = <<>>
  /\ mpc \in {"collector", "renderers", "video"} => WorkersDone
  /\ collector = "done" => mpc \in {"collector", "renderers", "video"} /\ results = <<>>
  /\ mpc \in {"renderers", "video"} => collector = "done"

\* The failed frames that the collector has counted.
Counted == {j \in Jobs : /\ outcome[j] = "failed" /\ j \notin Elems(results)
                         /\ \A w \in Workers : worker[w].at = "result" => worker[w].job # j}
CountInv == errors = Cardinality(Counted)

\* A request on its way from its worker to a renderer and back.
ServiceInv ==
  /\ Once(service)
  /\ \A q \in Elems(service) : response[q] = "open" /\ q \notin fetched
  /\ \A r \in Renderers : renderer[r].at = "fetch" =>
       response[renderer[r].req] = "open" /\ renderer[r].req \notin fetched
  /\ \A r \in Renderers : renderer[r].at = "close" => response[renderer[r].req] \in {"open", "full"}
  /\ \A r \in Renderers : Serving(r) => renderer[r].req \notin Elems(service)
  /\ \A r, s \in Renderers : r # s /\ Serving(r) /\ Serving(s) => renderer[r].req # renderer[s].req
  /\ \A q \in Requests : response[q] = "unmade" => q \notin fetched
  /\ \A q \in Requests : response[q] \in {"full", "fullClosed"} => q \in fetched
  /\ \A j \in Jobs, c \in Cells : j \notin Taken \/ c \notin wants[j] => response[<<j, c>>] = "unmade"

\* The worker has still to look at the answer for cell c, or has done so.
Ahead(w, c) == worker[w].at = "request" \/ (worker[w].at = "collect" /\ c >= worker[w].cell)
Behind(w, c) == worker[w].at = "result" \/ (worker[w].at = "collect" /\ c < worker[w].cell)

\* What worker w knows of the picture of cell c of its job.
Knows(w, c) ==
  LET q == <<worker[w].job, c>> IN
  /\ worker[w].at = "request" /\ c >= worker[w].cell => response[q] = "unmade"
  /\ Ahead(w, c) => /\ c \notin worker[w].pics
                    /\ q \in fetched => response[q] \in {"full", "fullClosed"}
  /\ Behind(w, c) => /\ c \in worker[w].pics <=> q \in fetched
                     /\ q \notin Elems(service)
                     /\ \A r \in Renderers : renderer[r].at = "fetch" => renderer[r].req # q
PictureInv == \A w \in Workers, c \in Cells : Knows(w, c)

IInv == TypeOK /\ PlaceInv /\ MainInv /\ CountInv /\ ServiceInv /\ PictureInv

-----------------------------------------------------------------------------
\* Taking the first element of a channel, and appending one.
LEMMA TakeHead ==
  ASSUME NEW S, NEW s \in Seq(S), s # <<>>, Once(s)
  PROVE  /\ Head(s) \in S /\ Head(s) \in Elems(s)
         /\ Tail(s) \in Seq(S) /\ Once(Tail(s)) /\ Elems(Tail(s)) = Elems(s) \ {Head(s)}
<1>1. Len(s) \in Nat \ {0} /\ Head(s) = s[1] /\ Tail(s) \in Seq(S) /\ Len(Tail(s)) = Len(s) - 1
  OBVIOUS
<1>2. \A i \in 1..Len(Tail(s)) : Tail(s)[i] = s[i + 1]
  OBVIOUS
<1>3. Once(Tail(s))
  BY <1>1, <1>2 DEF Once
<1>4. ASSUME NEW e \in Elems(Tail(s)) PROVE e \in Elems(s) \ {Head(s)}
  BY <1>1, <1>2 DEF Elems, Once
<1>5. ASSUME NEW e \in Elems(s) \ {Head(s)} PROVE e \in Elems(Tail(s))
  <2>1. PICK i \in 1..Len(s) : e = s[i]
    BY DEF Elems
  <2>2. i # 1 /\ i - 1 \in 1..Len(Tail(s)) /\ Tail(s)[i - 1] = e
    BY <1>1, <1>2, <2>1
  <2>3. QED
    BY <2>2 DEF Elems
<1>6. Head(s) \in S /\ Head(s) \in Elems(s)
  BY <1>1 DEF Elems
<1>7. QED
  BY <1>1, <1>3, <1>4, <1>5, <1>6

LEMMA PutLast ==
  ASSUME NEW S, NEW s \in Seq(S), NEW e \in S
  PROVE  /\ Append(s, e) \in Seq(S) /\ Elems(Append(s, e)) = Elems(s) \cup {e}
         /\ Once(s) /\ e \notin Elems(s) => Once(Append(s, e))
<1>1. Len(s) \in Nat /\ Append(s, e) \in Seq(S) /\ Len(Append(s, e)) = Len(s) + 1
  OBVIOUS
<1>2. \A i \in 1..Len(s) : Append(s, e)[i] = s[i]
  OBVIOUS
<1>3. Append(s, e)[Len(s) + 1] = e
  OBVIOUS
<1>4. Elems(Append(s, e)) = Elems(s) \cup {e}
  BY <1>1, <1>2, <1>3 DEF Elems
<1>5. Once(s) /\ e \notin Elems(s) => Once(Append(s, e))
  BY <1>1, <1>2, <1>3 DEF Elems, Once
<1>6. QED
  BY <1>1, <1>4, <1>5

LEMMA ElemsType ==
  ASSUME NEW S, NEW s \in Seq(S)
  PROVE  Elems(s) \subseteq S /\ (s = <<>> <=> Elems(s) = {})
<1>1. Len(s) \in Nat /\ (s = <<>> <=> Len(s) = 0)
  OBVIOUS
<1>2. QED
  BY <1>1 DEF Elems

LEMMA NothingHeld == Elems(<<>>) = {} /\ Once(<<>>)
BY DEF Elems, Once

-----------------------------------------------------------------------------
\* TypeOK is preserved by main and the collector.
LEMMA TypeMain ==
  ASSUME TypeOK, Main \/ Collector
  PROVE  TypeOK'
<1>1. CASE SendJob
  <2>1. sent + 1 \in Jobs /\ sent' \in 0..NumJobs
    BY <1>1, PoolAssumption DEF SendJob, TypeOK, Jobs
  <2>2. jobs' \in Seq(Jobs)
    BY <1>1, <2>1, PutLast DEF SendJob, TypeOK
  <2>3. QED
    BY <1>1, <2>1, <2>2 DEF SendJob, TypeOK
<1>2. CASE CloseJobs \/ CloseResults \/ CloseService
  BY <1>2 DEF CloseJobs, CloseResults, CloseService, Close, TypeOK
<1>3. CASE ReadErrors
  BY <1>3 DEF ReadErrors, TypeOK
<1>4. CASE TakeResult
  <2>1. results' \in Seq(Jobs) /\ errors' \in Nat
    BY <1>4 DEF TakeResult, TypeOK
  <2>2. QED
    BY <1>4, <2>1 DEF TakeResult, TypeOK
<1>5. CASE CollectorReturns
  BY <1>5 DEF CollectorReturns, TypeOK
<1>6. QED
  BY <1>1, <1>2, <1>3, <1>4, <1>5 DEF Main, Collector

LEMMA TypeWorker ==
  ASSUME TypeOK, NEW w \in Workers, Worker(w)
  PROVE  TypeOK'
<1> DEFINE Record == [at : {"idle", "request", "collect", "result", "done"}, job : 0..NumJobs,
                      cell : 0..(NumCells + 1), pics : SUBSET Cells]
           Fine(v) == v \in Record /\ (v.at \in {"request", "collect", "result"}
                                         => v.job \in Jobs /\ v.cell \in 1..(NumCells + 1))
<1>0. NumCells \in Nat \ {0} /\ NumJobs \in Nat /\ Fine(worker[w])
  BY PoolAssumption DEF TypeOK
<1>1. ASSUME NEW v, Fine(v), Step(w, v)
      PROVE  /\ worker' \in [Workers -> Record]
             /\ \A u \in Workers : worker'[u].at \in {"request", "collect", "result"}
                          => worker'[u].job \in Jobs /\ worker'[u].cell \in 1..(NumCells + 1)
  BY <1>1 DEF TypeOK, Step
<1>2. CASE TakeJob(w)
  <2>1. Head(jobs) \in Jobs /\ jobs' \in Seq(Jobs)
    BY <1>2 DEF TakeJob, TypeOK
  <2>2. Fine([at |-> "request", job |-> Head(jobs), cell |-> 1, pics |-> {}])
    BY <1>0, <2>1 DEF Jobs
  <2>3. QED
    BY <1>1, <1>2, <2>1, <2>2 DEF TakeJob, TypeOK
<1>3. CASE WorkerReturns(w)
  <2>1. Fine([worker[w] EXCEPT !.at = "done"])
    BY <1>0
  <2>2. QED
    BY <1>1, <1>3, <2>1 DEF WorkerReturns, TypeOK
<1>4. CASE Request(w)
  <2> DEFINE j == worker[w].job  c == worker[w].cell
  <2>1. c + 1 \in 1..(NumCells + 1) /\ <<j, c>> \in Requests
    BY <1>0, <1>4 DEF Request, Requests, Cells
  <2>2. Fine([worker[w] EXCEPT !.cell = c + 1])
    BY <1>0, <2>1
  <2>3. service' \in Seq(Requests)
    <3>1. service \in Seq(Requests) /\ Append(service, <<j, c>>) \in Seq(Requests)
      BY <2>1, PutLast DEF TypeOK
    <3>2. service' \in {service, Append(service, <<j, c>>)}
      BY <1>4 DEF Request
    <3>3. QED
      BY <3>1, <3>2
  <2>4. response' \in [Requests -> {"unmade", "open", "full", "fullClosed", "closed"}]
    BY <1>4, <2>1 DEF Request, TypeOK
  <2>5. QED
    BY <1>1, <1>4, <2>2, <2>3, <2>4 DEF Request, TypeOK
<1>5. CASE StartCollecting(w)
  <2> DEFINE v == [worker[w] EXCEPT !.at = "collect", !.cell = 1]
  <2>0. v.at = "collect" /\ v.cell = 1 /\ v.job = worker[w].job /\ v.pics = worker[w].pics
    BY <1>0
  <2>1. Fine(v)
    <3>1. v \in Record
      <4>1. [worker[w] EXCEPT !.at = "collect"] \in Record /\ 1 \in 0..(NumCells + 1)
        BY <1>0
      <4>2. [[worker[w] EXCEPT !.at = "collect"] EXCEPT !.cell = 1] \in Record
        BY <4>1
      <4>3. QED
        BY <4>2
    <3>2. v.job \in Jobs /\ 1 \in 1..(NumCells + 1)
      BY <1>0, <1>5, <2>0 DEF StartCollecting
    <3>3. QED
      BY <2>0, <3>1, <3>2
  <2>2. QED
    BY <1>1, <1>5, <2>1 DEF StartCollecting, TypeOK
<1>6. CASE CollectResponse(w)
  <2> DEFINE j == worker[w].job  c == worker[w].cell
  <2>1. c + 1 \in 1..(NumCells + 1) /\ <<j, c>> \in Requests /\ c \in Cells
    BY <1>0, <1>6 DEF CollectResponse, Requests, Cells
  <2>2. Fine([worker[w] EXCEPT !.cell = c + 1])
    BY <1>0, <2>1
  <2>3. Fine([worker[w] EXCEPT !.cell = c + 1, !.pics = @ \cup {c}])
    <3> DEFINE v == [worker[w] EXCEPT !.cell = c + 1, !.pics = @ \cup {c}]
    <3>1. v.at = worker[w].at /\ v.cell = c + 1 /\ v.job = worker[w].job
      BY <1>0
    <3>2. v \in Record
      <4>1. [worker[w] EXCEPT !.cell = c + 1] \in Record
        BY <1>0, <2>1
      <4>2. [[worker[w] EXCEPT !.cell = c + 1] EXCEPT !.pics = @ \cup {c}] \in Record
        BY <2>1, <4>1
      <4>3. QED
        BY <4>2
    <3>3. QED
      BY <1>0, <2>1, <3>1, <3>2
  <2>4. response' \in [Requests -> {"unmade", "open", "full", "fullClosed", "closed"}]
    BY <1>6, <2>1 DEF CollectResponse, TypeOK
  <2>5. Step(w, [worker[w] EXCEPT !.cell = c + 1])
          \/ Step(w, [worker[w] EXCEPT !.cell = c + 1, !.pics = @ \cup {c}])
    BY <1>6 DEF CollectResponse
  <2>6. /\ worker' \in [Workers -> Record]
        /\ \A u \in Workers : worker'[u].at \in {"request", "collect", "result"}
                     => worker'[u].job \in Jobs /\ worker'[u].cell \in 1..(NumCells + 1)
    BY <1>1, <2>2, <2>3, <2>5
  <2>7. QED
    BY <1>6, <2>4, <2>6 DEF CollectResponse, TypeOK
<1>7. CASE SaveFrame(w)
  <2>1. Fine([worker[w] EXCEPT !.at = "result"])
    BY <1>0, <1>7 DEF SaveFrame
  <2>2. outcome' \in [Jobs -> {"pending", "ok", "failed"}]
    BY <1>7 DEF SaveFrame, TypeOK
  <2>3. QED
    BY <1>1, <1>7, <2>1, <2>2 DEF SaveFrame, TypeOK
<1>8. CASE SendResult(w)
  <2>1. Fine(IdleWorker)
    BY <1>0 DEF IdleWorker
  <2>2. results' \in Seq(Jobs)
    BY <1>0, <1>8, PutLast DEF SendResult, TypeOK
  <2>3. QED
    BY <1>1, <1>8, <2>1, <2>2 DEF SendResult, TypeOK
<1>9. QED
  BY <1>2, <1>3, <1>4, <1>5, <1>6, <1>7, <1>8 DEF Worker

LEMMA TypeRenderer ==
  ASSUME TypeOK, NEW r \in Renderers, Renderer(r)
  PROVE  TypeOK'
<1>1. CASE TakeRequest(r)
  <2>1. Head(service) \in Requests /\ service' \in Seq(Requests)
    BY <1>1 DEF TakeRequest, TypeOK
  <2>2. QED
    BY <1>1, <2>1 DEF TakeRequest, TypeOK, othersVars
<1>2. CASE RendererReturns(r)
  BY <1>2 DEF RendererReturns, TypeOK, othersVars
<1>3. CASE Fetch(r)
  BY <1>3 DEF Fetch, TypeOK, othersVars
<1>4. CASE CloseResponse(r)
  BY <1>4 DEF CloseResponse, IdleRenderer, TypeOK, othersVars
<1>5. QED
  BY <1>1, <1>2, <1>3, <1>4 DEF Renderer

\* The variables of the pool keep their types.
THEOREM TypeCorrect == Spec => []TypeOK
<1>1. Init => TypeOK
  BY PoolAssumption DEF Init, TypeOK, IdleWorker, IdleRenderer
<1>2. TypeOK /\ [Next]_vars => TypeOK'
  <2> SUFFICES ASSUME TypeOK, [Next]_vars PROVE TypeOK'
    OBVIOUS
  <2>1. CASE Ended \/ UNCHANGED vars
    BY <2>1 DEF Ended, vars, TypeOK
  <2>2. QED
    BY <2>1, TypeMain, TypeWorker, TypeRenderer DEF Next
<1>3. QED
  BY <1>1, <1>2, PTL DEF Spec

-----------------------------------------------------------------------------
\* The record of a worker, field by field, after each of its steps.
Is(v, at, job, cell, pics) == v.at = at /\ v.job = job /\ v.cell = cell /\ v.pics = pics

LEMMA WorkerFields ==
  ASSUME TypeOK, NEW w \in Workers
  PROVE  /\ Worker(w) => \A u \in Workers \ {w} : worker'[u] = worker[u]
         /\ TakeJob(w) => Is(worker'[w], "request", Head(jobs), 1, {})
         /\ WorkerReturns(w) => Is(worker'[w], "done", worker[w].job, worker[w].cell, worker[w].pics)
         /\ Request(w) => Is(worker'[w], "request", worker[w].job, worker[w].cell + 1, worker[w].pics)
         /\ StartCollecting(w) => Is(worker'[w], "collect", worker[w].job, 1, worker[w].pics)
         /\ CollectResponse(w) =>
              \/ Is(worker'[w], "collect", worker[w].job, worker[w].cell + 1, worker[w].pics)
              \/ Is(worker'[w], "collect", worker[w].job, worker[w].cell + 1,
                    worker[w].pics \cup {worker[w].cell})
         /\ SaveFrame(w) => Is(worker'[w], "result", worker[w].job, worker[w].cell, worker[w].pics)
         /\ SendResult(w) => Is(worker'[w], "idle", 0, 0, {})
<1> USE DEF Is, Step, TypeOK
<1>1. Worker(w) => \A u \in Workers \ {w} : worker'[u] = worker[u]
  BY DEF Worker, TakeJob, WorkerReturns, Request, StartCollecting, CollectResponse, SaveFrame, SendResult
<1>2. TakeJob(w) => Is(worker'[w], "request", Head(jobs), 1, {})
  BY DEF TakeJob
<1>3. WorkerReturns(w) => Is(worker'[w], "done", worker[w].job, worker[w].cell, worker[w].pics)
  BY DEF WorkerReturns
<1>4. Request(w) => Is(worker'[w], "request", worker[w].job, worker[w].cell + 1, worker[w].pics)
  BY DEF Request
<1>5. StartCollecting(w) => Is(worker'[w], "collect", worker[w].job, 1, worker[w].pics)
  BY DEF StartCollecting
<1>6. CollectResponse(w) =>
        \/ Is(worker'[w], "collect", worker[w].job, worker[w].cell + 1, worker[w].pics)
        \/ Is(worker'[w], "collect", worker[w].job, worker[w].cell + 1,
              worker[w].pics \cup {worker[w].cell})
  <2> DEFINE c == worker[w].cell
             v == [worker[w] EXCEPT !.cell = c + 1, !.pics = @ \cup {c}]
  <2>1. CollectResponse(w) => Step(w, [worker[w] EXCEPT !.cell = c + 1]) \/ Step(w, v)
    BY DEF CollectResponse
  <2>2. CollectResponse(w) => worker[w].at = "collect"
    BY DEF CollectResponse
  <2>3. worker[w].at = "collect" => Is(v, "collect", worker[w].job, c + 1, worker[w].pics \cup {c})
    OBVIOUS
  <2>4. worker[w].at = "collect"
          => Is([worker[w] EXCEPT !.cell = c + 1], "collect", worker[w].job, c + 1, worker[w].pics)
    OBVIOUS
  <2>5. \A x : Step(w, x) => worker'[w] = x
    OBVIOUS
  <2> HIDE DEF v, Is, Step
  <2>6. QED
    BY <2>1, <2>2, <2>3, <2>4, <2>5
<1>7. SaveFrame(w) => Is(worker'[w], "result", worker[w].job, worker[w].cell, worker[w].pics)
  BY DEF SaveFrame
<1>8. SendResult(w) => Is(worker'[w], "idle", 0, 0, {})
  BY DEF SendResult, IdleWorker
<1>9. QED
  BY <1>1, <1>2, <1>3, <1>4, <1>5, <1>6, <1>7, <1>8

\* A step that moves no job preserves PlaceInv.
LEMMA PlaceFrame ==
  ASSUME PlaceInv, UNCHANGED <<sent, jobs, results, outcome>>,
         \A u \in Workers : /\ worker'[u].job = worker[u].job
                            /\ Busy(u)' <=> Busy(u)
                            /\ worker'[u].at \in {"request", "collect"} <=>
                                 worker[u].at \in {"request", "collect"}
  PROVE  PlaceInv'
<1>1. Taken' = Taken
  BY DEF Taken
<1>2. QED
  BY <1>1 DEF PlaceInv

LEMMA PlaceSendJob ==
  ASSUME TypeOK, PlaceInv, SendJob
  PROVE  PlaceInv'
<1>1. sent \in Nat /\ sent' = sent + 1 /\ sent + 1 \in Jobs /\ UNCHANGED <<worker, results, outcome>>
  BY PoolAssumption DEF SendJob, TypeOK, Jobs
<1>2. sent + 1 \notin Elems(jobs)
  BY <1>1 DEF PlaceInv
<1>3. Once(jobs') /\ Elems(jobs') = Elems(jobs) \cup {sent + 1}
  BY <1>1, <1>2, PutLast DEF SendJob, TypeOK, PlaceInv
<1>4. 1..(sent + 1) = (1..sent) \cup {sent + 1}
  BY <1>1
<1>5. Taken' = Taken
  BY <1>1, <1>2, <1>3, <1>4 DEF Taken
<1>6. Elems(jobs') \subseteq 1..sent'
  BY <1>1, <1>3, <1>4 DEF PlaceInv
<1>7. Elems(results') = Elems(results) /\ (Once(results') <=> Once(results))
  BY <1>1
<1>8. QED
  BY <1>1, <1>3, <1>5, <1>6, <1>7 DEF PlaceInv, Busy

LEMMA PlaceTakeJob ==
  ASSUME TypeOK, PlaceInv, NEW w \in Workers, TakeJob(w)
  PROVE  PlaceInv'
<1> DEFINE h == Head(jobs)
<1>1. UNCHANGED <<sent, results, outcome>> /\ worker[w].at = "idle" /\ jobs' = Tail(jobs)
  BY DEF TakeJob
<1>2. h \in Jobs /\ h \in Elems(jobs) /\ Once(jobs') /\ Elems(jobs') = Elems(jobs) \ {h}
  BY TakeHead DEF TakeJob, TypeOK, PlaceInv
<1>3. Taken' = Taken \cup {h} /\ h \notin Taken
  BY <1>1, <1>2 DEF Taken, PlaceInv
<1>4. worker'[w].at = "request" /\ worker'[w].job = h /\ \A u \in Workers \ {w} : worker'[u] = worker[u]
  BY WorkerFields DEF Is, Worker
<1> HIDE DEF h
<1>5. \A u \in Workers : Busy(u)' => worker'[u].job \in Taken' \ Elems(results')
  BY <1>1, <1>3, <1>4 DEF PlaceInv, Busy
<1>6. \A u, v \in Workers : u # v /\ Busy(u)' /\ Busy(v)' => worker'[u].job # worker'[v].job
  BY <1>3, <1>4 DEF PlaceInv, Busy
<1>7. \A j \in Jobs \ Taken' : outcome'[j] = "pending"
  BY <1>1, <1>3 DEF PlaceInv
<1>8. \A u \in Workers : worker'[u].at \in {"request", "collect"} => outcome'[worker'[u].job] = "pending"
  BY <1>1, <1>2, <1>3, <1>4 DEF PlaceInv
<1>9. \A j \in Taken' : outcome'[j] = "pending" =>
         \E u \in Workers : worker'[u].at \in {"request", "collect"} /\ worker'[u].job = j
  <2> SUFFICES ASSUME NEW j \in Taken', outcome'[j] = "pending"
               PROVE  \E u \in Workers : worker'[u].at \in {"request", "collect"} /\ worker'[u].job = j
    OBVIOUS
  <2>1. CASE j = h
    BY <1>4, <2>1
  <2>2. CASE j # h
    <3>1. PICK u \in Workers : worker[u].at \in {"request", "collect"} /\ worker[u].job = j
      BY <1>1, <1>3, <2>2 DEF PlaceInv
    <3>2. QED
      BY <1>1, <1>4, <3>1
  <2>3. QED
    BY <2>1, <2>2
<1>10. /\ Once(results') /\ Elems(results') \subseteq Taken'
       /\ Elems(jobs') \subseteq 1..sent'
  BY <1>1, <1>2, <1>3 DEF PlaceInv
<1>11. QED
  BY <1>2, <1>5, <1>6, <1>7, <1>8, <1>9, <1>10 DEF PlaceInv

LEMMA PlaceSaveFrame ==
  ASSUME TypeOK, PlaceInv, NEW w \in Workers, SaveFrame(w)
  PROVE  PlaceInv'
<1> DEFINE j == worker[w].job
<1>1. UNCHANGED <<sent, jobs, results>> /\ worker[w].at = "collect"
  BY DEF SaveFrame
<1>2. Taken' = Taken /\ j \in Taken
  BY <1>1 DEF Taken, PlaceInv, Busy
<1>3. worker'[w].at = "result" /\ worker'[w].job = j /\ \A u \in Workers \ {w} : worker'[u] = worker[u]
  BY WorkerFields DEF Is, Worker
<1>4. j \in Jobs
  BY <1>1 DEF TypeOK
<1>5. outcome'[j] # "pending" /\ \A i \in Jobs \ {j} : outcome'[i] = outcome[i]
  BY <1>4 DEF SaveFrame, TypeOK
<1>6. \A u \in Workers : (Busy(u)' <=> Busy(u)) /\ worker'[u].job = worker[u].job
  BY <1>1, <1>3 DEF Busy
<1> HIDE DEF j
<1>7. \A u \in Workers : worker'[u].at \in {"request", "collect"} => outcome'[worker'[u].job] = "pending"
  <2> SUFFICES ASSUME NEW u \in Workers, worker'[u].at \in {"request", "collect"}
               PROVE  outcome'[worker'[u].job] = "pending"
    OBVIOUS
  <2>1. u # w /\ worker'[u] = worker[u]
    BY <1>3
  <2>2. worker[u].job # j /\ worker[u].job \in Jobs
    BY <1>1, <2>1 DEF PlaceInv, Busy, TypeOK, j
  <2>3. QED
    BY <1>5, <2>1, <2>2 DEF PlaceInv
<1>8. \A i \in Taken : outcome'[i] = "pending" =>
         \E u \in Workers : worker'[u].at \in {"request", "collect"} /\ worker'[u].job = i
  <2> SUFFICES ASSUME NEW i \in Taken, outcome'[i] = "pending"
               PROVE  \E u \in Workers : worker'[u].at \in {"request", "collect"} /\ worker'[u].job = i
    OBVIOUS
  <2>1. i \in Jobs /\ i # j
    BY <1>5, PoolAssumption DEF Taken, TypeOK, Jobs
  <2>2. PICK u \in Workers : worker[u].at \in {"request", "collect"} /\ worker[u].job = i
    BY <1>5, <2>1 DEF PlaceInv
  <2>3. QED
    BY <1>3, <2>1, <2>2 DEF j
<1>9. \A i \in Jobs \ Taken : outcome'[i] = "pending"
  BY <1>2, <1>5 DEF PlaceInv
<1>10. QED
  BY <1>1, <1>2, <1>6, <1>7, <1>8, <1>9 DEF PlaceInv

LEMMA PlaceSendResult ==
  ASSUME TypeOK, PlaceInv, NEW w \in Workers, SendResult(w)
  PROVE  PlaceInv'
<1> DEFINE j == worker[w].job
<1>1. UNCHANGED <<sent, jobs, outcome>> /\ worker[w].at = "result" /\ results' = Append(results, j)
  BY DEF SendResult
<1>2. Taken' = Taken /\ j \in Taken \ Elems(results) /\ j \in Jobs
  BY <1>1 DEF Taken, PlaceInv, Busy, TypeOK
<1>3. worker'[w].at = "idle" /\ \A u \in Workers \ {w} : worker'[u] = worker[u]
  BY WorkerFields DEF Is, Worker
<1>4. Once(results') /\ Elems(results') = Elems(results) \cup {j}
  BY <1>1, <1>2, PutLast DEF TypeOK, PlaceInv
<1>5. \A u \in Workers : Busy(u)' => u # w /\ Busy(u) /\ worker'[u] = worker[u] /\ worker[u].job # j
  BY <1>1, <1>3 DEF Busy, PlaceInv
<1> HIDE DEF j
<1>6. \A u \in Workers : Busy(u)' => worker'[u].job \in Taken' \ Elems(results')
  BY <1>2, <1>4, <1>5 DEF PlaceInv
<1>7. \A u, v \in Workers : u # v /\ Busy(u)' /\ Busy(v)' => worker'[u].job # worker'[v].job
  BY <1>5 DEF PlaceInv
<1>8. \A u \in Workers : worker'[u].at \in {"request", "collect"} => outcome'[worker'[u].job] = "pending"
  BY <1>1, <1>3 DEF PlaceInv
<1>9. \A i \in Taken' : outcome'[i] = "pending" =>
         \E u \in Workers : worker'[u].at \in {"request", "collect"} /\ worker'[u].job = i
  <2> SUFFICES ASSUME NEW i \in Taken, outcome[i] = "pending"
               PROVE  \E u \in Workers : worker'[u].at \in {"request", "collect"} /\ worker'[u].job = i
    BY <1>1, <1>2
  <2>1. PICK u \in Workers : worker[u].at \in {"request", "collect"} /\ worker[u].job = i
    BY DEF PlaceInv
  <2>2. QED
    BY <1>1, <1>3, <2>1
<1>10. QED
  BY <1>1, <1>2, <1>4, <1>6, <1>7, <1>8, <1>9 DEF PlaceInv

LEMMA PlaceTakeResult ==
  ASSUME TypeOK, PlaceInv, TakeResult
  PROVE  PlaceInv'
<1>1. UNCHANGED <<sent, jobs, worker, outcome>> /\ Taken' = Taken
  BY DEF TakeResult, Taken
<1>2. Once(results') /\ Elems(results') \subseteq Elems(results)
  BY TakeHead DEF TakeResult, TypeOK, PlaceInv
<1>3. QED
  BY <1>1, <1>2 DEF PlaceInv, Busy

LEMMA PlaceStep == TypeOK /\ PlaceInv /\ [Next]_vars => PlaceInv'
<1> SUFFICES ASSUME TypeOK, PlaceInv, [Next]_vars PROVE PlaceInv'
  OBVIOUS
<1>1. CASE UNCHANGED <<sent, jobs, results, outcome, worker>>
  BY <1>1, PlaceFrame DEF Busy
<1>2. CASE Main
  BY <1>1, <1>2, PlaceSendJob DEF Main, CloseJobs, CloseResults, CloseService, Close, ReadErrors
<1>3. CASE Collector
  BY <1>1, <1>3, PlaceTakeResult DEF Collector, CollectorReturns
<1>4. ASSUME NEW w \in Workers, Worker(w) PROVE PlaceInv'
  <2>1. ASSUME worker'[w].job = worker[w].job, Busy(w)' <=> Busy(w), UNCHANGED <<sent, jobs, results, outcome>>,
               worker'[w].at \in {"request", "collect"} <=> worker[w].at \in {"request", "collect"}
        PROVE  PlaceInv'
    BY <1>4, <2>1, WorkerFields, PlaceFrame DEF Busy
  <2>2. CASE WorkerReturns(w)
    BY <2>1, <2>2, WorkerFields DEF WorkerReturns, Is, Busy
  <2>3. CASE Request(w)
    BY <2>1, <2>3, WorkerFields DEF Request, Is, Busy
  <2>4. CASE StartCollecting(w)
    BY <2>1, <2>4, WorkerFields DEF StartCollecting, Is, Busy
  <2>5. CASE CollectResponse(w)
    BY <2>1, <2>5, WorkerFields DEF CollectResponse, Is, Busy
  <2>6. QED
    BY <1>4, <2>2, <2>3, <2>4, <2>5, PlaceTakeJob, PlaceSaveFrame, PlaceSendResult DEF Worker
<1>5. ASSUME NEW r \in Renderers, Renderer(r) PROVE PlaceInv'
  BY <1>1, <1>5 DEF Renderer, TakeRequest, RendererReturns, Fetch, CloseResponse, othersVars
<1>6. CASE Ended \/ UNCHANGED vars
  BY <1>1, <1>6 DEF Ended, vars
<1>7. QED
  BY <1>2, <1>3, <1>4, <1>5, <1>6 DEF Next

-----------------------------------------------------------------------------
LEMMA MainStep == TypeOK /\ MainInv /\ [Next]_vars => MainInv'
<1> SUFFICES ASSUME TypeOK, MainInv, [Next]_vars PROVE MainInv'
  OBVIOUS
<1>1. CASE UNCHANGED <<mpc, sent, closed, worker, jobs, collector, results>>
  BY <1>1 DEF MainInv, WorkersDone
<1>2. CASE SendJob
  BY <1>2 DEF SendJob, MainInv, WorkersDone
<1>3. CASE CloseJobs \/ CloseResults \/ CloseService
  BY <1>3 DEF CloseJobs, CloseResults, CloseService, Close, MainInv, WorkersDone
<1>4. CASE ReadErrors
  BY <1>4 DEF ReadErrors, MainInv, WorkersDone
<1>5. CASE TakeResult
  BY <1>5 DEF TakeResult, MainInv, WorkersDone
<1>6. CASE CollectorReturns
  BY <1>6 DEF CollectorReturns, MainInv, WorkersDone
<1>7. ASSUME NEW w \in Workers, Worker(w) PROVE MainInv'
  <2>1. worker[w].at # "done"
    BY <1>7 DEF Worker, TakeJob, WorkerReturns, Request, StartCollecting, CollectResponse, SaveFrame,
                SendResult
  <2>2. mpc \in {"send", "workers"} /\ collector # "done"
    BY <2>1 DEF MainInv, WorkersDone, TypeOK
  <2>3. UNCHANGED <<mpc, sent, closed, collector>>
    BY <1>7 DEF Worker, TakeJob, WorkerReturns, Request, StartCollecting, CollectResponse, SaveFrame,
                SendResult
  <2>4. \A u \in Workers \ {w} : worker'[u] = worker[u]
    BY <1>7, WorkerFields
  <2>5. worker'[w].at = "done" => WorkerReturns(w)
    BY <1>7, WorkerFields DEF Worker, Is
  <2>6. jobs = <<>> => jobs' = <<>>
    BY <1>7 DEF Worker, TakeJob, WorkerReturns, Request, StartCollecting, CollectResponse, SaveFrame,
                SendResult
  <2>7. WorkerReturns(w) => mpc # "send" /\ jobs = <<>>
    BY DEF WorkerReturns, MainInv
  <2>8. \A u \in Workers : worker'[u].at = "done" => mpc # "send" /\ jobs' = <<>>
    BY <2>4, <2>5, <2>6, <2>7 DEF MainInv
  <2>9. QED
    BY <2>2, <2>3, <2>8 DEF MainInv
<1>8. ASSUME NEW r \in Renderers, Renderer(r) PROVE MainInv'
  BY <1>1, <1>8 DEF Renderer, TakeRequest, RendererReturns, Fetch, CloseResponse, othersVars
<1>9. CASE Ended \/ UNCHANGED vars
  BY <1>1, <1>9 DEF Ended, vars
<1>10. QED
  BY <1>2, <1>3, <1>4, <1>5, <1>6, <1>7, <1>8, <1>9 DEF Next, Main, Collector

-----------------------------------------------------------------------------
LEMMA CountedFinite == IsFiniteSet(Counted)
<1>1. IsFiniteSet(Jobs)
  BY PoolAssumption, FS_Interval DEF Jobs
<1>2. QED
  BY <1>1, FS_Subset DEF Counted

LEMMA CountStep == TypeOK /\ PlaceInv /\ CountInv /\ [Next]_vars => CountInv'
<1> SUFFICES ASSUME TypeOK, PlaceInv, CountInv, [Next]_vars PROVE CountInv'
  OBVIOUS
<1>1. CASE UNCHANGED <<outcome, results, worker, errors>>
  BY <1>1 DEF CountInv, Counted
<1>2. CASE Main
  BY <1>1, <1>2 DEF Main, SendJob, CloseJobs, CloseResults, CloseService, Close, ReadErrors
<1>3. CASE TakeResult
  <2> DEFINE h == Head(results)
  <2>1. h \in Jobs /\ h \in Elems(results) /\ Elems(results') = Elems(results) \ {h}
    BY <1>3, TakeHead DEF TakeResult, TypeOK, PlaceInv
  <2>2. UNCHANGED <<outcome, worker>> /\ h \notin Counted
    BY <1>3, <2>1 DEF TakeResult, Counted
  <2>3. \A w \in Workers : worker[w].at = "result" => worker[w].job # h
    BY <2>1 DEF PlaceInv, Busy
  <2>4. CASE outcome[h] = "failed"
    <3>1. Counted' = Counted \cup {h}
      BY <2>1, <2>2, <2>3, <2>4 DEF Counted
    <3>2. Cardinality(Counted \cup {h}) = Cardinality(Counted) + 1
      BY <2>2, CountedFinite, FS_AddElement
    <3>3. QED
      BY <1>3, <2>4, <3>1, <3>2 DEF TakeResult, CountInv
  <2>5. CASE outcome[h] # "failed"
    <3>1. Counted' = Counted
      BY <2>1, <2>2, <2>5 DEF Counted
    <3>2. QED
      BY <1>3, <2>5, <3>1 DEF TakeResult, CountInv
  <2>6. QED
    BY <2>4, <2>5
<1>4. CASE CollectorReturns
  BY <1>1, <1>4 DEF CollectorReturns
<1>5. ASSUME NEW w \in Workers, Worker(w) PROVE CountInv'
  <2>1. \A u \in Workers \ {w} : worker'[u] = worker[u]
    BY <1>5, WorkerFields
  <2>2. CASE worker[w].at # "result" /\ worker'[w].at # "result" /\ UNCHANGED <<outcome, results, errors>>
    <3>1. Counted' = Counted
      BY <2>1, <2>2 DEF Counted
    <3>2. QED
      BY <2>2, <3>1 DEF CountInv
  <2>3. CASE TakeJob(w) \/ WorkerReturns(w) \/ Request(w) \/ StartCollecting(w)
    BY <2>2, <2>3, WorkerFields DEF TakeJob, WorkerReturns, Request, StartCollecting, Is
  <2>4. CASE CollectResponse(w)
    BY <2>2, <2>4, WorkerFields DEF CollectResponse, Is
  <2>5. CASE SaveFrame(w)
    <3> DEFINE j == worker[w].job
    <3>1. j \in Jobs /\ outcome[j] = "pending" /\ UNCHANGED <<results, errors>> /\ worker[w].at = "collect"
      BY <2>5 DEF SaveFrame, TypeOK, PlaceInv
    <3>2. \A i \in Jobs \ {j} : outcome'[i] = outcome[i]
      BY <2>5 DEF SaveFrame, TypeOK
    <3>3. worker'[w].at = "result" /\ worker'[w].job = j
      BY <2>5, WorkerFields DEF Is
    <3> HIDE DEF j
    <3>4. Counted' = Counted
      BY <2>1, <3>1, <3>2, <3>3 DEF Counted
    <3>5. QED
      BY <3>1, <3>4 DEF CountInv
  <2>6. CASE SendResult(w)
    <3> DEFINE j == worker[w].job
    <3>1. j \in Jobs /\ UNCHANGED <<outcome, errors>> /\ worker[w].at = "result"
      BY <2>6 DEF SendResult, TypeOK
    <3>2. Elems(results') = Elems(results) \cup {j}
      BY <2>6, <3>1, PutLast DEF SendResult, TypeOK
    <3>3. worker'[w].at = "idle"
      BY <2>6, WorkerFields DEF Is
    <3>4. Counted' = Counted
      BY <2>1, <3>1, <3>2, <3>3 DEF Counted
    <3>5. QED
      BY <3>1, <3>4 DEF CountInv
  <2>7. QED
    BY <1>5, <2>3, <2>4, <2>5, <2>6 DEF Worker
<1>6. ASSUME NEW r \in Renderers, Renderer(r) PROVE CountInv'
  BY <1>1, <1>6 DEF Renderer, TakeRequest, RendererReturns, Fetch, CloseResponse, othersVars
<1>7. CASE Ended \/ UNCHANGED vars
  BY <1>1, <1>7 DEF Ended, vars
<1>8. QED
  BY <1>2, <1>3, <1>4, <1>5, <1>6, <1>7 DEF Next, Collector

-----------------------------------------------------------------------------
\* A renderer's record, field by field, after each of its steps.
LEMMA RendererFields ==
  ASSUME TypeOK, NEW r \in Renderers
  PROVE  /\ Renderer(r) => \A t \in Renderers \ {r} : renderer'[t] = renderer[t]
         /\ TakeRequest(r) => renderer'[r].at = "fetch" /\ renderer'[r].req = Head(service)
         /\ RendererReturns(r) => renderer'[r].at = "done"
         /\ Fetch(r) => renderer'[r].at = "close" /\ renderer'[r].req = renderer[r].req
         /\ CloseResponse(r) => renderer'[r].at = "idle"
BY DEF Renderer, TakeRequest, RendererReturns, Fetch, CloseResponse, IdleRenderer, TypeOK

\* A step that touches no request preserves ServiceInv, even if a job is taken.
LEMMA ServiceFrame ==
  ASSUME ServiceInv, UNCHANGED <<service, response, renderer, fetched, wants>>, Taken \subseteq Taken'
  PROVE  ServiceInv'
BY DEF ServiceInv, Serving

\* The request of worker w is new: nobody has it yet.
LEMMA ServiceRequest ==
  ASSUME TypeOK, PlaceInv, ServiceInv, PictureInv, NEW w \in Workers, Request(w),
         worker[w].cell \in wants[worker[w].job]
  PROVE  ServiceInv'
<1> DEFINE j == worker[w].job  c == worker[w].cell  q == <<j, c>>
<1>1. c \in Cells /\ j \in Jobs /\ q \in Requests /\ worker[w].at = "request"
  BY PoolAssumption DEF Request, TypeOK, Cells, Requests
<1>2. response[q] = "unmade"
  BY <1>1, PoolAssumption DEF PictureInv, Knows, Cells
<1>3. j \in Taken
  BY <1>1 DEF PlaceInv, Busy
<1>4. /\ service' = Append(service, q) /\ response' = [response EXCEPT ![q] = "open"]
      /\ UNCHANGED <<renderer, fetched, wants, sent, jobs>>
  BY DEF Request
<1>5. Taken' = Taken
  BY <1>4 DEF Taken
<1>6. q \notin Elems(service) /\ q \notin fetched /\ \A r \in Renderers : Serving(r) => renderer[r].req # q
  BY <1>1, <1>2 DEF ServiceInv, Serving
<1>7. Once(service') /\ Elems(service') = Elems(service) \cup {q}
  <2>1. service \in Seq(Requests) /\ Once(service)
    BY DEF ServiceInv, TypeOK
  <2> HIDE DEF q
  <2>2. QED
    BY <1>1, <1>4, <1>6, <2>1, PutLast
<1>8. response'[q] = "open" /\ \A p \in Requests \ {q} : response'[p] = response[p]
  BY <1>1, <1>4 DEF TypeOK
<1>9. Elems(service) \subseteq Requests /\ \A r \in Renderers : Serving(r) => renderer[r].req \in Requests
  BY ElemsType DEF TypeOK, Serving
<1>10. \A i \in Jobs, d \in Cells : i \notin Taken \/ d \notin wants[i] => <<i, d>> # q
  BY <1>3
<1>11. \A i \in Jobs, d \in Cells : <<i, d>> \in Requests
  BY DEF Requests
<1> HIDE DEF j, c, q
<1>12. \A p \in Elems(service') : response'[p] = "open" /\ p \notin fetched'
  BY <1>4, <1>6, <1>7, <1>8, <1>9 DEF ServiceInv
<1>13. \A r \in Renderers : Serving(r) => response'[renderer[r].req] = response[renderer[r].req]
  BY <1>6, <1>8, <1>9
<1>14. \A r \in Renderers : Serving(r)' => renderer'[r].req \notin Elems(service')
  BY <1>4, <1>6, <1>7 DEF ServiceInv, Serving
<1>15. /\ \A p \in Requests : response'[p] = "unmade" => p \notin fetched'
       /\ \A p \in Requests : response'[p] \in {"full", "fullClosed"} => p \in fetched'
  BY <1>4, <1>8 DEF ServiceInv
<1>16. \A i \in Jobs, d \in Cells : i \notin Taken' \/ d \notin wants'[i] => response'[<<i, d>>] = "unmade"
  BY <1>4, <1>5, <1>8, <1>10, <1>11 DEF ServiceInv
<1>17. \A r \in Renderers :
         /\ renderer'[r].at = "fetch" => response'[renderer'[r].req] = "open" /\ renderer'[r].req \notin fetched'
         /\ renderer'[r].at = "close" => response'[renderer'[r].req] \in {"open", "full"}
  BY <1>4, <1>13 DEF ServiceInv, Serving
<1>18. QED
  BY <1>4, <1>7, <1>12, <1>14, <1>15, <1>16, <1>17 DEF ServiceInv, Serving

\* An answer that a worker takes is one that no renderer is still going to write.
LEMMA ServiceCollect ==
  ASSUME TypeOK, PlaceInv, ServiceInv, NEW w \in Workers, CollectResponse(w)
  PROVE  ServiceInv'
<1> DEFINE j == worker[w].job  c == worker[w].cell  q == <<j, c>>
<1>1. q \in Requests /\ UNCHANGED <<service, renderer, fetched, wants, sent, jobs>>
  BY PoolAssumption DEF CollectResponse, TypeOK, Cells, Requests
<1>2. Taken' = Taken
  BY <1>1 DEF Taken
<1>3. CASE UNCHANGED response
  BY <1>1, <1>2, <1>3, ServiceFrame
<1>4. CASE /\ c \in wants[j] /\ response[q] \in {"full", "fullClosed"}
           /\ response' = [response EXCEPT ![q] = IF @ = "full" THEN "open" ELSE "closed"]
  <2>1. /\ response'[q] = IF response[q] = "full" THEN "open" ELSE "closed"
        /\ \A p \in Requests \ {q} : response'[p] = response[p]
    BY <1>1, <1>4 DEF TypeOK
  <2>2. Elems(service) \subseteq Requests /\ q \notin Elems(service)
    BY <1>4, ElemsType DEF ServiceInv, TypeOK
  <2>3. \A r \in Renderers : /\ Serving(r) => renderer[r].req \in Requests
                             /\ renderer[r].at = "fetch" => renderer[r].req # q
    BY <1>4 DEF ServiceInv, TypeOK, Serving
  <2>4. j \in Taken
    BY DEF CollectResponse, PlaceInv, Busy
  <2>5. \A i \in Jobs, d \in Cells : /\ <<i, d>> \in Requests
                                     /\ i \notin Taken \/ d \notin wants[i] => <<i, d>> # q
    BY <1>4, <2>4 DEF Requests
  <2> HIDE DEF j, c, q
  <2>6. \A r \in Renderers :
         /\ renderer[r].at = "fetch" => response'[renderer[r].req] = "open" /\ renderer[r].req \notin fetched
         /\ renderer[r].at = "close" => response'[renderer[r].req] \in {"open", "full"}
    <3> SUFFICES ASSUME NEW r \in Renderers, Serving(r)
                 PROVE  /\ renderer[r].at = "fetch" =>
                             response'[renderer[r].req] = "open" /\ renderer[r].req \notin fetched
                        /\ renderer[r].at = "close" => response'[renderer[r].req] \in {"open", "full"}
      BY DEF Serving
    <3>1. CASE renderer[r].req # q
      BY <2>1, <2>3, <3>1 DEF ServiceInv
    <3>2. CASE renderer[r].req = q
      BY <1>4, <2>1, <2>3, <3>2 DEF ServiceInv
    <3>3. QED
      BY <3>1, <3>2
  <2>7. \A i \in Jobs, d \in Cells : i \notin Taken \/ d \notin wants[i] => response'[<<i, d>>] = "unmade"
    BY <2>1, <2>5 DEF ServiceInv
  <2>8. \A p \in Elems(service) : response'[p] = "open" /\ p \notin fetched
    BY <2>1, <2>2 DEF ServiceInv
  <2>9. /\ \A p \in Requests : response'[p] = "unmade" => p \notin fetched
        /\ \A p \in Requests : response'[p] \in {"full", "fullClosed"} => p \in fetched
    BY <2>1 DEF ServiceInv
  <2>10. QED
    BY <1>1, <1>2, <2>6, <2>7, <2>8, <2>9 DEF ServiceInv, Serving
<1>5. QED
  BY <1>3, <1>4 DEF CollectResponse

LEMMA ServiceTakeRequest ==
  ASSUME TypeOK, ServiceInv, NEW r \in Renderers, TakeRequest(r)
  PROVE  ServiceInv'
<1> DEFINE h == Head(service)
<1>1. UNCHANGED <<response, fetched, wants>> /\ Taken' = Taken /\ renderer[r].at = "idle"
  BY DEF TakeRequest, othersVars, Taken
<1>2. h \in Elems(service) /\ Once(service') /\ Elems(service') = Elems(service) \ {h}
  BY TakeHead DEF TakeRequest, TypeOK, ServiceInv
<1>3. /\ renderer'[r].at = "fetch" /\ renderer'[r].req = h
      /\ \A t \in Renderers \ {r} : renderer'[t] = renderer[t]
  BY RendererFields DEF Renderer
<1> HIDE DEF h
<1>4. \A t \in Renderers : Serving(t)' => renderer'[t].req \notin Elems(service')
  BY <1>2, <1>3 DEF ServiceInv, Serving
<1>5. \A s, t \in Renderers : s # t /\ Serving(s)' /\ Serving(t)' => renderer'[s].req # renderer'[t].req
  BY <1>2, <1>3 DEF ServiceInv, Serving
<1>6. \A t \in Renderers :
         /\ renderer'[t].at = "fetch" => response[renderer'[t].req] = "open" /\ renderer'[t].req \notin fetched
         /\ renderer'[t].at = "close" => response[renderer'[t].req] \in {"open", "full"}
  BY <1>2, <1>3 DEF ServiceInv
<1>7. \A q \in Elems(service') : response[q] = "open" /\ q \notin fetched
  BY <1>2 DEF ServiceInv
<1>8. QED
  BY <1>1, <1>2, <1>4, <1>5, <1>6, <1>7 DEF ServiceInv

\* A renderer that fetches or closes changes the answer to its own request only.
LEMMA ServiceAnswer ==
  ASSUME TypeOK, ServiceInv, NEW r \in Renderers, Fetch(r) \/ CloseResponse(r)
  PROVE  ServiceInv'
<1> DEFINE q == renderer[r].req
<1>1. /\ q \in Requests /\ Serving(r) /\ UNCHANGED <<service, wants>> /\ Taken' = Taken
      /\ response[q] \in {"open", "full"} /\ q \notin Elems(service)
  BY DEF Fetch, CloseResponse, othersVars, Taken, TypeOK, Serving, ServiceInv
<1>2. /\ \A p \in Requests \ {q} : response'[p] = response[p] /\ (p \in fetched' <=> p \in fetched)
      /\ Fetch(r) => response'[q] \in {"open", "full"} /\ (response'[q] = "full" => q \in fetched')
      /\ CloseResponse(r) => /\ fetched' = fetched
                             /\ response'[q] = IF response[q] = "full" THEN "fullClosed" ELSE "closed"
  BY <1>1 DEF Fetch, CloseResponse, TypeOK, ServiceInv
<1>3. /\ \A t \in Renderers \ {r} : renderer'[t] = renderer[t]
      /\ Fetch(r) => renderer'[r].at = "close" /\ renderer'[r].req = q
      /\ CloseResponse(r) => renderer'[r].at = "idle"
  BY RendererFields DEF Renderer
<1>4. Elems(service) \subseteq Requests /\ \A t \in Renderers : Serving(t) => renderer[t].req \in Requests
  BY ElemsType DEF TypeOK, Serving
<1>5. \A t \in Renderers \ {r} : Serving(t) => renderer[t].req # q
  BY <1>1 DEF ServiceInv
<1>6. \A i \in Jobs, d \in Cells : /\ <<i, d>> \in Requests
                                   /\ i \notin Taken \/ d \notin wants[i] => <<i, d>> # q
  BY <1>1 DEF ServiceInv, Requests
<1> HIDE DEF q
<1>7. \A p \in Elems(service) : response'[p] = "open" /\ p \notin fetched'
  BY <1>1, <1>2, <1>4 DEF ServiceInv
<1>8. \A t \in Renderers :
         /\ renderer'[t].at = "fetch" => response'[renderer'[t].req] = "open" /\ renderer'[t].req \notin fetched'
         /\ renderer'[t].at = "close" => response'[renderer'[t].req] \in {"open", "full"}
  BY <1>1, <1>2, <1>3, <1>4, <1>5 DEF ServiceInv, Serving
<1>9. \A t \in Renderers : Serving(t)' => renderer'[t].req \notin Elems(service)
  BY <1>1, <1>3 DEF ServiceInv, Serving
<1>10. \A s, t \in Renderers : s # t /\ Serving(s)' /\ Serving(t)' => renderer'[s].req # renderer'[t].req
  BY <1>1, <1>3, <1>5 DEF ServiceInv, Serving
<1>11. /\ \A p \in Requests : response'[p] = "unmade" => p \notin fetched'
       /\ \A p \in Requests : response'[p] \in {"full", "fullClosed"} => p \in fetched'
  BY <1>1, <1>2 DEF ServiceInv
<1>12. \A i \in Jobs, d \in Cells : i \notin Taken \/ d \notin wants[i] => response'[<<i, d>>] = "unmade"
  BY <1>2, <1>6 DEF ServiceInv
<1>13. QED
  BY <1>1, <1>7, <1>8, <1>9, <1>10, <1>11, <1>12 DEF ServiceInv

LEMMA ServiceStep == TypeOK /\ PlaceInv /\ ServiceInv /\ PictureInv /\ [Next]_vars => ServiceInv'
<1> SUFFICES ASSUME TypeOK, PlaceInv, ServiceInv, PictureInv, [Next]_vars PROVE ServiceInv'
  OBVIOUS
<1>1. CASE UNCHANGED <<service, response, renderer, fetched, wants, sent, jobs>>
  BY <1>1, ServiceFrame DEF Taken
<1>2. CASE SendJob
  <2>1. sent + 1 \notin Elems(jobs) /\ sent + 1 \in Jobs /\ sent \in Nat
    BY <1>2, PoolAssumption DEF SendJob, PlaceInv, TypeOK, Jobs
  <2>2. Elems(jobs') = Elems(jobs) \cup {sent + 1}
    BY <1>2, <2>1, PutLast DEF SendJob, TypeOK
  <2>3. Taken \subseteq Taken'
    BY <1>2, <2>1, <2>2 DEF SendJob, Taken
  <2>4. QED
    BY <1>2, <2>3, ServiceFrame DEF SendJob
<1>3. CASE CloseJobs \/ CloseResults \/ CloseService \/ ReadErrors \/ Collector
  BY <1>1, <1>3 DEF CloseJobs, CloseResults, CloseService, Close, ReadErrors, Collector, TakeResult,
                    CollectorReturns
<1>4. ASSUME NEW w \in Workers, Worker(w) PROVE ServiceInv'
  <2>1. CASE TakeJob(w)
    <3>1. Elems(jobs') \subseteq Elems(jobs)
      BY <2>1, TakeHead DEF TakeJob, TypeOK, PlaceInv
    <3>2. Taken \subseteq Taken'
      BY <2>1, <3>1 DEF TakeJob, Taken
    <3>3. QED
      BY <2>1, <3>2, ServiceFrame DEF TakeJob
  <2>2. CASE WorkerReturns(w) \/ StartCollecting(w) \/ SaveFrame(w) \/ SendResult(w)
    BY <1>1, <2>2 DEF WorkerReturns, StartCollecting, SaveFrame, SendResult
  <2>3. CASE Request(w) /\ worker[w].cell \notin wants[worker[w].job]
    BY <1>1, <2>3 DEF Request
  <2>4. QED
    BY <1>4, <2>1, <2>2, <2>3, ServiceRequest, ServiceCollect DEF Worker
<1>5. ASSUME NEW r \in Renderers, Renderer(r) PROVE ServiceInv'
  <2>1. CASE RendererReturns(r)
    <3>1. /\ UNCHANGED <<service, response, fetched, wants, sent, jobs>> /\ ~Serving(r)
          /\ renderer'[r].at = "done" /\ \A t \in Renderers \ {r} : renderer'[t] = renderer[t]
      BY <1>5, <2>1, RendererFields DEF RendererReturns, othersVars, Serving
    <3>2. Taken' = Taken
      BY <3>1 DEF Taken
    <3>3. \A t \in Renderers : renderer'[t].at \in {"fetch", "close"} => renderer'[t] = renderer[t]
      BY <3>1
    <3>4. QED
      BY <3>1, <3>2, <3>3 DEF ServiceInv, Serving
  <2>2. QED
    BY <1>5, <2>1, ServiceTakeRequest, ServiceAnswer DEF Renderer
<1>6. CASE Ended \/ UNCHANGED vars
  BY <1>1, <1>6 DEF Ended, vars
<1>7. QED
  BY <1>2, <1>3, <1>4, <1>5, <1>6 DEF Next, Main

-----------------------------------------------------------------------------
\* A step that touches neither the requests nor what the workers know of them preserves
\* PictureInv.
LEMMA PictureFrame ==
  ASSUME PictureInv, UNCHANGED <<response, fetched, worker>>, Elems(service') \subseteq Elems(service),
         \A r \in Renderers : renderer'[r].at = "fetch" =>
           \/ renderer[r].at = "fetch" /\ renderer'[r].req = renderer[r].req
           \/ renderer'[r].req \in Elems(service)
  PROVE  PictureInv'
BY DEF PictureInv, Knows, Ahead, Behind

\* A worker's step leaves what the other workers know as it is, if it changes at most the
\* answer to, and the place of, a request of its own job.
LEMMA OthersKnow ==
  ASSUME TypeOK, PlaceInv, PictureInv, NEW w \in Workers, Busy(w),
         NEW c \in Cells,
         \A u \in Workers \ {w} : worker'[u] = worker[u],
         UNCHANGED <<fetched, renderer>>,
         Elems(service') \subseteq Elems(service) \cup {<<worker[w].job, c>>},
         \A p \in Requests : p # <<worker[w].job, c>> => response'[p] = response[p]
  PROVE  \A u \in Workers \ {w}, d \in Cells : Knows(u, d)'
<1> SUFFICES ASSUME NEW u \in Workers \ {w}, NEW d \in Cells PROVE Knows(u, d)'
  OBVIOUS
<1>1. Knows(u, d) /\ worker'[u] = worker[u]
  BY DEF PictureInv
<1>2. CASE ~Busy(u)
  BY <1>1, <1>2 DEF Knows, Ahead, Behind, Busy
<1>3. CASE Busy(u)
  <2>1. worker[u].job # worker[w].job /\ worker[u].job \in Jobs
    BY <1>3 DEF PlaceInv, TypeOK, Busy
  <2>2. /\ <<worker[u].job, d>> \in Requests /\ <<worker[u].job, d>> # <<worker[w].job, c>>
    BY <2>1 DEF Requests
  <2>3. response'[<<worker[u].job, d>>] = response[<<worker[u].job, d>>]
    BY <2>2
  <2>4. <<worker[u].job, d>> \notin Elems(service) => <<worker[u].job, d>> \notin Elems(service')
    BY <2>2
  <2>5. QED
    BY <1>1, <2>3, <2>4 DEF Knows, Ahead, Behind
<1>4. QED
  BY <1>2, <1>3

\* The worker that takes a job knows nothing of it: none of its requests was made.
LEMMA PictureTakeJob ==
  ASSUME TypeOK, PlaceInv, ServiceInv, PictureInv, NEW w \in Workers, TakeJob(w)
  PROVE  PictureInv'
<1> DEFINE h == Head(jobs)
<1>1. h \in Elems(jobs) /\ h \in Jobs
  BY TakeHead DEF TakeJob, TypeOK, PlaceInv
<1>2. h \notin Taken
  BY <1>1 DEF Taken
<1>3. /\ UNCHANGED <<response, fetched, renderer, service>>
      /\ Is(worker'[w], "request", h, 1, {}) /\ \A u \in Workers \ {w} : worker'[u] = worker[u]
  BY WorkerFields DEF TakeJob, Worker
<1> HIDE DEF h
<1>4. \A c \in Cells : <<h, c>> \in Requests /\ response[<<h, c>>] = "unmade" /\ <<h, c>> \notin fetched
  BY <1>1, <1>2 DEF ServiceInv, Requests
<1>5. \A c \in Cells : Knows(w, c)'
  BY <1>3, <1>4 DEF Knows, Ahead, Behind, Is
<1>6. \A u \in Workers \ {w}, c \in Cells : Knows(u, c)'
  BY <1>3 DEF PictureInv, Knows, Ahead, Behind
<1>7. QED
  BY <1>5, <1>6 DEF PictureInv

\* A request that is made is a request nobody has answered.
LEMMA PictureRequest ==
  ASSUME TypeOK, PlaceInv, ServiceInv, PictureInv, NEW w \in Workers, Request(w)
  PROVE  PictureInv'
<1> DEFINE j == worker[w].job  c == worker[w].cell  q == <<j, c>>
<1>1. c \in Cells /\ j \in Jobs /\ q \in Requests /\ worker[w].at = "request" /\ c \in Nat
  BY PoolAssumption DEF Request, TypeOK, Cells, Requests
<1>2. response[q] = "unmade" /\ q \notin fetched
  BY <1>1, PoolAssumption DEF PictureInv, Knows, ServiceInv, Cells
<1>3. /\ UNCHANGED <<renderer, fetched>> /\ Is(worker'[w], "request", j, c + 1, worker[w].pics)
      /\ \A u \in Workers \ {w} : worker'[u] = worker[u]
  BY WorkerFields DEF Request, Worker
<1>4. \A p \in Requests : p # q => response'[p] = response[p]
  BY <1>1 DEF Request, TypeOK
<1>5. Elems(service') \subseteq Elems(service) \cup {q}
  <2>1. service' \in {service, Append(service, q)} /\ service \in Seq(Requests)
    BY DEF Request, TypeOK
  <2> HIDE DEF q
  <2>2. Elems(Append(service, q)) = Elems(service) \cup {q}
    BY <1>1, <2>1, PutLast
  <2>3. QED
    BY <2>1, <2>2
<1>6. \A u \in Workers \ {w}, d \in Cells : Knows(u, d)'
  BY <1>1, <1>3, <1>4, <1>5, OthersKnow DEF Busy
<1>7. ASSUME NEW d \in Cells PROVE Knows(w, d)'
  <2>1. d \in Nat /\ <<j, d>> \in Requests /\ Knows(w, d) /\ (d # c => <<j, d>> # q)
    BY <1>1, PoolAssumption DEF Cells, Requests, PictureInv
  <2>2. CASE d = c
    BY <1>1, <1>2, <1>3, <2>1, <2>2 DEF Knows, Ahead, Behind, Is
  <2>3. CASE d # c
    BY <1>1, <1>3, <1>4, <2>1, <2>3 DEF Knows, Ahead, Behind, Is
  <2>4. QED
    BY <2>2, <2>3
<1>8. QED
  BY <1>6, <1>7 DEF PictureInv

\* The answer to a cell is final when its worker has looked at it.
LEMMA PictureCollect ==
  ASSUME TypeOK, PlaceInv, ServiceInv, PictureInv, NEW w \in Workers, CollectResponse(w)
  PROVE  PictureInv'
<1> DEFINE j == worker[w].job  c == worker[w].cell  q == <<j, c>>
<1>1. c \in Cells /\ j \in Jobs /\ q \in Requests /\ worker[w].at = "collect" /\ c \in Nat
  BY PoolAssumption DEF CollectResponse, TypeOK, Cells, Requests
<1>2. UNCHANGED <<service, renderer, fetched>> /\ \A u \in Workers \ {w} : worker'[u] = worker[u]
  BY WorkerFields DEF CollectResponse, Worker
<1>3. \A p \in Requests : p # q => response'[p] = response[p]
  BY <1>1 DEF CollectResponse, TypeOK
<1>4. \A u \in Workers \ {w}, d \in Cells : Knows(u, d)'
  BY <1>1, <1>2, <1>3, OthersKnow DEF Busy
<1>5. c \notin worker[w].pics /\ (q \in fetched => response[q] \in {"full", "fullClosed"})
  BY <1>1 DEF PictureInv, Knows, Ahead
<1>6. /\ q \notin Elems(service) /\ \A r \in Renderers : renderer[r].at = "fetch" => renderer[r].req # q
      /\ \/ q \notin fetched /\ Is(worker'[w], "collect", j, c + 1, worker[w].pics)
         \/ q \in fetched /\ Is(worker'[w], "collect", j, c + 1, worker[w].pics \cup {c})
  <2>1. CASE c \notin wants[j] /\ Step(w, [worker[w] EXCEPT !.cell = c + 1])
    <3>1. response[q] = "unmade"
      BY <1>1, <2>1 DEF ServiceInv
    <3>2. Is(worker'[w], "collect", j, c + 1, worker[w].pics)
      BY <1>1, <2>1 DEF Step, Is, TypeOK
    <3>3. QED
      BY <1>1, <3>1, <3>2 DEF ServiceInv
  <2>2. CASE response[q] \in {"full", "fullClosed"}
             /\ Step(w, [worker[w] EXCEPT !.cell = c + 1, !.pics = @ \cup {c}])
    <3>1. worker'[w] = [worker[w] EXCEPT !.cell = c + 1, !.pics = @ \cup {c}]
      BY <2>2 DEF Step, TypeOK
    <3>2. Is(worker'[w], "collect", j, c + 1, worker[w].pics \cup {c})
      <4>1. worker[w] \in [at : {"idle", "request", "collect", "result", "done"},
                             job : 0..NumJobs, cell : 0..(NumCells + 1), pics : SUBSET Cells]
        BY DEF TypeOK
      <4>2. QED
        BY <1>1, <3>1, <4>1 DEF Is
    <3>3. QED
      BY <1>1, <2>2, <3>2 DEF ServiceInv
  <2>3. CASE response[q] = "closed" /\ Step(w, [worker[w] EXCEPT !.cell = c + 1])
    <3>1. Is(worker'[w], "collect", j, c + 1, worker[w].pics)
      BY <1>1, <2>3 DEF Step, Is, TypeOK
    <3>2. QED
      BY <1>1, <1>5, <2>3, <3>1 DEF ServiceInv
  <2>4. QED
    BY <2>1, <2>2, <2>3 DEF CollectResponse
<1>7. ASSUME NEW d \in Cells PROVE Knows(w, d)'
  <2>1. d \in Nat /\ <<j, d>> \in Requests /\ Knows(w, d) /\ (d # c => <<j, d>> # q)
    BY <1>1, PoolAssumption DEF Cells, Requests, PictureInv
  <2>2. CASE d = c
    BY <1>1, <1>2, <1>5, <1>6, <2>1, <2>2 DEF Knows, Ahead, Behind, Is
  <2>3. CASE d # c
    BY <1>1, <1>2, <1>3, <1>6, <2>1, <2>3 DEF Knows, Ahead, Behind, Is
  <2>4. QED
    BY <2>2, <2>3
<1>8. QED
  BY <1>4, <1>7 DEF PictureInv

\* The other steps of a worker change no answer.
LEMMA PictureMove ==
  ASSUME TypeOK, PictureInv, NEW w \in Workers,
         WorkerReturns(w) \/ StartCollecting(w) \/ SaveFrame(w) \/ SendResult(w)
  PROVE  PictureInv'
<1>1. /\ UNCHANGED <<response, fetched, renderer, service>>
      /\ \A u \in Workers \ {w} : worker'[u] = worker[u]
  BY WorkerFields DEF Worker, WorkerReturns, StartCollecting, SaveFrame, SendResult
<1>2. \A u \in Workers \ {w}, c \in Cells : Knows(u, c)'
  BY <1>1 DEF PictureInv, Knows, Ahead, Behind
<1>3. ASSUME NEW c \in Cells PROVE Knows(w, c)'
  <2>0. c \in Nat /\ c >= 1 /\ c < NumCells + 1 /\ Knows(w, c)
    BY PoolAssumption DEF Cells, PictureInv
  <2>1. CASE WorkerReturns(w) \/ SendResult(w)
    BY <2>1, WorkerFields DEF Knows, Ahead, Behind, Is
  <2>2. CASE StartCollecting(w)
    <3>1. /\ worker[w].at = "request"
          /\ worker'[w].at = "collect" /\ worker'[w].job = worker[w].job
          /\ worker'[w].cell = 1 /\ worker'[w].pics = worker[w].pics
      BY <2>2, WorkerFields DEF Is, StartCollecting
    <3>2. QED
      BY <1>1, <2>0, <3>1 DEF Knows, Ahead, Behind
  <2>3. CASE SaveFrame(w)
    <3>1. /\ worker[w].at = "collect" /\ worker[w].cell = NumCells + 1
          /\ worker'[w].at = "result" /\ worker'[w].job = worker[w].job
          /\ worker'[w].pics = worker[w].pics
      BY <2>3, WorkerFields DEF Is, SaveFrame
    <3>2. QED
      BY <1>1, <2>0, <3>1 DEF Knows, Ahead, Behind
  <2>4. QED
    BY <2>1, <2>2, <2>3
<1>4. QED
  BY <1>2, <1>3 DEF PictureInv

\* A renderer answers a request before its worker looks at the answer, or not at all.
LEMMA PictureAnswer ==
  ASSUME TypeOK, ServiceInv, PictureInv, NEW r \in Renderers, Fetch(r) \/ CloseResponse(r)
  PROVE  PictureInv'
<1> DEFINE q == renderer[r].req
<1>1. /\ q \in Requests /\ UNCHANGED <<service, worker>> /\ response[q] \in {"open", "full"}
      /\ Fetch(r) => response[q] = "open" /\ q \notin fetched /\ renderer[r].at = "fetch"
  BY DEF Fetch, CloseResponse, othersVars, TypeOK, ServiceInv
<1>2. /\ \A p \in Requests \ {q} : response'[p] = response[p] /\ (p \in fetched' <=> p \in fetched)
      /\ Fetch(r) => (q \in fetched' => response'[q] = "full")
      /\ CloseResponse(r) => /\ fetched' = fetched
                             /\ response'[q] = IF response[q] = "full" THEN "fullClosed" ELSE "closed"
  BY <1>1 DEF Fetch, CloseResponse, TypeOK
<1>3. \A t \in Renderers : renderer'[t].at = "fetch" => renderer'[t] = renderer[t]
  BY RendererFields DEF Renderer
<1> SUFFICES ASSUME NEW w \in Workers, NEW c \in Cells PROVE Knows(w, c)'
  BY DEF PictureInv
<1>4. Knows(w, c)
  BY DEF PictureInv
<1>5. CASE ~Busy(w)
  BY <1>1, <1>5 DEF Knows, Ahead, Behind, Busy
<1>6. CASE Busy(w)
  <2> DEFINE p == <<worker[w].job, c>>
  <2>1. p \in Requests
    BY <1>6 DEF TypeOK, Busy, Requests
  <2> HIDE DEF q
  <2>2. CASE p # q
    BY <1>1, <1>2, <1>3, <1>4, <2>1, <2>2 DEF Knows, Ahead, Behind
  <2>3. CASE p = q
    <3>1. worker[w].at = "request" /\ c >= worker[w].cell => FALSE
      BY <1>1, <1>4, <2>3 DEF Knows
    <3>2. CASE Fetch(r)
      BY <1>1, <1>2, <1>3, <1>4, <2>3, <3>1, <3>2 DEF Knows, Ahead, Behind, q
    <3>3. CASE CloseResponse(r)
      BY <1>1, <1>2, <1>3, <1>4, <2>3, <3>1, <3>3 DEF Knows, Ahead, Behind
    <3>4. QED
      BY <3>2, <3>3
  <2>4. QED
    BY <2>2, <2>3
<1>7. QED
  BY <1>5, <1>6

LEMMA PictureStep == TypeOK /\ PlaceInv /\ ServiceInv /\ PictureInv /\ [Next]_vars => PictureInv'
<1> SUFFICES ASSUME TypeOK, PlaceInv, ServiceInv, PictureInv, [Next]_vars PROVE PictureInv'
  OBVIOUS
<1>1. CASE UNCHANGED <<service, response, renderer, fetched, worker>>
  BY <1>1, PictureFrame
<1>2. CASE Main \/ Collector
  BY <1>1, <1>2 DEF Main, SendJob, CloseJobs, CloseResults, CloseService, Close, ReadErrors, Collector,
                    TakeResult, CollectorReturns
<1>3. ASSUME NEW w \in Workers, Worker(w) PROVE PictureInv'
  BY <1>3, PictureTakeJob, PictureRequest, PictureCollect, PictureMove DEF Worker
<1>4. ASSUME NEW r \in Renderers, Renderer(r) PROVE PictureInv'
  <2>1. CASE TakeRequest(r)
    <3>1. Head(service) \in Elems(service) /\ Elems(service') \subseteq Elems(service)
      BY <2>1, TakeHead DEF TakeRequest, TypeOK, ServiceInv
    <3>2. /\ UNCHANGED <<response, fetched, worker>> /\ renderer'[r].req = Head(service)
          /\ \A t \in Renderers \ {r} : renderer'[t] = renderer[t]
      BY <1>4, <2>1, RendererFields DEF TakeRequest, othersVars
    <3>3. QED
      BY <3>1, <3>2, PictureFrame
  <2>2. CASE RendererReturns(r)
    <3>1. /\ UNCHANGED <<service, response, fetched, worker>> /\ renderer'[r].at = "done"
          /\ \A t \in Renderers \ {r} : renderer'[t] = renderer[t]
      BY <1>4, <2>2, RendererFields DEF RendererReturns, othersVars
    <3>2. QED
      BY <3>1, PictureFrame
  <2>3. QED
    BY <1>4, <2>1, <2>2, PictureAnswer DEF Renderer
<1>5. CASE Ended \/ UNCHANGED vars
  BY <1>1, <1>5 DEF Ended, vars
<1>6. QED
  BY <1>2, <1>3, <1>4, <1>5 DEF Next

-----------------------------------------------------------------------------
LEMMA IInvAlways == Spec => []IInv
<1>1. Init => IInv
  <2> SUFFICES ASSUME Init PROVE IInv
    OBVIOUS
  <2>1. TypeOK
    BY PoolAssumption DEF Init, TypeOK, IdleWorker, IdleRenderer
  <2>2. \A w \in Workers : worker[w].at = "idle"
    BY DEF Init, IdleWorker
  <2>3. \A r \in Renderers : renderer[r].at = "idle"
    BY DEF Init, IdleRenderer
  <2>4. /\ Elems(jobs) = {} /\ Elems(results) = {} /\ Elems(service) = {}
        /\ Once(jobs) /\ Once(results) /\ Once(service)
    BY NothingHeld DEF Init
  <2>5. Taken = {}
    BY DEF Init, Taken
  <2>6. PlaceInv
    BY <2>2, <2>4, <2>5 DEF Init, PlaceInv, Busy
  <2>7. MainInv
    BY <2>2 DEF Init, MainInv
  <2>8. CountInv
    <3>1. Counted = {}
      BY DEF Init, Counted
    <3>2. QED
      BY <3>1, FS_EmptySet DEF Init, CountInv
  <2>9. ServiceInv
    BY <2>3, <2>4 DEF Init, ServiceInv, Serving, Requests
  <2>10. PictureInv
    BY <2>2 DEF PictureInv, Knows, Ahead, Behind
  <2>11. QED
    BY <2>1, <2>6, <2>7, <2>8, <2>9, <2>10 DEF IInv
<1>2. TypeOK /\ IInv /\ [Next]_vars /\ TypeOK' => IInv'
  BY PlaceStep, MainStep, CountStep, ServiceStep, PictureStep DEF IInv
<1>3. IInv => TypeOK
  BY DEF IInv
<1>4. QED
  BY <1>1, <1>2, <1>3, TypeCorrect, PTL DEF Spec

\* Nobody sends on a closed channel or closes a response channel twice, however many
\* workers, renderers, frames and cells there are: the order in which main closes jobs,
\* results and render3DService and waits for their users is sufficient.
THEOREM NoPanicAlways == Spec => []NoPanic
<1>1. IInv => NoPanic
  <2> SUFFICES ASSUME IInv PROVE NoPanic
    OBVIOUS
  <2>1. ASSUME NEW w \in Workers, worker[w].at # "done"
        PROVE  closed \cap {"results", "service"} = {}
    BY <2>1 DEF IInv, MainInv, WorkersDone
  <2>2. ASSUME NEW w \in Workers, worker[w].at = "request", NEW c \in worker[w].cell..NumCells
        PROVE  response[<<worker[w].job, c>>] = "unmade"
    <3>1. c \in Cells /\ c >= worker[w].cell
      BY <2>2, PoolAssumption DEF IInv, TypeOK, Cells
    <3>2. QED
      BY <2>2, <3>1 DEF IInv, PictureInv, Knows
  <2>3. ASSUME NEW r \in Renderers, renderer[r].at \in {"fetch", "close"}
        PROVE  response[renderer[r].req] \notin {"fullClosed", "closed"}
    BY <2>3 DEF IInv, ServiceInv
  <2>4. QED
    BY <2>1, <2>2, <2>3 DEF NoPanic
<1>2. QED
  BY <1>1, IInvAlways, PTL

\* The worker that has saved a frame drew it with exactly the pictures the service fetched
\* for it: no answer arrives after its worker has stopped waiting for it.
THEOREM PicturesCompleteAlways == Spec => []PicturesComplete
<1>1. IInv => PicturesComplete
  BY DEF IInv, TypeOK, PictureInv, Knows, Behind, PicturesComplete
<1>2. QED
  BY <1>1, IInvAlways, PTL

-----------------------------------------------------------------------------
\* When main reads renderErrors every frame is rendered, and every failure counted.
LEMMA AllRendered ==
  ASSUME IInv, mpc = "renderers"
  PROVE  (\A j \in Jobs : outcome[j] # "pending") /\ errors = Cardinality(Promise!Failed)
<1>1. sent = NumJobs /\ WorkersDone /\ results = <<>>
  BY DEF IInv, MainInv
<1>2. \A w \in Workers : worker[w].at = "done"
  BY <1>1 DEF WorkersDone
<1>3. jobs = <<>>
  BY <1>2, PoolAssumption DEF IInv, MainInv
<1>4. Taken = Jobs /\ Elems(results) = {}
  BY <1>1, <1>3, NothingHeld DEF Taken, Jobs
<1>5. \A j \in Jobs : outcome[j] # "pending"
  BY <1>2, <1>4 DEF IInv, PlaceInv
<1>6. Counted = Promise!Failed
  BY <1>2, <1>4 DEF Counted, Promise!Failed
<1>7. QED
  BY <1>5, <1>6 DEF IInv, CountInv

\* The pool implements the safety part of RenderAll: a frame is rendered once, by the
\* worker that took its job, and main makes the video only when every frame is rendered,
\* with the exact number of those that failed.
THEOREM Refinement == Spec => Promise!AbsInit /\ [][Promise!AbsNext]_(Promise!absVars)
<1>1. Init => Promise!AbsInit
  BY DEF Init, Promise!AbsInit
<1>2. IInv /\ [Next]_vars => [Promise!AbsNext]_(Promise!absVars)
  <2> SUFFICES ASSUME IInv, [Next]_vars PROVE [Promise!AbsNext]_(Promise!absVars)
    OBVIOUS
  <2>1. CASE /\ UNCHANGED <<outcome, reported>> /\ (mpc' = "video") = (mpc = "video")
    BY <2>1 DEF Promise!absVars
  <2>2. CASE SendJob \/ CloseJobs \/ CloseResults \/ CloseService
    BY <2>1, <2>2 DEF SendJob, CloseJobs, CloseResults, CloseService, Close
  <2>3. CASE ReadErrors
    <3>1. mpc = "renderers" /\ mpc' = "video" /\ reported' = errors /\ UNCHANGED outcome
      BY <2>3 DEF ReadErrors
    <3>2. ~(mpc = "video") /\ (mpc' = "video") = TRUE
      BY <3>1
    <3>3. (\A j \in Jobs : outcome[j] # "pending") /\ reported' = Promise!Cardinality(Promise!Failed)
      BY <3>1, AllRendered DEF Cardinality, Promise!Cardinality, IsFiniteSet, Promise!IsFiniteSet
    <3>4. Promise!MakeVideo
      BY <3>1, <3>2, <3>3, Zenon DEF Promise!MakeVideo
    <3>5. QED
      BY <3>4 DEF Promise!AbsNext
  <2>4. CASE Collector
    BY <2>1, <2>4 DEF Collector, TakeResult, CollectorReturns
  <2>5. ASSUME NEW w \in Workers, Worker(w) PROVE [Promise!AbsNext]_(Promise!absVars)
    <3>1. CASE SaveFrame(w)
      <4>1. worker[w].job \in Jobs /\ outcome[worker[w].job] = "pending" /\ mpc # "video"
        BY <3>1 DEF SaveFrame, IInv, TypeOK, PlaceInv, MainInv, WorkersDone
      <4>2. Promise!Render(worker[w].job)
        BY <3>1, <4>1 DEF SaveFrame, Promise!Render
      <4>3. QED
        BY <4>1, <4>2 DEF Promise!AbsNext
    <3>2. CASE TakeJob(w) \/ WorkerReturns(w) \/ Request(w) \/ StartCollecting(w)
               \/ CollectResponse(w) \/ SendResult(w)
      BY <2>1, <3>2 DEF TakeJob, WorkerReturns, Request, StartCollecting, CollectResponse, SendResult
    <3>3. QED
      BY <2>5, <3>1, <3>2 DEF Worker
  <2>6. ASSUME NEW r \in Renderers, Renderer(r) PROVE [Promise!AbsNext]_(Promise!absVars)
    BY <2>1, <2>6 DEF Renderer, TakeRequest, RendererReturns, Fetch, CloseResponse, othersVars
  <2>7. CASE Ended \/ UNCHANGED vars
    BY <2>1, <2>7 DEF Ended, vars
  <2>8. QED
    BY <2>2, <2>3, <2>4, <2>5, <2>6, <2>7 DEF Next, Main
<1>3. QED
  BY <1>1, <1>2, IInvAlways, PTL DEF Spec
=============================================================================
