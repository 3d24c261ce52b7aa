----------------------------- MODULE RenderPool -----------------------------
(***************************************************************************)
(* The concurrent half of software/station/bin/dataset-mp4/dataset-mp4.go: *)
(* main sends the jobs of GridJobs to a pool of workers; a worker asks the *)
(* 3D render service for the pictures of its job's cells, waits for them,  *)
(* draws and saves the frame and sends the result to the collector; main   *)
(* closes the channels one after the other and waits for each group of     *)
(* goroutines.  Channels are bounded sequences; a send on a closed channel *)
(* panics, so the sending actions do not look whether it is closed and     *)
(* NoPanic says that it never is.                                          *)
(***************************************************************************)
EXTENDS Naturals, Sequences, FiniteSets

CONSTANTS
  NumJobs,      \* frames of the video
  NumCells,     \* gridCols * gridRows
  Workers,      \* numWorkers goroutines
  Renderers,    \* the goroutines of the 3D render service
  Room,         \* capacity of jobs and of results, 2 * numWorkers in the code
  ServiceRoom   \* capacity of render3DService, 2 * totalWorkers in the code

ASSUME PoolAssumption ==
  /\ NumJobs \in Nat /\ NumCells \in Nat \ {0}
  /\ IsFiniteSet(Workers) /\ IsFiniteSet(Renderers) /\ Workers # {} /\ Renderers # {}
  /\ Room \in Nat \ {0} /\ ServiceRoom \in Nat \ {0}

Jobs == 1..NumJobs
Cells == 1..NumCells
Requests == Jobs \X Cells

VARIABLES
  wants,     \* the cells of a job with eight joints and two images
  mpc,       \* main: sends, or waits for workers, collector, renderers; video
  sent,      \* jobs sent
  jobs, results, service,   \* the channels
  closed,    \* the channels that are closed
  worker,    \* for each worker: where it is, its job, the cell it is at, its pictures
  response,  \* the response channel of each request: unmade, open, full, fullClosed, closed
  renderer,  \* for each renderer: where it is and its request
  collector, \* run or done
  errors,    \* renderErrors
  outcome,   \* of each frame: pending, ok, failed
  reported,  \* renderErrors as main reads it
  fetched    \* history: the requests whose picture was fetched

vars == <<wants, mpc, sent, jobs, results, service, closed, worker, response, renderer,
          collector, errors, outcome, reported, fetched>>

IdleRenderer == [at |-> "idle", req |-> <<0, 0>>]
IdleWorker == [at |-> "idle", job |-> 0, cell |-> 0, pics |-> {}]

Init ==
  /\ wants \in [Jobs -> SUBSET Cells]
  /\ mpc = "send" /\ sent = 0
  /\ jobs = <<>> /\ results = <<>> /\ service = <<>> /\ closed = {}
  /\ worker = [w \in Workers |-> IdleWorker]
  /\ response = [q \in Requests |-> "unmade"]
  /\ renderer = [r \in Renderers |-> IdleRenderer]
  /\ collector = "run" /\ errors = 0
  /\ outcome = [j \in Jobs |-> "pending"] /\ reported = 0 /\ fetched = {}

-----------------------------------------------------------------------------
\* main.
SendJob ==
  /\ mpc = "send" /\ sent < NumJobs /\ Len(jobs) < Room
  /\ jobs' = Append(jobs, sent + 1) /\ sent' = sent + 1
  /\ UNCHANGED <<wants, mpc, results, service, closed, worker, response, renderer, collector,
                 errors, outcome, reported, fetched>>

\* main closes a channel and goes on to wait.
Close(channel, from, to) ==
  /\ mpc = from
  /\ closed' = closed \cup {channel} /\ mpc' = to
  /\ UNCHANGED <<wants, sent, jobs, results, service, worker, response, renderer, collector,
                 errors, outcome, reported, fetched>>

WorkersDone == \A w \in Workers : worker[w].at = "done"
RenderersDone == \A r \in Renderers : renderer[r].at = "done"

CloseJobs == sent = NumJobs /\ Close("jobs", "send", "workers")
\* Mutant: the results are closed without waiting for the workers.
CloseResultsEarly == mpc = "workers" /\ Close("results", "workers", "collector")
CloseResults == WorkersDone /\ Close("results", "workers", "collector")
CloseService == collector = "done" /\ Close("service", "collector", "renderers")

\* renderErrors is read and the video is generated.
ReadErrors ==
  /\ mpc = "renderers" /\ RenderersDone
  /\ mpc' = "video" /\ reported' = errors
  /\ UNCHANGED <<wants, sent, jobs, results, service, closed, worker, response, renderer,
                 collector, errors, outcome, fetched>>

Main == SendJob \/ CloseJobs \/ CloseResults \/ CloseService \/ ReadErrors

-----------------------------------------------------------------------------
\* The worker w with its record changed to v.
Step(w, v) == worker' = [worker EXCEPT ![w] = v]

\* for job := range jobs.
TakeJob(w) ==
  /\ worker[w].at = "idle" /\ jobs # <<>>
  /\ Step(w, [at |-> "request", job |-> Head(jobs), cell |-> 1, pics |-> {}])
  /\ jobs' = Tail(jobs)
  /\ UNCHANGED <<wants, mpc, sent, results, service, closed, response, renderer, collector,
                 errors, outcome, reported, fetched>>

WorkerReturns(w) ==
  /\ worker[w].at = "idle" /\ jobs = <<>> /\ "jobs" \in closed
  /\ Step(w, [worker[w] EXCEPT !.at = "done"])
  /\ UNCHANGED <<wants, mpc, sent, jobs, results, service, closed, response, renderer,
                 collector, errors, outcome, reported, fetched>>

\* Request all 3D renders for this grid.
Request(w) ==
  LET j == worker[w].job  c == worker[w].cell
  IN /\ worker[w].at = "request" /\ c <= NumCells
     /\ Step(w, [worker[w] EXCEPT !.cell = c + 1])
     /\ IF c \in wants[j]
        THEN /\ Len(service) < ServiceRoom
             /\ service' = Append(service, <<j, c>>)
             /\ response' = [response EXCEPT ![<<j, c>>] = "open"]
        ELSE UNCHANGED <<service, response>>
     /\ UNCHANGED <<wants, mpc, sent, jobs, results, closed, renderer, collector, errors,
                    outcome, reported, fetched>>

StartCollecting(w) ==
  /\ worker[w].at = "request" /\ worker[w].cell = NumCells + 1
  /\ Step(w, [worker[w] EXCEPT !.at = "collect", !.cell = 1])
  /\ UNCHANGED <<wants, mpc, sent, jobs, results, service, closed, response, renderer,
                 collector, errors, outcome, reported, fetched>>

\* Mutant: an answer that is not there yet is not waited for.
CollectResponseNoWait(w) ==
  LET j == worker[w].job  c == worker[w].cell
      there == c \in wants[j] /\ response[<<j, c>>] \in {"full", "fullClosed"}
  IN /\ worker[w].at = "collect" /\ c <= NumCells
     /\ Step(w, [worker[w] EXCEPT !.cell = c + 1, !.pics = IF there THEN @ \cup {c} ELSE @])
     /\ UNCHANGED <<wants, mpc, sent, jobs, results, service, closed, response, renderer,
                    collector, errors, outcome, reported, fetched>>

\* Collect responses: a picture, or the closed channel of a fetch that failed.
CollectResponse(w) ==
  LET j == worker[w].job  c == worker[w].cell
  IN /\ worker[w].at = "collect" /\ c <= NumCells
     /\ \/ /\ c \notin wants[j]
           /\ Step(w, [worker[w] EXCEPT !.cell = c + 1]) /\ UNCHANGED response
        \/ /\ c \in wants[j] /\ response[<<j, c>>] \in {"full", "fullClosed"}
           /\ Step(w, [worker[w] EXCEPT !.cell = c + 1, !.pics = @ \cup {c}])
           /\ response' = [response EXCEPT ![<<j, c>>] = IF @ = "full" THEN "open" ELSE "closed"]
        \/ /\ c \in wants[j] /\ response[<<j, c>>] = "closed"
           /\ Step(w, [worker[w] EXCEPT !.cell = c + 1]) /\ UNCHANGED response
     /\ UNCHANGED <<wants, mpc, sent, jobs, results, service, closed, renderer, collector,
                    errors, outcome, reported, fetched>>

\* The frame is drawn and saved, or dc.SavePNG fails.
SaveFrame(w) ==
  /\ worker[w].at = "collect" /\ worker[w].cell = NumCells + 1
  /\ \E o \in {"ok", "failed"} : outcome' = [outcome EXCEPT ![worker[w].job] = o]
  /\ Step(w, [worker[w] EXCEPT !.at = "result"])
  /\ UNCHANGED <<wants, mpc, sent, jobs, results, service, closed, response, renderer,
                 collector, errors, reported, fetched>>

SendResult(w) ==
  /\ worker[w].at = "result" /\ Len(results) < Room
  /\ results' = Append(results, worker[w].job)
  /\ Step(w, IdleWorker)
  /\ UNCHANGED <<wants, mpc, sent, jobs, service, closed, response, renderer, collector,
                 errors, outcome, reported, fetched>>

Worker(w) == TakeJob(w) \/ WorkerReturns(w) \/ Request(w) \/ StartCollecting(w)
             \/ CollectResponse(w) \/ SaveFrame(w) \/ SendResult(w)

-----------------------------------------------------------------------------
\* What the goroutines of the 3D render service leave alone.
othersVars == <<wants, mpc, sent, jobs, results, closed, worker, collector, errors, outcome, reported>>

\* A goroutine of the 3D render service takes a request.
TakeRequest(r) ==
  /\ renderer[r].at = "idle" /\ service # <<>>
  /\ renderer' = [renderer EXCEPT ![r] = [at |-> "fetch", req |-> Head(service)]]
  /\ service' = Tail(service)
  /\ UNCHANGED <<othersVars, response, fetched>>

RendererReturns(r) ==
  /\ renderer[r].at = "idle" /\ service = <<>> /\ "service" \in closed
  /\ renderer' = [renderer EXCEPT ![r].at = "done"]
  /\ UNCHANGED <<othersVars, service, response, fetched>>

\* fetch3DRender: a picture goes into the response channel, an error does not.
Fetch(r) ==
  LET q == renderer[r].req
  IN /\ renderer[r].at = "fetch"
     /\ renderer' = [renderer EXCEPT ![r].at = "close"]
     /\ \/ /\ response[q] = "open" /\ response' = [response EXCEPT ![q] = "full"]
           /\ fetched' = fetched \cup {q}
        \/ UNCHANGED <<response, fetched>>
     /\ UNCHANGED <<othersVars, service>>

\* close(req.response).
CloseResponse(r) ==
  LET q == renderer[r].req
  IN /\ renderer[r].at = "close"
     /\ response' = [response EXCEPT ![q] = IF @ = "full" THEN "fullClosed" ELSE "closed"]
     /\ renderer' = [renderer EXCEPT ![r] = IdleRenderer]
     /\ UNCHANGED <<othersVars, service, fetched>>

Renderer(r) == TakeRequest(r) \/ RendererReturns(r) \/ Fetch(r) \/ CloseResponse(r)

-----------------------------------------------------------------------------
\* The result collector counts the errors.
TakeResult ==
  /\ collector = "run" /\ results # <<>>
  /\ results' = Tail(results)
  /\ errors' = IF outcome[Head(results)] = "failed" THEN errors + 1 ELSE errors
  /\ UNCHANGED <<wants, mpc, sent, jobs, service, closed, worker, response, renderer, collector,
                 outcome, reported, fetched>>

\* Mutant: the collector returns as soon as the channel is closed, with results in it.
CollectorReturnsEarly ==
  /\ collector = "run" /\ "results" \in closed
  /\ collector' = "done"
  /\ UNCHANGED <<wants, mpc, sent, jobs, results, service, closed, worker, response, renderer,
                 errors, outcome, reported, fetched>>

CollectorReturns ==
  /\ collector = "run" /\ results = <<>> /\ "results" \in closed
  /\ collector' = "done"
  /\ UNCHANGED <<wants, mpc, sent, jobs, results, service, closed, worker, response, renderer,
                 errors, outcome, reported, fetched>>

Collector == TakeResult \/ CollectorReturns

\* The process goes on to ffmpeg and ends.
Ended == mpc = "video" /\ UNCHANGED vars

Next == Main \/ Collector \/ (\E w \in Workers : Worker(w)) \/ (\E r \in Renderers : Renderer(r))
        \/ Ended

Spec == Init /\ [][Next]_vars

\* Every goroutine is scheduled, and a fetch ends: httpClient has a timeout.
FairSpec ==
  /\ Spec /\ WF_vars(Main) /\ WF_vars(Collector)
  /\ \A w \in Workers : WF_vars(Worker(w))
  /\ \A r \in Renderers : WF_vars(Renderer(r))

-----------------------------------------------------------------------------
\* Type invariant.
TypeOK ==
  /\ wants \in [Jobs -> SUBSET Cells] /\ mpc \in {"send", "workers", "collector", "renderers", "video"}
  /\ sent \in 0..NumJobs /\ jobs \in Seq(Jobs) /\ results \in Seq(Jobs) /\ service \in Seq(Requests)
  /\ closed \subseteq {"jobs", "results", "service"}
  /\ worker \in [Workers -> [at : {"idle", "request", "collect", "result", "done"},
                             job : 0..NumJobs, cell : 0..(NumCells + 1), pics : SUBSET Cells]]
  /\ \A w \in Workers : worker[w].at \in {"request", "collect", "result"}
                          => worker[w].job \in Jobs /\ worker[w].cell \in 1..(NumCells + 1)
  /\ response \in [Requests -> {"unmade", "open", "full", "fullClosed", "closed"}]
  /\ renderer \in [Renderers -> [at : {"idle", "fetch", "close", "done"}, req : Requests \cup {<<0, 0>>}]]
  /\ \A r \in Renderers : renderer[r].at \in {"fetch", "close"} => renderer[r].req \in Requests
  /\ collector \in {"run", "done"} /\ errors \in Nat /\ reported \in Nat
  /\ outcome \in [Jobs -> {"pending", "ok", "failed"}] /\ fetched \subseteq Requests

\* Nobody sends on a channel that is closed or closes a response channel twice, both of
\* which panic: main may close results and render3DService only when nobody is left to
\* send on them.
NoPanic ==
  /\ \A w \in Workers :
       /\ worker[w].at # "done" => closed \cap {"results", "service"} = {}
       /\ worker[w].at = "request" => \A c \in worker[w].cell..NumCells :
                                        response[<<worker[w].job, c>>] = "unmade"
  /\ \A r \in Renderers : renderer[r].at \in {"fetch", "close"} =>
                             response[renderer[r].req] \notin {"fullClosed", "closed"}

\* A frame is drawn with exactly the pictures that were fetched for its cells: the worker
\* waits for every answer and a failed fetch costs its own cell only.
PicturesComplete ==
  \A w \in Workers : worker[w].at = "result" =>
    worker[w].pics = {c \in Cells : <<worker[w].job, c>> \in fetched}

\* The pool implements RenderAll: each frame is rendered once, the number of errors main
\* reports is exact, and the video is made after the last frame.
Promise == INSTANCE RenderAll WITH made <- (mpc = "video")
Implements == Promise!AbsSpec
=============================================================================
