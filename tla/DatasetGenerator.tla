-------------------------- MODULE DatasetGenerator --------------------------
(***************************************************************************)
(* The dataset generator as a whole                                        *)
(* (software/station/bin/dataset-generator/dataset-generator.go and        *)
(* internal/ui): runProcessing consumes the stream in one goroutine, the   *)
(* terminal UI runs in another and main prints its summary when the UI     *)
(* ends.  program.Send blocks until the UI's event loop takes the message  *)
(* and is a no-op once the UI has ended (external, bubbletea).  What an    *)
(* episode is, is modelled in EpisodeDetector; here a frame may complete   *)
(* one.                                                                    *)
(***************************************************************************)
EXTENDS FrameStream

VARIABLES
  ppc,        \* runProcessing: frames, finalize, report (DoneMsg), ended
  perr,       \* runProcessing returned an error
  stats,      \* the detector's statistics
  msg,        \* the message in program.Send, or "none"
  ui,         \* the UI's Model: running, done, err and its two counters
  summary     \* what main printed, "none" before

vars == <<streamVars, ppc, perr, stats, msg, ui, summary>>

Init ==
  /\ StreamInit
  /\ ppc = "frames" /\ perr = FALSE /\ stats = [saved |-> 0, discarded |-> 0]
  /\ msg = "none" /\ summary = "none"
  /\ ui = [running |-> TRUE, done |-> FALSE, err |-> FALSE, saved |-> 0, discarded |-> 0]

\* After the summary main returns and the process ends.
Alive == summary = "none"

-----------------------------------------------------------------------------
\* A frame or Finalize completes no episode, or one that is saved or discarded, and the
\* detector reports it.
Outcome(o) ==
  /\ msg = "none" /\ msg' = o
  /\ stats' = [stats EXCEPT !.saved = IF o = "saved" THEN @ + 1 ELSE @,
                            !.discarded = IF o = "discarded" THEN @ + 1 ELSE @]
Outcomes == {"none", "saved", "discarded"}

\* detector.ProcessFrame for the next frame.
Process ==
  /\ Alive /\ ppc = "frames" /\ Take
  /\ \E o \in Outcomes : Outcome(o)
  /\ UNCHANGED <<ppc, perr, ui, summary>>

\* Mutant: the error channel is not read.
FramesEndUnchecked ==
  /\ Alive /\ ppc = "frames" /\ msg = "none" /\ Closed
  /\ ppc' = "finalize" /\ perr' = FALSE
  /\ UNCHANGED <<streamVars, stats, msg, ui, summary>>

\* The channel is closed: <-errChan.
FramesEnd ==
  /\ Alive /\ ppc = "frames" /\ msg = "none" /\ Closed
  /\ ppc' = IF failed THEN "report" ELSE "finalize"
  /\ perr' = failed
  /\ UNCHANGED <<streamVars, stats, msg, ui, summary>>

\* detector.Finalize.
Finalize ==
  /\ Alive /\ ppc = "finalize"
  /\ \E o \in Outcomes : Outcome(o)
  /\ ppc' = "report"
  /\ UNCHANGED <<streamVars, perr, ui, summary>>

\* program.Send(DoneMsg).
Report ==
  /\ Alive /\ ppc = "report" /\ msg = "none"
  /\ msg' = "done" /\ ppc' = "ended"
  /\ UNCHANGED <<streamVars, perr, stats, ui, summary>>

Processing == Process \/ FramesEnd \/ Finalize \/ Report

-----------------------------------------------------------------------------

\* Model.Update takes the message; DoneMsg ends the UI.
Update ==
  /\ Alive /\ ui.running /\ msg # "none"
  /\ ui' = [ui EXCEPT !.saved = IF msg = "saved" THEN @ + 1 ELSE @,
                      !.discarded = IF msg = "discarded" THEN @ + 1 ELSE @,
                      !.done = (msg = "done"), !.err = (msg = "done" /\ perr),
                      !.running = (msg # "done")]
  /\ msg' = "none"
  /\ UNCHANGED <<streamVars, ppc, perr, stats, summary>>

\* The user presses q or ctrl+c.
Quit ==
  /\ Alive /\ ui.running
  /\ ui' = [ui EXCEPT !.running = FALSE]
  /\ UNCHANGED <<streamVars, ppc, perr, stats, msg, summary>>

\* A Send after the UI has ended returns at once.
SendIgnored ==
  /\ Alive /\ ~ui.running /\ msg # "none"
  /\ msg' = "none"
  /\ UNCHANGED <<streamVars, ppc, perr, stats, ui, summary>>

\* runner.Run returned: PrintSummary, then the process ends.
PrintSummary ==
  /\ Alive /\ ~ui.running
  /\ summary' = IF ui.err THEN "failed" ELSE "complete"
  /\ UNCHANGED <<streamVars, ppc, perr, stats, msg, ui>>

Streaming == Alive /\ Streamer /\ UNCHANGED <<ppc, perr, stats, msg, ui, summary>>
StreamFails == Alive /\ ReadError /\ UNCHANGED <<ppc, perr, stats, msg, ui, summary>>

Ui == Update \/ SendIgnored \/ PrintSummary
Next == Streaming \/ StreamFails \/ Processing \/ Ui \/ Quit

Spec == Init /\ [][Next]_vars

\* The goroutines and the UI's event loop are scheduled; nobody has to
\* press a key and no read has to fail.
FairSpec == Spec /\ WF_vars(Streaming) /\ WF_vars(Processing) /\ WF_vars(Ui)

-----------------------------------------------------------------------------

\* When the UI has seen the end of the processing, its summary is exact: the counters are
\* the detector's, a complete run has processed every frame of the range, and a run whose
\* stream failed is printed as failed.
SummaryExact ==
  summary # "none" /\ ui.done =>
    /\ ui.saved = stats.saved /\ ui.discarded = stats.discarded
    /\ summary = "complete" => ToSet(taken) = Wanted
    /\ failed <=> summary = "failed"

=============================================================================
