----------------------------- MODULE RenderAll -----------------------------
(***************************************************************************)
(* What the concurrent half of dataset-mp4 promises: every frame of the    *)
(* video is rendered or fails, once, the number of those that failed is    *)
(* known when the video is made, and the video is made after the last of   *)
(* them.                                                                   *)
(***************************************************************************)
EXTENDS Naturals, FiniteSets

CONSTANT Jobs   \* the frames of the video

VARIABLES
  outcome,      \* for each frame: pending, ok (its file is written) or failed
  made,         \* the video is made
  reported      \* the number of render errors main reports then

absVars == <<outcome, made, reported>>

AbsInit == outcome = [j \in Jobs |-> "pending"] /\ made = FALSE /\ reported = 0

\* One frame is rendered or fails.
Render(j) ==
  /\ outcome[j] = "pending" /\ ~made
  /\ \E o \in {"ok", "failed"} : outcome' = [outcome EXCEPT ![j] = o]
  /\ UNCHANGED <<made, reported>>

Failed == {j \in Jobs : outcome[j] = "failed"}

\* Main goes on to the video.
MakeVideo ==
  /\ ~made /\ \A j \in Jobs : outcome[j] # "pending"
  /\ made' = TRUE /\ reported' = Cardinality(Failed)
  /\ UNCHANGED outcome

AbsNext == (\E j \in Jobs : Render(j)) \/ MakeVideo

AbsSpec == AbsInit /\ [][AbsNext]_absVars /\ WF_absVars(AbsNext)
=============================================================================
