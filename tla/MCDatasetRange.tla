--------------------------- MODULE MCDatasetRange ---------------------------
(***************************************************************************)
(* The dataset generator's way from two entries of inference-states to its *)
(* summary, for TLC: a behaviour either searches for the range             *)
(* (QueueBounds) or streams one (DatasetGenerator).  The search hands over *)
(* nothing but the range, and the stream starts from every range, inverted *)
(* ones too (see RangeNotInverted), so following the two parts one at a    *)
(* time leaves nothing out.                                                *)
(***************************************************************************)
EXTENDS Naturals, Sequences

CONSTANTS Target, SearchStep, MaxPointer, MaxEntries, ReadBatchSize, Capacity, MaxId

\* Both are 10000 in the code; a batch of no entries would not get anywhere.
ASSUME BatchAssumption == SearchStep \in Nat \ {0} /\ ReadBatchSize \in Nat \ {0}

VARIABLES
  part,                                                     \* search or stream
  latest, published, seen, log, args, fwd, bwd, result,     \* see QueueBounds
  good, bounds, spc, cursor, next, received, frames, failed, taken,  \* see FrameStream
  ppc, perr, stats, msg, ui, summary                        \* see DatasetGenerator

Search == INSTANCE QueueBounds
Stream == INSTANCE DatasetGenerator

searchVars == <<latest, published, seen, log, args, fwd, bwd, result>>
generatorVars == <<good, bounds, spc, cursor, next, received, frames, failed, taken,
                   ppc, perr, stats, msg, ui, summary>>
vars == <<part, searchVars, generatorVars>>

Init ==
  /\ part \in {"search", "stream"}
  /\ Search!Init /\ Stream!Init
  /\ part = "search" => DOMAIN good = {1} /\ good[1]

InSearch(A) == part = "search" /\ A /\ UNCHANGED <<part, generatorVars>>
InStream(A) == part = "stream" /\ A /\ UNCHANGED <<part, searchVars>>

Next == InSearch(Search!Next) \/ InStream(Stream!Next)

\* The fairness of QueueBounds and of DatasetGenerator.
FairSpec ==
  /\ Init /\ [][Next]_vars
  /\ WF_vars(InSearch(Search!Generator))
  /\ WF_vars(InStream(Stream!Streaming))
  /\ WF_vars(InStream(Stream!Processing))
  /\ WF_vars(InStream(Stream!Ui))

-----------------------------------------------------------------------------
\* The range is that of the entries asked for, and inverted only if the arguments are, see
\* QueueBounds.
RangeExact == Search!BoundsExact /\ Search!RangeNotInverted

\* The decodable frames of the range are delivered in order, once, and all of them unless
\* the stream fails, see FrameStream.
FramesExact == Stream!InOrderOnce /\ Stream!NothingMissing

\* The summary is exact, see DatasetGenerator.
SummaryExact == Stream!SummaryExact

\* The search ends, and so does the generator: nobody waits for ever on the channel, the
\* error channel or the UI.
AlwaysEnds == Search!FetchEnds /\ (part = "stream" ~> summary # "none")
=============================================================================
