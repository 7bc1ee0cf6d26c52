-------------------------- MODULE RuntimeLifecycle --------------------------
(***************************************************************************)
(* What one discovery runtime promises to the controller that started it:  *)
(* the life of its two goroutines and of the context they share, and       *)
(* nothing of what they exchange. DiscoveryPipeline implements it,         *)
(* TargetSourceController relies on it.                                    *)
(***************************************************************************)
VARIABLES
  ctxDone,     \* the context is cancelled
  processor,   \* "running" or "ended"
  loader       \* "new", "running" or "ended"

vars == <<ctxDone, processor, loader>>

Init == ctxDone = FALSE /\ processor = "running" /\ loader = "new"

\* The processor may give up at any time; cancelled, it has to.
ProcessorEnds ==
  /\ processor = "running"
  /\ processor' = "ended"
  /\ UNCHANGED <<ctxDone, loader>>

LoaderStarts ==
  /\ loader = "new"
  /\ loader' = "running"
  /\ UNCHANGED <<ctxDone, processor>>

\* A loader fails before it starts; once it runs only the context ends it.
LoaderEnds ==
  /\ loader = "new" \/ (loader = "running" /\ ctxDone)
  /\ loader' = "ended"
  /\ UNCHANGED <<ctxDone, processor>>

\* The controller stops the runtime, or the processor has ended.
Cancelled ==
  /\ ~ctxDone
  /\ ctxDone' = TRUE
  /\ UNCHANGED <<processor, loader>>

Next == ProcessorEnds \/ LoaderStarts \/ LoaderEnds \/ Cancelled

Spec == Init /\ [][Next]_vars

\* A cancelled runtime ends, and a processor that ended cancels it.
Fairness ==
  /\ WF_vars(ctxDone /\ ProcessorEnds)
  /\ WF_vars(LoaderStarts \/ LoaderEnds)
  /\ WF_vars(processor = "ended" /\ Cancelled)

FairSpec == Spec /\ Fairness
=============================================================================
