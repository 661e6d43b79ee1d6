---------------------------- MODULE MCRenderQueue ----------------------------
(* Instances of RenderQueue.                                                *)
EXTENDS RenderQueue

CONSTANTS t1, t2, c1    \* slots of ticks and of a synchronous request

\* A queue whose statements are atomic and answered, and one where they are neither.
PlainQueue == [queue |-> TRUE, overlap |-> FALSE, lossy |-> FALSE, limit |-> 2]
RoughQueue == [queue |-> TRUE, overlap |-> TRUE, lossy |-> TRUE, limit |-> 1]
\* Without the queue, cancellations overlapping other statements.
Synchronous == [queue |-> FALSE, overlap |-> TRUE, lossy |-> FALSE, limit |-> 2]

AllSettings == {PlainQueue, RoughQueue, Synchronous}
\* A queue whose statements are answered but overlap.
OverlapOnly == {[RoughQueue EXCEPT !.lossy = FALSE]}
=============================================================================
