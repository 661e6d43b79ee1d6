---------------------------- MODULE RenderPromise ----------------------------
(***************************************************************************)
(* What the render queue promises to whoever requests, watches or cancels  *)
(* a render: the life of a row of render_jobs, without the workers.        *)
(* RenderQueue implements it, and OutputCard is composed with it instead   *)
(* of the whole queue.                                                     *)
(***************************************************************************)
EXTENDS Naturals, Sequences

CONSTANT MaxAttempts    \* RENDER_JOB_MAX_ATTEMPTS

ASSUME PromiseAssumption == MaxAttempts \in Nat \ {0}

VARIABLE renders        \* render_jobs in creation order

Ended == {"rendered", "failed", "cancelled"}
Waiting == {"pending", "queued"}
\* asked: cancellation_requested.  file: there is an export artifact.
Render == [status : Ended \cup Waiting \cup {"rendering"}, asked : BOOLEAN,
           attempts : 0 .. MaxAttempts, file : BOOLEAN]

RequestRender ==
    renders' = Append(renders,
                      [status |-> "queued", asked |-> FALSE, attempts |-> 0, file |-> FALSE])
\* Mutant: a rendering job that is asked to stop gets a status of its own.
MutantCancelRender(n) ==
    \/ /\ renders[n].status \in Waiting
       /\ renders' = [renders EXCEPT ![n].status = "cancelled"]
    \/ /\ renders[n].status = "rendering"
       /\ renders' = [renders EXCEPT ![n].status = "cancelling"]
\* A waiting render is cancelled at once, a rendering one asked to stop.
CancelRender(n) ==
    \/ /\ renders[n].status \in Waiting
       /\ renders' = [renders EXCEPT ![n].status = "cancelled"]
    \/ /\ renders[n].status = "rendering"
       /\ renders' = [renders EXCEPT ![n].asked = TRUE]
StartAttempt(n) ==
    /\ renders[n].status \in Waiting /\ ~renders[n].asked
    /\ renders[n].attempts < MaxAttempts
    /\ renders' = [renders EXCEPT ![n] =
          [status |-> "rendering", asked |-> FALSE, attempts |-> @.attempts + 1, file |-> @.file]]
StoreFile(n) ==
    /\ renders[n].status = "rendering"
    /\ renders' = [renders EXCEPT ![n].file = TRUE]
Outcomes(row) == {"failed"} \cup (IF row.file THEN {"rendered"} ELSE {})
                            \cup (IF row.asked THEN {"cancelled"} ELSE {})
EndRender(n) ==
    /\ renders[n].status = "rendering"
    /\ \E s \in Outcomes(renders[n]) : renders' = [renders EXCEPT ![n].status = s]
\* Attempts that failed or died, and may be repeated.
ReturnRenders(S) ==
    /\ \A n \in S : renders[n].status = "rendering" /\ renders[n].attempts < MaxAttempts
    /\ \E s \in Waiting :
          renders' = [n \in DOMAIN renders |->
                         IF n \in S THEN [renders[n] EXCEPT !.status = s] ELSE renders[n]]
\* Attempts that died, and were the last ones.
GiveUpRenders(S) ==
    /\ \A n \in S : renders[n].status = "rendering" /\ renders[n].attempts = MaxAttempts
    /\ renders' = [n \in DOMAIN renders |->
                      IF n \in S THEN [renders[n] EXCEPT !.status = "failed"] ELSE renders[n]]

Work(n) == StartAttempt(n) \/ StoreFile(n) \/ EndRender(n)
RenderNext ==
    \/ RequestRender
    \/ \E n \in DOMAIN renders : CancelRender(n) \/ Work(n)
    \/ \E S \in SUBSET DOMAIN renders : ReturnRenders(S) \/ GiveUpRenders(S)
RenderSpec == renders = << >> /\ [][RenderNext]_renders

RenderTypeOK == renders \in Seq(Render)

\* rendered, failed and cancelled are final, whoever asks or works on.
EndedStaysEnded ==
    [][\A n \in DOMAIN renders : renders[n].status \in Ended => renders'[n] = renders[n]]_renders

\* A rendered job has a file to download.
RenderedHasFile == \A n \in DOMAIN renders : renders[n].status = "rendered" => renders[n].file
=============================================================================
