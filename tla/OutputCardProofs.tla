--------------------------- MODULE OutputCardProofs ---------------------------
(***************************************************************************)
(* Proofs about the card of an output and about the promise of the render  *)
(* queue it is composed with.                                              *)
(***************************************************************************)
EXTENDS OutputCard, Integers, FiniteSetTheorems, WellFoundedInduction, TLAPS

(***************************************************************************)
(* What RenderPromise guarantees by itself.  RenderQueueProofs shows that  *)
(* the queue implements it, so this holds of the queue's rows as well.     *)
(***************************************************************************)
LEMMA RowOf ==
    ASSUME RenderTypeOK, NEW n \in DOMAIN renders
    PROVE  renders[n] \in Render
  BY DEF RenderTypeOK

LEMMA ReplacedRow ==
    ASSUME RenderTypeOK, NEW n \in DOMAIN renders, NEW row \in Render,
           renders' = [renders EXCEPT ![n] = row]
    PROVE  RenderTypeOK'
  BY DEF RenderTypeOK

LEMMA ReplacedRows ==
    ASSUME RenderTypeOK, NEW S \in SUBSET DOMAIN renders,
           NEW s \in Waiting \cup {"failed"},
           renders' = [n \in DOMAIN renders |->
                          IF n \in S THEN [renders[n] EXCEPT !.status = s] ELSE renders[n]]
    PROVE  RenderTypeOK'
<1>1. ASSUME NEW n \in DOMAIN renders
      PROVE  (IF n \in S THEN [renders[n] EXCEPT !.status = s] ELSE renders[n]) \in Render
  <2>1. renders[n] \in Render
    BY RowOf
  <2> QED
    BY <2>1 DEF Render, Ended
<1>2. DOMAIN renders = 1 .. Len(renders) /\ Len(renders) \in Nat
  BY DEF RenderTypeOK
<1> QED
  BY <1>1, <1>2 DEF RenderTypeOK

LEMMA TypePreserved == ASSUME RenderTypeOK, [RenderNext]_renders PROVE RenderTypeOK'
<1>1. CASE RequestRender
  <2>1. [status |-> "queued", asked |-> FALSE, attempts |-> 0, file |-> FALSE] \in Render
    BY PromiseAssumption DEF Render, Waiting
  <2> QED
    BY <1>1, <2>1 DEF RequestRender, RenderTypeOK
<1>2. ASSUME NEW n \in DOMAIN renders, CancelRender(n) \/ Work(n) PROVE RenderTypeOK'
  <2>1. renders[n] \in Render
    BY RowOf
  <2>2. CASE CancelRender(n)
    <3>1. PICK row \in {[renders[n] EXCEPT !.status = "cancelled"],
                        [renders[n] EXCEPT !.asked = TRUE]} :
             renders' = [renders EXCEPT ![n] = row]
      BY <2>2 DEF CancelRender
    <3>2. row \in Render
      BY <2>1, <3>1 DEF Render, Ended
    <3> QED
      BY <3>1, <3>2, ReplacedRow
  <2>3. CASE StartAttempt(n)
    <3> DEFINE row == [status |-> "rendering", asked |-> FALSE,
                       attempts |-> renders[n].attempts + 1, file |-> renders[n].file]
    <3>1. renders[n].attempts + 1 \in 0 .. MaxAttempts /\ renders[n].file \in BOOLEAN
      BY <2>1, <2>3, PromiseAssumption DEF Render, StartAttempt
    <3>2. row \in Render
      BY <3>1 DEF Render
    <3>3. renders' = [renders EXCEPT ![n] = row]
      BY <2>3 DEF StartAttempt
    <3> HIDE DEF row
    <3> QED
      BY <3>2, <3>3, ReplacedRow
  <2>4. CASE StoreFile(n) \/ EndRender(n)
    <3>1. PICK row \in {[renders[n] EXCEPT !.file = TRUE]}
                       \cup {[renders[n] EXCEPT !.status = s] : s \in Ended} :
             renders' = [renders EXCEPT ![n] = row]
      BY <2>4 DEF StoreFile, EndRender, Outcomes, Ended
    <3>2. row \in Render
      BY <2>1, <3>1 DEF Render
    <3> QED
      BY <3>1, <3>2, ReplacedRow
  <2> QED
    BY <1>2, <2>2, <2>3, <2>4 DEF Work
<1>3. ASSUME NEW S \in SUBSET DOMAIN renders, ReturnRenders(S) \/ GiveUpRenders(S)
      PROVE  RenderTypeOK'
  BY <1>3, ReplacedRows DEF ReturnRenders, GiveUpRenders
<1>4. CASE UNCHANGED renders
  BY <1>4 DEF RenderTypeOK
<1> QED
  BY <1>1, <1>2, <1>3, <1>4 DEF RenderNext

\* Every render has a status of the table and at most RENDER_JOB_MAX_ATTEMPTS attempts.
THEOREM RendersTyped == RenderSpec => []RenderTypeOK
<1>1. renders = << >> => RenderTypeOK
  BY DEF RenderTypeOK
<1> QED
  BY <1>1, TypePreserved, PTL DEF RenderSpec

\* A render that is rendered, failed or cancelled is never touched again.
THEOREM EndedIsFinal == RenderSpec => EndedStaysEnded
<1>1. ASSUME RenderTypeOK, [RenderNext]_renders, NEW n \in DOMAIN renders,
             renders[n].status \in Ended
      PROVE  renders'[n] = renders[n]
  <2>1. renders[n].status # "rendering" /\ renders[n].status \notin Waiting
    BY <1>1 DEF Ended, Waiting
  <2>2. CASE RequestRender
    BY <1>1, <2>2 DEF RequestRender, RenderTypeOK
  <2>3. ASSUME NEW k \in DOMAIN renders, CancelRender(k) \/ Work(k)
        PROVE  renders'[n] = renders[n]
    <3>1. k # n
      BY <2>1, <2>3 DEF CancelRender, Work, StartAttempt, StoreFile, EndRender
    <3>2. renders = [i \in DOMAIN renders |-> renders[i]]
      BY <1>1 DEF RenderTypeOK
    <3> QED
      BY <2>3, <3>1, <3>2 DEF CancelRender, Work, StartAttempt, StoreFile, EndRender
  <2>4. ASSUME NEW S \in SUBSET DOMAIN renders, ReturnRenders(S) \/ GiveUpRenders(S)
        PROVE  renders'[n] = renders[n]
    BY <2>1, <2>4 DEF ReturnRenders, GiveUpRenders
  <2> QED
    BY <1>1, <2>2, <2>3, <2>4 DEF RenderNext
<1>2. RenderTypeOK /\ [RenderNext]_renders =>
        [\A n \in DOMAIN renders : renders[n].status \in Ended => renders'[n] = renders[n]]_renders
  BY <1>1
<1> QED
  BY <1>2, RendersTyped, PTL DEF RenderSpec, EndedStaysEnded

\* A render that is reported as rendered has a file to download.
THEOREM RenderedIsDownloadable == RenderSpec => []RenderedHasFile
<1>1. renders = << >> => RenderedHasFile
  BY DEF RenderedHasFile
<1>2. ASSUME RenderTypeOK, RenderedHasFile, [RenderNext]_renders PROVE RenderedHasFile'
  <2> SUFFICES ASSUME NEW n \in DOMAIN renders', renders'[n].status = "rendered"
               PROVE  renders'[n].file
    BY DEF RenderedHasFile
  <2>1. CASE RequestRender
    BY <1>2, <2>1 DEF RequestRender, RenderTypeOK, RenderedHasFile
  <2>2. ASSUME NEW k \in DOMAIN renders, CancelRender(k) \/ Work(k)
        PROVE  renders'[n].file
    <3>1. renders[k] \in Render /\ DOMAIN renders' = DOMAIN renders
      BY <1>2, <2>2, RowOf
         DEF RenderTypeOK, CancelRender, Work, StartAttempt, StoreFile, EndRender
    <3>2. CASE n # k
      <4>1. renders'[n] = renders[n]
        BY <1>2, <2>2, <3>1, <3>2
           DEF RenderTypeOK, CancelRender, Work, StartAttempt, StoreFile, EndRender
      <4> QED
        BY <1>2, <3>1, <4>1 DEF RenderedHasFile
    <3>3. CASE n = k /\ EndRender(k)
      BY <1>2, <3>1, <3>3 DEF RenderTypeOK, EndRender, Outcomes, Render
    <3>4. CASE n = k /\ ~EndRender(k)
      <4>1. renders[k].status \in Waiting \cup {"rendering"}
        BY <2>2, <3>4 DEF CancelRender, Work, StartAttempt, StoreFile
      <4>2. renders'[k].status # "rendered"
        BY <1>2, <2>2, <3>1, <3>4, <4>1
           DEF RenderTypeOK, CancelRender, Work, StartAttempt, StoreFile, Render, Waiting
      <4> QED
        BY <3>4, <4>2
    <3> QED
      BY <3>2, <3>3, <3>4
  <2>3. ASSUME NEW S \in SUBSET DOMAIN renders, ReturnRenders(S) \/ GiveUpRenders(S)
        PROVE  renders'[n].file
    <3>1. n \in DOMAIN renders /\ renders[n] \in Render
      BY <1>2, <2>3, RowOf DEF ReturnRenders, GiveUpRenders
    <3>2. n \notin S
      BY <2>3, <3>1 DEF ReturnRenders, GiveUpRenders, Waiting, Render
    <3>3. renders'[n] = renders[n]
      BY <2>3, <3>1, <3>2 DEF ReturnRenders, GiveUpRenders
    <3> QED
      BY <1>2, <3>1, <3>3 DEF RenderedHasFile
  <2>4. CASE UNCHANGED renders
    BY <1>2, <2>4 DEF RenderedHasFile
  <2> QED
    BY <1>2, <2>1, <2>2, <2>3, <2>4 DEF RenderNext
<1> QED
  BY <1>1, <1>2, RendersTyped, PTL DEF RenderSpec

(***************************************************************************)
(* The card, for any number of clicks, calls under way and lost calls, and *)
(* whatever there was before the card was mounted.  The argument is about  *)
(* the effects of the component alone: whatever answers the API gives, one *)
(* render of the card keeps the poller right.                              *)
(***************************************************************************)
\* The component keeps its four pieces of state.
Shaped(c) == c = [job |-> c.job, render |-> c.render, links |-> c.links, latest |-> c.latest]
CardShape == Shaped(card)
PollInv == CardShape /\ UnfinishedIsPolled

\* Rendering new state keeps the poller right: a change of what the polling effect
\* depends on sets it up anew, and without one the render is as unfinished as it was.
LEMMA RerenderKeeps ==
    ASSUME PollInv, NEW new, NEW others, NEW poller, Rerender(new, others, poller),
           Shaped(new),
           \/ poller = polled
           \/ poller = IF Live(new.render) THEN polled ELSE 0
    PROVE  PollInv'
<1>1. card' = new
    BY DEF Rerender
<1>2. CardShape'
    BY <1>1 DEF CardShape, Shaped
<1>3. CASE PollKey(new) # PollKey(card)
    <2>1. polled' = IF Live(new.render) THEN new.render.id ELSE 0
        BY <1>3 DEF Rerender
    <2>2. Live(card.render)' <=> Live(new.render)
        BY <1>1 DEF Live
    <2>. QED BY <1>1, <1>2, <2>1, <2>2 DEF PollInv, UnfinishedIsPolled
<1>4. CASE PollKey(new) = PollKey(card)
    <2>1. new.render.id = card.render.id /\ new.render.status = card.render.status
        BY <1>4 DEF PollKey
    <2>2. polled' = poller
        BY <1>4 DEF Rerender
    <2>3. Live(new.render) <=> Live(card.render)
        BY <2>1 DEF Live
    <2>4. polled = IF Live(card.render) THEN card.render.id ELSE 0
        BY DEF PollInv, UnfinishedIsPolled
    <2>5. polled' = IF Live(new.render) THEN new.render.id ELSE 0
        BY <2>1, <2>2, <2>3, <2>4
    <2>6. Live(card.render)' <=> Live(new.render)
        BY <1>1 DEF Live
    <2>. QED BY <1>1, <1>2, <2>5, <2>6 DEF PollInv, UnfinishedIsPolled
<1>. QED BY <1>2, <1>3, <1>4 DEF PollInv

\* What an answer makes of the card still has its four pieces of state.
LEMMA ShapeKept ==
    ASSUME CardShape, NEW row, NEW n, NEW m
    PROVE  /\ Shaped([card EXCEPT !.job = row])
           /\ Shaped([card EXCEPT !.render = row])
           /\ Shaped([card EXCEPT !.render = row, !.links = n])
           /\ Shaped([card EXCEPT !.latest = n])
           /\ Shaped([card EXCEPT !.latest = n, !.render = row, !.links = m])
           /\ [card EXCEPT !.render = row].render = row
<1>. DEFINE j == card.job
            r == card.render
            l == card.links
            h == card.latest
<1>1. card = [job |-> j, render |-> r, links |-> l, latest |-> h]
    BY DEF CardShape, Shaped
<1>. HIDE DEF j, r, l, h
<1>2. [card EXCEPT !.job = row] = [job |-> row, render |-> r, links |-> l, latest |-> h]
    BY <1>1
<1>3. [card EXCEPT !.render = row] = [job |-> j, render |-> row, links |-> l, latest |-> h]
    BY <1>1
<1>4. [card EXCEPT !.render = row, !.links = n]
         = [job |-> j, render |-> row, links |-> n, latest |-> h]
    <2>. DEFINE d == [card EXCEPT !.render = row]
    <2>1. d = [job |-> j, render |-> row, links |-> l, latest |-> h]
        BY <1>3
    <2>. HIDE DEF d
    <2>2. [d EXCEPT !.links = n] = [job |-> j, render |-> row, links |-> n, latest |-> h]
        BY <2>1
    <2>. QED BY <2>2 DEF d
<1>5. [card EXCEPT !.latest = n] = [job |-> j, render |-> r, links |-> l, latest |-> n]
    BY <1>1
<1>6. [card EXCEPT !.latest = n, !.render = row, !.links = m]
         = [job |-> j, render |-> row, links |-> m, latest |-> n]
    <2>. DEFINE d == [card EXCEPT !.latest = n]
                e == [d EXCEPT !.render = row]
    <2>1. d = [job |-> j, render |-> r, links |-> l, latest |-> n]
        BY <1>5
    <2>. HIDE DEF d
    <2>2. e = [job |-> j, render |-> row, links |-> l, latest |-> n]
        BY <2>1
    <2>. HIDE DEF e
    <2>3. [e EXCEPT !.links = m] = [job |-> j, render |-> row, links |-> m, latest |-> n]
        BY <2>2
    <2>. QED BY <2>3 DEF e, d
<1>. QED BY <1>2, <1>3, <1>4, <1>5, <1>6 DEF Shaped

\* Every answer.
LEMMA ReceiveKeeps ==
    ASSUME PollInv, NEW c, Receive(c)
    PROVE  PollInv'
<1>1. CardShape
    BY DEF PollInv
<1>2. CASE ReceiveJob(c)
    BY <1>1, <1>2, ShapeKept, RerenderKeeps DEF ReceiveJob
<1>3. CASE ReceiveHistory(c)
    <2>1. CASE c.row = None
        BY <1>1, <1>3, <2>1, ShapeKept, RerenderKeeps DEF ReceiveHistory
    <2>2. CASE c.row # None
        <3>. DEFINE m == IF c.row.status = "rendered" THEN c.row.id ELSE 0
                    new == [card EXCEPT !.latest = c.row.id, !.render = c.row, !.links = m]
        <3>1. Shaped(new)
            BY <1>1, ShapeKept
        <3>2. Rerender(new, Rest(c), polled)
            BY <1>3, <2>2 DEF ReceiveHistory
        <3>. HIDE DEF new
        <3>. QED BY <3>1, <3>2, RerenderKeeps
    <2>. QED BY <2>1, <2>2
<1>4. CASE ReceivePoll(c)
    <2>. DEFINE new == [card EXCEPT !.render = c.row]
    <2>1. Shaped(new) /\ new.render = c.row
        BY <1>1, ShapeKept
    <2>2. PICK others : Rerender(new, others, IF Live(c.row) THEN polled ELSE 0)
        BY <1>4 DEF ReceivePoll
    <2>. HIDE DEF new
    <2>. QED BY <2>1, <2>2, RerenderKeeps
<1>5. CASE ReceiveExport(c)
    BY <1>1, <1>5, ShapeKept, RerenderKeeps DEF ReceiveExport
<1>6. CASE ReceiveCancel(c)
    BY <1>1, <1>6, ShapeKept, RerenderKeeps DEF ReceiveCancel
<1>. QED BY <1>2, <1>3, <1>4, <1>5, <1>6 DEF Receive

\* Every step; only answers change what the card shows or whom it polls.
LEMMA CardStep ==
    ASSUME PollInv, [CardNext]_vars
    PROVE  PollInv'
<1>1. CASE \E c \in Calls : Receive(c)
    BY <1>1, ReceiveKeeps
<1>2. CASE UNCHANGED <<card, polled>>
    BY <1>2 DEF PollInv, CardShape, Shaped, UnfinishedIsPolled, Live
<1>3. ASSUME NEW c \in Calls, Serve(c) \/ Lose(c)
      PROVE  UNCHANGED <<card, polled>>
    BY <1>3 DEF Serve, Lose
<1>4. ASSUME PollTick \/ Clicks PROVE UNCHANGED <<card, polled>>
    BY <1>4 DEF PollTick, Clicks, ClickSend, ClickDecision, ClickExport, ClickCancel, Click
<1>5. ASSUME OtherPerson \/ \E n \in DOMAIN renders : Worker(n) \/ Setback(n)
      PROVE  UNCHANGED <<card, polled>>
    BY <1>5 DEF OtherPerson, Worker, Setback, browser
<1>6. CASE UNCHANGED vars
    BY <1>2, <1>6 DEF vars, browser
<1>. QED BY <1>1, <1>2, <1>3, <1>4, <1>5, <1>6 DEF CardNext

\* The render that is shown is polled exactly while it is shown as unfinished, whatever
\* answers come, get lost or overtake each other: the dependencies of the polling effect
\* and the end of the poller agree.
THEOREM PollerIsRight == CardSpec => []UnfinishedIsPolled
<1>1. CardInit => PollInv
    BY DEF CardInit, NewCard, None, PollInv, CardShape, Shaped, UnfinishedIsPolled, Live
<1>2. PollInv => UnfinishedIsPolled
    BY DEF PollInv
<1>. QED BY <1>1, <1>2, CardStep, PTL DEF CardSpec

(***************************************************************************)
(* Types of the card, and whom its calls are about.  A call names a job or *)
(* a render that there is, and so does every answer, however late.         *)
(***************************************************************************)
\* A row that an answer brings, of the first n jobs or renders.
RowUpTo(n) == {row \in Row : row.id \in 0 .. n /\ (row.id = 0 => row.status = "none")}

AboutJob == {"approve", "reject", "export"}
AboutRender == {"poll", "cancel"}
BringsJob == {"jobs", "send", "approve", "reject"}

\* A call under way, while there are j jobs and n renders.
CallUpTo(j, n) ==
    {c \in [kind : Kinds, of : Nat, done : BOOLEAN, row : Row] :
       /\ c.kind \in AboutJob => c.of \in 1 .. j
       /\ c.kind \in AboutRender => c.of \in 1 .. n
       /\ c.row \in RowUpTo(IF c.kind \in BringsJob THEN j ELSE n)}
CardUpTo(j, n) == [job : RowUpTo(j), render : RowUpTo(n), links : 0 .. n, latest : 0 .. n]
BagOver(S, bag) == IsABag(bag) /\ BagToSet(bag) \subseteq S

ServerTyped ==
    /\ RenderTypeOK /\ jobs \in Seq(JobStatuses)
    /\ package \in [DOMAIN renders -> DOMAIN jobs]
TypedCard ==
    /\ ServerTyped
    /\ card \in CardUpTo(Len(jobs), Len(renders))
    /\ polled \in 0 .. Len(renders)
    /\ BagOver(CallUpTo(Len(jobs), Len(renders)), calls)
    /\ clicks \in Nat /\ lost \in Nat

(***************************************************************************)
(* Bags and ranges                                                         *)
(***************************************************************************)
LEMMA OneCall ==
    ASSUME NEW S, NEW c \in S
    PROVE  BagOver(S, SetToBag({c}))
BY DEF BagOver, IsABag, BagToSet, SetToBag

LEMMA NoCall ==
    ASSUME NEW S
    PROVE  BagOver(S, EmptyBag)
BY DEF BagOver, IsABag, BagToSet, EmptyBag, SetToBag

LEMMA MoreCalls ==
    ASSUME NEW S, NEW A, NEW B, BagOver(S, A), BagOver(S, B)
    PROVE  BagOver(S, A (+) B)
<1>1. DOMAIN (A (+) B) = DOMAIN A \cup DOMAIN B
    BY DEF (+)
<1>2. ASSUME NEW e \in DOMAIN A \cup DOMAIN B
      PROVE  (A (+) B)[e] \in {n \in Nat : n > 0}
    <2>1. e \in DOMAIN A => A[e] \in Nat /\ A[e] > 0
        BY DEF BagOver, IsABag
    <2>2. e \in DOMAIN B => B[e] \in Nat /\ B[e] > 0
        BY DEF BagOver, IsABag
    <2>3. (A (+) B)[e] = (IF e \in DOMAIN A THEN A[e] ELSE 0)
                         + (IF e \in DOMAIN B THEN B[e] ELSE 0)
        BY DEF (+)
    <2>. QED BY <1>2, <2>1, <2>2, <2>3
<1>3. A (+) B = [e \in DOMAIN (A (+) B) |-> (A (+) B)[e]]
    BY DEF (+)
<1>. QED BY <1>1, <1>2, <1>3 DEF BagOver, BagToSet, IsABag

LEMMA FewerCalls ==
    ASSUME NEW S, NEW A, NEW c, BagOver(S, A)
    PROVE  BagOver(S, A (-) SetToBag({c}))
<1>. DEFINE B == SetToBag({c})
            left == [e \in DOMAIN A |-> IF e \in DOMAIN B THEN A[e] - B[e] ELSE A[e]]
<1>1. A (-) B = [e \in {d \in DOMAIN left : left[d] > 0} |-> left[e]]
    BY DEF (-)
<1>2. ASSUME NEW e \in DOMAIN A PROVE left[e] \in Int
    <2>1. A[e] \in Nat
        BY DEF BagOver, IsABag
    <2>2. e \in DOMAIN B => B[e] = 1
        BY DEF SetToBag
    <2>. QED BY <2>1, <2>2
<1>3. DOMAIN left = DOMAIN A
    OBVIOUS
<1>. HIDE DEF left
<1>4. \A e \in {d \in DOMAIN left : left[d] > 0} : left[e] \in {n \in Nat : n > 0}
    BY <1>2, <1>3
<1>. QED BY <1>1, <1>3, <1>4 DEF BagOver, BagToSet, IsABag

LEMMA OtherCalls ==
    ASSUME NEW S, NEW A, NEW kind, BagOver(S, A)
    PROVE  BagOver(S, Without(A, kind))
BY DEF BagOver, BagToSet, IsABag, Without

\* What was in range stays in range when jobs and renders are added.
LEMMA Growing ==
    ASSUME NEW j \in Nat, NEW n \in Nat, NEW k \in Nat, NEW m \in Nat, j <= k, n <= m
    PROVE  /\ RowUpTo(n) \subseteq RowUpTo(m)
           /\ CardUpTo(j, n) \subseteq CardUpTo(k, m)
           /\ CallUpTo(j, n) \subseteq CallUpTo(k, m)
<1>1. \A x, y \in Nat : x <= y => RowUpTo(x) \subseteq RowUpTo(y)
    BY DEF RowUpTo
<1>2. RowUpTo(n) \subseteq RowUpTo(m) /\ RowUpTo(j) \subseteq RowUpTo(k)
    BY <1>1
<1>3. CardUpTo(j, n) \subseteq CardUpTo(k, m)
    BY <1>2 DEF CardUpTo
<1>4. CallUpTo(j, n) \subseteq CallUpTo(k, m)
    BY <1>2 DEF CallUpTo
<1>. QED BY <1>2, <1>3, <1>4

\* None is an answer that is always in range.
LEMMA NoRow ==
    ASSUME NEW n \in Nat
    PROVE  None \in RowUpTo(n)
BY DEF None, RowUpTo, Row

\* A new call of one of the kinds, about something that there is.
LEMMA NewCallTyped ==
    ASSUME NEW j \in Nat, NEW n \in Nat, NEW kind \in Kinds, NEW of \in Nat,
           kind \in AboutJob => of \in 1 .. j,
           kind \in AboutRender => of \in 1 .. n
    PROVE  BagOver(CallUpTo(j, n), NewCall(kind, of))
<1>. DEFINE c == [kind |-> kind, of |-> of, done |-> FALSE, row |-> None]
<1>1. None \in Row
    BY DEF None, Row
<1>2. None \in RowUpTo(IF kind \in BringsJob THEN j ELSE n)
    BY NoRow
<1>3. c \in CallUpTo(j, n)
    BY <1>1, <1>2 DEF CallUpTo
<1>. QED BY <1>3, OneCall DEF NewCall

(***************************************************************************)
(* The database                                                            *)
(***************************************************************************)
Grows == Len(jobs) <= Len(jobs') /\ Len(renders) <= Len(renders')

LEMMA Lengths ==
    ASSUME ServerTyped
    PROVE  /\ Len(jobs) \in Nat /\ DOMAIN jobs = 1 .. Len(jobs)
           /\ Len(renders) \in Nat /\ DOMAIN renders = 1 .. Len(renders)
           /\ Len(package) = Len(renders) /\ package \in Seq(1 .. Len(jobs))
<1>1. /\ Len(jobs) \in Nat /\ DOMAIN jobs = 1 .. Len(jobs)
      /\ Len(renders) \in Nat /\ DOMAIN renders = 1 .. Len(renders)
    BY DEF ServerTyped, RenderTypeOK
<1>2. package \in [1 .. Len(renders) -> 1 .. Len(jobs)]
    BY <1>1 DEF ServerTyped
<1>. QED BY <1>1, <1>2

LEMMA JobAdded ==
    ASSUME ServerTyped, NEW s \in JobStatuses, jobs' = Append(jobs, s),
           UNCHANGED <<package, renders>>
    PROVE  ServerTyped' /\ Grows /\ Len(jobs') = Len(jobs) + 1
<1>1. jobs' \in Seq(JobStatuses) /\ Len(jobs') = Len(jobs) + 1
    BY DEF ServerTyped
<1>2. DOMAIN jobs = 1 .. Len(jobs) /\ DOMAIN jobs' = 1 .. Len(jobs') /\ Len(jobs) \in Nat
    BY <1>1, Lengths
<1>3. DOMAIN jobs \subseteq DOMAIN jobs'
    BY <1>1, <1>2
<1>4. package' \in [DOMAIN renders' -> DOMAIN jobs']
    BY <1>3 DEF ServerTyped
<1>. QED BY <1>1, <1>2, <1>4, Lengths DEF ServerTyped, RenderTypeOK, Grows

LEMMA JobDecided ==
    ASSUME ServerTyped, NEW s \in JobStatuses, NEW j \in DOMAIN jobs,
           jobs' = [jobs EXCEPT ![j] = s], UNCHANGED <<package, renders>>
    PROVE  ServerTyped' /\ Grows /\ Len(jobs') = Len(jobs)
<1>1. jobs' \in Seq(JobStatuses) /\ Len(jobs') = Len(jobs) /\ DOMAIN jobs' = DOMAIN jobs
    BY DEF ServerTyped
<1>. QED BY <1>1, Lengths DEF ServerTyped, RenderTypeOK, Grows

LEMMA RenderAdded ==
    ASSUME ServerTyped, NEW j \in DOMAIN jobs, AddRender(j), UNCHANGED jobs
    PROVE  ServerTyped' /\ Grows /\ Len(renders') = Len(renders) + 1
<1>1. RenderTypeOK'
    BY TypePreserved DEF ServerTyped, AddRender, RenderNext
<1>2. Len(renders') = Len(renders) + 1
    BY DEF AddRender, RequestRender, ServerTyped, RenderTypeOK
<1>3. package' = Append(package, j) /\ package \in Seq(1 .. Len(jobs)) /\ j \in 1 .. Len(jobs)
    BY Lengths DEF AddRender
<1>4. /\ package' \in Seq(1 .. Len(jobs)) /\ Len(package') = Len(package) + 1
    BY <1>3
<1>5. DOMAIN package' = 1 .. Len(package') /\ DOMAIN renders' = 1 .. Len(renders')
    BY <1>1, <1>4 DEF RenderTypeOK
<1>6. package' \in [DOMAIN renders' -> 1 .. Len(jobs)]
    BY <1>2, <1>4, <1>5, Lengths
<1>. QED BY <1>1, <1>2, <1>6, Lengths DEF ServerTyped, Grows

LEMMA RendersMoved ==
    ASSUME ServerTyped, NEW n \in DOMAIN renders, UNCHANGED <<jobs, package>>,
           CancelRender(n) \/ Work(n) \/ ReturnRenders({n}) \/ GiveUpRenders({n})
    PROVE  ServerTyped' /\ Grows /\ Len(renders') = Len(renders)
<1>1. RenderTypeOK'
    <2>1. {n} \in SUBSET DOMAIN renders
        OBVIOUS
    <2>. QED BY <2>1, TypePreserved DEF ServerTyped, RenderNext
<1>2. DOMAIN renders' = DOMAIN renders
    BY DEF CancelRender, Work, StartAttempt, StoreFile, EndRender, ReturnRenders, GiveUpRenders
<1>3. Len(renders') = Len(renders)
    BY <1>1, <1>2, Lengths DEF RenderTypeOK
<1>. QED BY <1>1, <1>2, <1>3, Lengths DEF ServerTyped, Grows

\* The newest of some renders is one of them.
LEMMA NewestIsOne ==
    ASSUME NEW n \in Nat, NEW S \in SUBSET (1 .. n), S # {}
    PROVE  Newest(S) \in S
<1>. DEFINE order == StrictSubsetOrdering(1 .. n)
            above == {x .. n : x \in S}
<1>1. IsFiniteSet(1 .. n)
    BY FS_Interval
<1>2. IsWellFoundedOn(order, FiniteSubsetsOf(1 .. n))
    BY <1>1, FS_StrictSubsetOrderingWellFounded
<1>3. \A x \in S : x .. n \in FiniteSubsetsOf(1 .. n)
    <2>. TAKE x \in S
    <2>1. x .. n \in SUBSET (1 .. n)
        OBVIOUS
    <2>. QED BY <1>1, <2>1, FS_Subset DEF FiniteSubsetsOf
<1>4. above \subseteq FiniteSubsetsOf(1 .. n) /\ above # {}
    BY <1>3
<1>5. PICK least \in above : \A other \in above : ~(<<other, least>> \in order)
    <2>. HIDE DEF above, order
    <2>. QED BY <1>2, <1>4, WFMin
<1>6. PICK x \in S : least = x .. n
    BY <1>5
<1>7. ASSUME NEW y \in S PROVE y <= x
    <2>. SUFFICES ASSUME x < y PROVE FALSE
        OBVIOUS
    <2>1. y .. n \in above /\ y .. n \in SUBSET (1 .. n) /\ x .. n \in SUBSET (1 .. n)
        OBVIOUS
    <2>2. x \in x .. n /\ x \notin y .. n
        OBVIOUS
    <2>3. y .. n \subseteq x .. n /\ y .. n # x .. n
        BY <2>2
    <2>4. <<y .. n, x .. n>> \in order
        BY <2>1, <2>3 DEF StrictSubsetOrdering
    <2>. QED BY <1>5, <1>6, <2>1, <2>4
<1>. QED BY <1>7 DEF Newest

\* Rows of jobs and renders that there are.
LEMMA Rows ==
    ASSUME ServerTyped
    PROVE  /\ \A j \in DOMAIN jobs : JobRow(j) \in RowUpTo(Len(jobs))
           /\ \A n \in DOMAIN renders : RenderRow(n) \in RowUpTo(Len(renders))
<1>1. ASSUME NEW j \in DOMAIN jobs PROVE JobRow(j) \in RowUpTo(Len(jobs))
    <2>1. jobs[j] \in JobStatuses /\ j \in 1 .. Len(jobs) /\ Len(jobs) \in Nat
        BY Lengths DEF ServerTyped
    <2>. QED BY <2>1 DEF JobRow, RowUpTo, Row
<1>2. ASSUME NEW n \in DOMAIN renders PROVE RenderRow(n) \in RowUpTo(Len(renders))
    <2>1. /\ renders[n].status \in Ended \cup Waiting \cup {"rendering"}
          /\ renders[n].asked \in BOOLEAN
        BY RowOf DEF ServerTyped, Render
    <2>2. n \in 1 .. Len(renders) /\ Len(renders) \in Nat
        BY Lengths
    <2>. QED BY <2>1, <2>2 DEF RenderRow, RowUpTo, Row
<1>. QED BY <1>1, <1>2

(***************************************************************************)
(* The actions                                                             *)
(***************************************************************************)
\* Everything that was in range before a step is so after it.
LEMMA StillTyped ==
    ASSUME TypedCard, ServerTyped', Grows
    PROVE  /\ card \in CardUpTo(Len(jobs'), Len(renders'))
           /\ polled \in 0 .. Len(renders')
           /\ BagOver(CallUpTo(Len(jobs'), Len(renders')), calls)
<1>1. /\ Len(jobs) \in Nat /\ Len(renders) \in Nat
      /\ Len(jobs') \in Nat /\ Len(renders') \in Nat
    BY Lengths DEF TypedCard, ServerTyped, RenderTypeOK
<1>2. /\ CardUpTo(Len(jobs), Len(renders)) \subseteq CardUpTo(Len(jobs'), Len(renders'))
      /\ CallUpTo(Len(jobs), Len(renders)) \subseteq CallUpTo(Len(jobs'), Len(renders'))
    BY <1>1, Growing DEF Grows
<1>. QED BY <1>1, <1>2 DEF TypedCard, BagOver, Grows

\* A step of the server, or of somebody who calls it.
LEMMA CallsOnly ==
    ASSUME TypedCard, ServerTyped', Grows, UNCHANGED <<card, polled>>,
           clicks' \in Nat, lost' \in Nat,
           BagOver(CallUpTo(Len(jobs'), Len(renders')), calls')
    PROVE  TypedCard'
BY StillTyped DEF TypedCard

\* A call that is answered, or is not.
LEMMA Replied ==
    ASSUME TypedCard, ServerTyped', Grows, NEW c \in Calls, NEW row,
           \/ /\ Reply(c, row)
              /\ row \in RowUpTo(IF c.kind \in BringsJob THEN Len(jobs') ELSE Len(renders'))
           \/ Refuse(c)
    PROVE  BagOver(CallUpTo(Len(jobs'), Len(renders')), calls')
<1>. DEFINE S == CallUpTo(Len(jobs'), Len(renders'))
            d == [c EXCEPT !.done = TRUE, !.row = row]
<1>1. BagOver(S, calls) /\ c \in S
    BY StillTyped DEF BagOver, Calls
<1>2. BagOver(S, calls (-) SetToBag({c}))
    BY <1>1, FewerCalls
<1>3. CASE Refuse(c)
    BY <1>2, <1>3 DEF Refuse
<1>4. CASE Reply(c, row) /\ row \in RowUpTo(IF c.kind \in BringsJob THEN Len(jobs')
                                                                 ELSE Len(renders'))
    <2>1. d \in S
        BY <1>1, <1>4 DEF CallUpTo, RowUpTo
    <2>2. BagOver(S, SetToBag({d}))
        BY <2>1, OneCall
    <2>3. calls' = (calls (-) SetToBag({c})) (+) SetToBag({d})
        BY <1>4 DEF Reply
    <2>. HIDE DEF S, d
    <2>4. BagOver(S, calls')
        BY <1>2, <2>2, <2>3, MoreCalls
    <2>. QED BY <2>4 DEF S
<1>. QED BY <1>3, <1>4

\* Nothing happens in the database.
LEMMA ServerRests ==
    ASSUME ServerTyped, UNCHANGED server
    PROVE  ServerTyped' /\ Grows /\ Len(jobs') = Len(jobs) /\ Len(renders') = Len(renders)
BY Lengths DEF server, ServerTyped, RenderTypeOK, Grows

LEMMA ServeStep ==
    ASSUME TypedCard, NEW c \in Calls, Serve(c)
    PROVE  TypedCard'
<1>. DEFINE S == CallUpTo(Len(jobs'), Len(renders'))
<1>1. c \in CallUpTo(Len(jobs), Len(renders)) /\ ServerTyped
    BY DEF TypedCard, BagOver, Calls
<1>2. /\ UNCHANGED <<card, polled, clicks, lost>>
      /\ clicks' \in Nat /\ lost' \in Nat
    BY DEF Serve, TypedCard
<1>3. SUFFICES ServerTyped' /\ Grows /\ BagOver(S, calls')
    BY <1>2, CallsOnly
<1>4. /\ Len(jobs) \in Nat /\ DOMAIN jobs = 1 .. Len(jobs)
      /\ Len(renders) \in Nat /\ DOMAIN renders = 1 .. Len(renders)
    BY <1>1, Lengths
<1>5. CASE ServeRead(c)
    <2>1. UNCHANGED server
        BY <1>5 DEF ServeRead
    <2>2. ServerTyped' /\ Grows /\ Len(jobs') = Len(jobs) /\ Len(renders') = Len(renders)
        BY <2>1, <1>1, ServerRests
    <2>. DEFINE row == CASE c.kind = "jobs" -> IF jobs = << >> THEN None ELSE JobRow(Len(jobs))
                         [] c.kind = "poll" -> RenderRow(c.of)
                         [] OTHER -> IF RendersOf(c.of) = {} THEN None
                                     ELSE RenderRow(Newest(RendersOf(c.of)))
    <2>3. Reply(c, row) /\ c.kind \in {"jobs", "history", "export_history", "poll"}
        BY <1>5 DEF ServeRead
    <2>4. row \in RowUpTo(IF c.kind \in BringsJob THEN Len(jobs) ELSE Len(renders))
        <3>1. CASE c.kind = "jobs"
            <4>1. jobs # << >> => Len(jobs) \in DOMAIN jobs
                BY <1>1, <1>4 DEF ServerTyped
            <4>2. row = IF jobs = << >> THEN None ELSE JobRow(Len(jobs))
                BY <3>1
            <4>. HIDE DEF row
            <4>. QED BY <3>1, <4>1, <4>2, <1>1, <1>4, Rows, NoRow DEF BringsJob
        <3>2. CASE c.kind = "poll"
            <4>1. c.of \in DOMAIN renders
                BY <3>2, <1>1, <1>4 DEF CallUpTo, AboutRender
            <4>2. row = RenderRow(c.of)
                BY <3>2
            <4>. HIDE DEF row
            <4>. QED BY <3>2, <4>1, <4>2, <1>1, Rows DEF BringsJob
        <3>3. CASE c.kind \notin {"jobs", "poll"}
            <4>1. row = IF RendersOf(c.of) = {} THEN None ELSE RenderRow(Newest(RendersOf(c.of)))
                BY <3>3
            <4>2. RendersOf(c.of) # {} => Newest(RendersOf(c.of)) \in DOMAIN renders
                BY <1>4, NewestIsOne DEF RendersOf
            <4>3. c.kind \notin BringsJob
                BY <2>3, <3>3 DEF BringsJob
            <4>. HIDE DEF row
            <4>. QED BY <4>1, <4>2, <4>3, <1>1, <1>4, Rows, NoRow
        <3>. QED BY <3>1, <3>2, <3>3
    <2>. HIDE DEF row
    <2>. QED BY <2>2, <2>3, <2>4, Replied
<1>6. CASE ServeSend(c)
    <2>1. c.kind \in BringsJob /\ UNCHANGED <<package, renders>>
        BY <1>6 DEF ServeSend, BringsJob
    <2>2. ASSUME NEW j \in DOMAIN jobs, Reply(c, JobRow(j)), UNCHANGED jobs
          PROVE  ServerTyped' /\ Grows /\ BagOver(S, calls')
        <3>1. ServerTyped' /\ Grows /\ Len(jobs') = Len(jobs)
            BY <2>1, <2>2, <1>1, ServerRests DEF server
        <3>2. JobRow(j) \in RowUpTo(Len(jobs'))
            BY <3>1, <1>1, Rows
        <3>. QED BY <2>1, <2>2, <3>1, <3>2, Replied
    <2>3. ASSUME jobs' = Append(jobs, "package_ready"),
                 Reply(c, [id |-> Len(jobs'), status |-> "package_ready", asked |-> FALSE])
          PROVE  ServerTyped' /\ Grows /\ BagOver(S, calls')
        <3>. DEFINE row == [id |-> Len(jobs'), status |-> "package_ready", asked |-> FALSE]
        <3>1. ServerTyped' /\ Grows /\ Len(jobs') = Len(jobs) + 1
            BY <2>1, <2>3, <1>1, JobAdded DEF JobStatuses
        <3>2. row \in RowUpTo(Len(jobs'))
            BY <3>1, <1>4 DEF RowUpTo, Row, JobStatuses
        <3>. HIDE DEF row
        <3>3. Reply(c, row)
            BY <2>3 DEF row
        <3>. QED BY <2>1, <3>1, <3>2, <3>3, Replied
    <2>4. ASSUME jobs' = Append(jobs, "failed"), Refuse(c)
          PROVE  ServerTyped' /\ Grows /\ BagOver(S, calls')
        BY <2>1, <2>4, <1>1, JobAdded, Replied DEF JobStatuses
    <2>. QED BY <1>6, <2>2, <2>3, <2>4 DEF ServeSend
<1>7. CASE ServeDecision(c)
    <2>. DEFINE new == IF c.kind = "approve" THEN "approved" ELSE "rejected"
                row == [JobRow(c.of) EXCEPT !.status = new]
    <2>1. /\ c.kind \in BringsJob /\ c.of \in DOMAIN jobs
          /\ UNCHANGED <<package, renders>> /\ new \in JobStatuses
        BY <1>7, <1>1, <1>4 DEF ServeDecision, BringsJob, CallUpTo, AboutJob, JobStatuses
    <2>2. CASE DecideJob(c.of, new) /\ Reply(c, row)
        <3>1. ServerTyped' /\ Grows /\ Len(jobs') = Len(jobs)
            BY <2>1, <2>2, <1>1, JobDecided DEF DecideJob
        <3>2. JobRow(c.of) \in RowUpTo(Len(jobs')) /\ JobRow(c.of).id # 0
            BY <2>1, <3>1, <1>1, <1>4, Rows DEF JobRow
        <3>3. row \in RowUpTo(Len(jobs'))
            <4>. HIDE DEF new
            <4>1. \A old \in RowUpTo(Len(jobs')) :
                     old.id # 0 => [old EXCEPT !.status = new] \in RowUpTo(Len(jobs'))
                BY <2>1 DEF RowUpTo, Row
            <4>. QED BY <3>2, <4>1
        <3>. HIDE DEF row, new
        <3>. QED BY <2>1, <2>2, <3>1, <3>3, Replied
    <2>3. CASE Refuse(c) /\ UNCHANGED jobs
        BY <2>1, <2>3, <1>1, ServerRests, Replied DEF server
    <2>. QED BY <1>7, <2>2, <2>3 DEF ServeDecision
<1>8. CASE ServeExport(c)
    <2>1. c.kind = "export" /\ c.of \in DOMAIN jobs /\ UNCHANGED jobs /\ c.kind \notin BringsJob
        BY <1>8, <1>1, <1>4 DEF ServeExport, CallUpTo, AboutJob, BringsJob
    <2>. DEFINE row == [id |-> Len(renders'), status |-> "queued", asked |-> FALSE]
    <2>2. CASE AddRender(c.of) /\ Reply(c, row)
        <3>1. ServerTyped' /\ Grows /\ Len(renders') = Len(renders) + 1
            BY <2>1, <2>2, <1>1, RenderAdded
        <3>2. row \in RowUpTo(Len(renders'))
            BY <3>1, <1>4 DEF RowUpTo, Row, Waiting
        <3>. HIDE DEF row
        <3>. QED BY <2>1, <2>2, <3>1, <3>2, Replied
    <2>3. CASE Refuse(c) /\ UNCHANGED <<package, renders>>
        BY <2>1, <2>3, <1>1, ServerRests, Replied DEF server
    <2>. QED BY <1>8, <2>2, <2>3 DEF ServeExport
<1>9. CASE ServeCancel(c)
    <2>1. /\ c.of \in DOMAIN renders /\ UNCHANGED <<jobs, package>>
          /\ c.kind \notin BringsJob
        BY <1>9, <1>1, <1>4 DEF ServeCancel, CallUpTo, AboutRender, BringsJob
    <2>. DEFINE row == [id |-> c.of, status |-> renders'[c.of].status,
                        asked |-> renders'[c.of].asked]
    <2>2. CASE CancelRender(c.of) /\ Reply(c, row)
        <3>1. ServerTyped' /\ Grows /\ Len(renders') = Len(renders)
            BY <2>1, <2>2, <1>1, RendersMoved
        <3>2. renders'[c.of] \in Render
            BY <2>1, <3>1, <1>4 DEF ServerTyped, RenderTypeOK
        <3>3. row \in RowUpTo(Len(renders'))
            BY <2>1, <3>1, <3>2, <1>4 DEF RowUpTo, Row, Render
        <3>. HIDE DEF row
        <3>. QED BY <2>1, <2>2, <3>1, <3>3, Replied
    <2>3. CASE Refuse(c) /\ UNCHANGED renders
        BY <2>1, <2>3, <1>1, ServerRests, Replied DEF server
    <2>. QED BY <1>9, <2>2, <2>3 DEF ServeCancel
<1>. QED BY <1>5, <1>6, <1>7, <1>8, <1>9 DEF Serve

LEMMA LoseStep ==
    ASSUME TypedCard, NEW c \in Calls, Lose(c)
    PROVE  TypedCard'
<1>1. ServerTyped' /\ Grows
    BY ServerRests DEF TypedCard, Lose
<1>2. clicks' \in Nat /\ lost' \in Nat /\ UNCHANGED <<card, polled>>
    BY DEF TypedCard, Lose
<1>3. BagOver(CallUpTo(Len(jobs'), Len(renders')), calls')
    BY <1>1, Replied DEF Lose
<1>. QED BY <1>1, <1>2, <1>3, CallsOnly

\* New calls of the person and of the timer, about what the card shows.
LEMMA CallMade ==
    ASSUME TypedCard, NEW kind \in Kinds, NEW of \in Nat,
           kind \in AboutJob => of \in 1 .. Len(jobs),
           kind \in AboutRender => of \in 1 .. Len(renders),
           calls' = calls (+) NewCall(kind, of), UNCHANGED <<server, card, polled, lost>>,
           clicks' \in Nat
    PROVE  TypedCard'
<1>. DEFINE S == CallUpTo(Len(jobs'), Len(renders'))
<1>1. ServerTyped' /\ Grows /\ Len(jobs') = Len(jobs) /\ Len(renders') = Len(renders)
    BY ServerRests DEF TypedCard
<1>2. Len(jobs) \in Nat /\ Len(renders) \in Nat
    BY Lengths DEF TypedCard
<1>3. BagOver(S, NewCall(kind, of))
    BY <1>1, <1>2, NewCallTyped
<1>4. BagOver(S, calls)
    BY <1>1, StillTyped
<1>5. BagOver(S, calls')
    <2>. HIDE DEF S
    <2>. QED BY <1>3, <1>4, MoreCalls
<1>6. lost' \in Nat
    BY DEF TypedCard
<1>. QED BY <1>1, <1>5, <1>6, CallsOnly

\* What the card shows: the ids of rows that there are.
LEMMA Shown ==
    ASSUME TypedCard
    PROVE  /\ Len(jobs) \in Nat /\ Len(renders) \in Nat
           /\ card.job \in RowUpTo(Len(jobs)) /\ card.render \in RowUpTo(Len(renders))
           /\ card.job.id \in 0 .. Len(jobs) /\ card.render.id \in 0 .. Len(renders)
           /\ card.job.status # "none" => card.job.id \in 1 .. Len(jobs)
           /\ card.render.id # 0 => card.render.id \in 1 .. Len(renders)
<1>1. Len(jobs) \in Nat /\ Len(renders) \in Nat
    BY Lengths DEF TypedCard
<1>2. card.job \in RowUpTo(Len(jobs)) /\ card.render \in RowUpTo(Len(renders))
    BY DEF TypedCard, CardUpTo
<1>. QED BY <1>1, <1>2 DEF RowUpTo

LEMMA ClickStep ==
    ASSUME TypedCard, Clicks \/ PollTick
    PROVE  TypedCard'
<1>1. ASSUME NEW kind \in Kinds, NEW busy, NEW of \in Nat, Click(kind, busy, of),
             kind \in AboutJob => of \in 1 .. Len(jobs),
             kind \in AboutRender => of \in 1 .. Len(renders)
      PROVE  TypedCard'
    <2>1. clicks' \in Nat
        BY <1>1 DEF Click, Deed, TypedCard
    <2>. QED BY <1>1, <2>1, CallMade DEF Click
<1>2. CASE ClickSend
    BY <1>1, <1>2 DEF ClickSend, Kinds, AboutJob, AboutRender
<1>3. ASSUME NEW kind \in {"approve", "reject"}, ClickDecision(kind)
      PROVE  TypedCard'
    <2>1. card.job.id \in 1 .. Len(jobs)
        BY <1>3, Shown DEF ClickDecision
    <2>2. kind \in Kinds /\ kind \notin AboutRender /\ card.job.id \in Nat
        BY <2>1, Shown DEF Kinds, AboutRender
    <2>. QED BY <1>1, <1>3, <2>1, <2>2 DEF ClickDecision
<1>4. CASE ClickExport
    <2>1. card.job.id \in 1 .. Len(jobs) /\ card.job.id \in Nat
        BY <1>4, Shown DEF ClickExport, RenderReady
    <2>. QED BY <1>1, <1>4, <2>1 DEF ClickExport, Kinds, AboutRender
<1>5. CASE ClickCancel
    <2>1. card.render.id \in 1 .. Len(renders) /\ card.render.id \in Nat
        BY <1>5, Shown DEF ClickCancel, Live
    <2>. QED BY <1>1, <1>5, <2>1 DEF ClickCancel, Kinds, AboutJob
<1>6. CASE PollTick
    <2>1. polled \in 1 .. Len(renders) /\ polled \in Nat /\ clicks' \in Nat
        BY <1>6, Shown DEF PollTick, TypedCard
    <2>. QED BY <1>6, <2>1, CallMade DEF PollTick, Kinds, AboutJob
<1>. QED BY <1>2, <1>3, <1>4, <1>5, <1>6 DEF Clicks

\* One render of the card with its effects.
LEMMA RerenderTyped ==
    ASSUME TypedCard, NEW new \in CardUpTo(Len(jobs), Len(renders)), NEW others, NEW poller,
           BagOver(CallUpTo(Len(jobs), Len(renders)), others),
           poller \in 0 .. Len(renders), Rerender(new, others, poller)
    PROVE  TypedCard'
<1>. DEFINE S == CallUpTo(Len(jobs), Len(renders))
            restart == PollKey(new) # PollKey(card)
            load == HistoryKey(new) # HistoryKey(card) /\ RenderReady(new.job.status)
            kept == IF restart THEN Without(others, "poll") ELSE others
            more == IF load THEN NewCall("history", new.job.id) ELSE EmptyBag
<1>1. ServerTyped' /\ Grows /\ Len(jobs') = Len(jobs) /\ Len(renders') = Len(renders)
    BY ServerRests DEF TypedCard, Rerender
<1>2. /\ Len(jobs) \in Nat /\ Len(renders) \in Nat
      /\ new.job.id \in Nat /\ new.render.id \in 0 .. Len(renders)
    BY Lengths DEF TypedCard, CardUpTo, RowUpTo
<1>3. calls' = kept (+) more
    BY DEF Rerender
<1>4. BagOver(S, kept)
    BY OtherCalls
<1>5. BagOver(S, more)
    <2>1. BagOver(S, NewCall("history", new.job.id))
        BY <1>2, NewCallTyped DEF Kinds, AboutJob, AboutRender
    <2>. QED BY <2>1, NoCall
<1>6. BagOver(S, calls')
    <2>. HIDE DEF S, kept, more
    <2>. QED BY <1>3, <1>4, <1>5, MoreCalls
<1>7. polled' \in 0 .. Len(renders)
    BY <1>2 DEF Rerender
<1>8. card' = new /\ clicks' \in Nat /\ lost' \in Nat
    BY DEF Rerender, TypedCard
<1>. QED BY <1>1, <1>6, <1>7, <1>8 DEF TypedCard

\* What an answer makes of the card.
LEMMA CardPieces ==
    ASSUME NEW j \in Nat, NEW n \in Nat, NEW cd \in CardUpTo(j, n), NEW row \in RowUpTo(n),
           NEW late \in 0 .. n, NEW links \in 0 .. n
    PROVE  /\ [cd EXCEPT !.latest = 0] \in CardUpTo(j, n)
           /\ [cd EXCEPT !.latest = late, !.render = row, !.links = links] \in CardUpTo(j, n)
           /\ [cd EXCEPT !.render = row, !.links = 0] \in CardUpTo(j, n)
<1>1. ASSUME NEW d \in CardUpTo(j, n)
      PROVE  /\ \A x \in 0 .. n : [d EXCEPT !.latest = x] \in CardUpTo(j, n)
             /\ \A x \in 0 .. n : [d EXCEPT !.links = x] \in CardUpTo(j, n)
             /\ [d EXCEPT !.render = row] \in CardUpTo(j, n)
    BY <1>1 DEF CardUpTo
<1>2. 0 \in 0 .. n
    OBVIOUS
<1>3. [cd EXCEPT !.latest = 0] \in CardUpTo(j, n)
    BY <1>1, <1>2
<1>. DEFINE d1 == [cd EXCEPT !.latest = late]
            d2 == [d1 EXCEPT !.render = row]
            d3 == [cd EXCEPT !.render = row]
<1>4. d2 \in CardUpTo(j, n) /\ d3 \in CardUpTo(j, n)
    <2>1. d1 \in CardUpTo(j, n)
        BY <1>1
    <2>. HIDE DEF d1
    <2>. QED BY <2>1, <1>1
<1>5. [d2 EXCEPT !.links = links] \in CardUpTo(j, n) /\ [d3 EXCEPT !.links = 0] \in CardUpTo(j, n)
    <2>. HIDE DEF d2, d3
    <2>. QED BY <1>1, <1>2, <1>4
<1>. QED BY <1>3, <1>5

LEMMA ReceiveStep ==
    ASSUME TypedCard, NEW c \in Calls, Receive(c)
    PROVE  TypedCard'
<1>. DEFINE j == Len(jobs)
            n == Len(renders)
            S == CallUpTo(j, n)
<1>1. /\ c \in CallUpTo(Len(jobs), Len(renders)) /\ ServerTyped
      /\ BagOver(S, calls) /\ card \in CardUpTo(j, n) /\ polled \in 0 .. n
    BY DEF TypedCard, BagOver, Calls
<1>2. j \in Nat /\ n \in Nat
    BY Shown
<1>3. BagOver(S, Rest(c))
    BY <1>1, FewerCalls DEF Rest
<1>4. /\ c.row \in RowUpTo(IF c.kind \in BringsJob THEN j ELSE n) /\ c.of \in Nat
      /\ c.row.id \in (IF c.kind \in BringsJob THEN 0 .. j ELSE 0 .. n)
    BY <1>1 DEF CallUpTo, RowUpTo
<1>5. CASE ReceiveJob(c)
    <2>1. [card EXCEPT !.job = c.row] \in CardUpTo(j, n)
        BY <1>1, <1>4, <1>5 DEF ReceiveJob, CardUpTo, BringsJob
    <2>. QED BY <2>1, <1>1, <1>3, <1>5, RerenderTyped DEF ReceiveJob
<1>6. CASE ReceiveHistory(c)
    <2>1. c.kind \notin BringsJob
        BY <1>6 DEF ReceiveHistory, BringsJob
    <2>. DEFINE empty == [card EXCEPT !.latest = 0]
                m == IF c.row.status = "rendered" THEN c.row.id ELSE 0
                full == [card EXCEPT !.latest = c.row.id, !.render = c.row, !.links = m]
    <2>2. empty \in CardUpTo(j, n) /\ full \in CardUpTo(j, n)
        <3>1. c.row \in RowUpTo(n) /\ c.row.id \in 0 .. n /\ m \in 0 .. n
            BY <2>1, <1>2, <1>4
        <3>. HIDE DEF m
        <3>. QED BY <3>1, <1>1, <1>2, CardPieces
    <2>3. Rerender(empty, Rest(c), polled) \/ Rerender(full, Rest(c), polled)
        BY <1>6 DEF ReceiveHistory
    <2>. HIDE DEF empty, full
    <2>. QED BY <2>2, <2>3, <1>1, <1>3, RerenderTyped
<1>7. CASE ReceivePoll(c)
    <2>. DEFINE new == [card EXCEPT !.render = c.row]
                others == IF Live(c.row) \/ card.job.id = 0 THEN Rest(c)
                          ELSE Rest(c) (+) NewCall("history", card.job.id)
                poller == IF Live(c.row) THEN polled ELSE 0
    <2>1. new \in CardUpTo(j, n)
        BY <1>1, <1>4, <1>7 DEF ReceivePoll, CardUpTo, BringsJob
    <2>2. BagOver(S, NewCall("history", card.job.id))
        BY <1>2, Shown, NewCallTyped DEF Kinds, AboutJob, AboutRender
    <2>3. BagOver(S, others)
        <3>. HIDE DEF S
        <3>. QED BY <1>3, <2>2, MoreCalls
    <2>4. poller \in 0 .. n /\ Rerender(new, others, poller)
        BY <1>1, <1>2, <1>7 DEF ReceivePoll
    <2>. HIDE DEF new, others, poller
    <2>. QED BY <2>1, <2>3, <2>4, RerenderTyped
<1>8. CASE ReceiveExport(c)
    <2>. DEFINE new == [card EXCEPT !.render = c.row, !.links = 0]
                others == Rest(c) (+) NewCall("export_history", c.of)
    <2>1. new \in CardUpTo(j, n)
        <3>1. c.row \in RowUpTo(n)
            BY <1>4, <1>8 DEF ReceiveExport, BringsJob
        <3>. QED BY <3>1, <1>1, <1>2, CardPieces
    <2>2. BagOver(S, NewCall("export_history", c.of))
        BY <1>2, <1>4, NewCallTyped DEF Kinds, AboutJob, AboutRender
    <2>3. BagOver(S, others)
        <3>. HIDE DEF S
        <3>. QED BY <1>3, <2>2, MoreCalls
    <2>4. Rerender(new, others, polled)
        BY <1>8 DEF ReceiveExport
    <2>. HIDE DEF new, others
    <2>. QED BY <2>1, <2>3, <2>4, <1>1, RerenderTyped
<1>9. CASE ReceiveCancel(c)
    <2>1. [card EXCEPT !.render = c.row] \in CardUpTo(j, n)
        BY <1>1, <1>4, <1>9 DEF ReceiveCancel, CardUpTo, BringsJob
    <2>. QED BY <2>1, <1>1, <1>3, <1>9, RerenderTyped DEF ReceiveCancel
<1>. QED BY <1>5, <1>6, <1>7, <1>8, <1>9 DEF Receive

\* The other person and the workers change the database alone.
LEMMA OthersStep ==
    ASSUME TypedCard, OtherPerson \/ \E n \in DOMAIN renders : Worker(n) \/ Setback(n)
    PROVE  TypedCard'
<1>1. UNCHANGED browser /\ clicks' \in Nat
    <2>1. clicks \in Nat /\ clicks + 1 \in Nat
        BY DEF TypedCard
    <2>2. CASE OtherPerson
        BY <2>1, <2>2 DEF OtherPerson, Deed
    <2>3. CASE \E n \in DOMAIN renders : Worker(n) \/ Setback(n)
        BY <2>1, <2>3 DEF Worker, Setback
    <2>. QED BY <2>2, <2>3
<1>2. ServerTyped
    BY DEF TypedCard
<1>3. ServerTyped' /\ Grows
    <2>1. ASSUME NEW n \in DOMAIN renders, UNCHANGED <<jobs, package>>,
                 CancelRender(n) \/ Work(n) \/ ReturnRenders({n}) \/ GiveUpRenders({n})
          PROVE  ServerTyped' /\ Grows
        BY <2>1, <1>2, RendersMoved
    <2>2. ASSUME NEW j \in DOMAIN jobs, NEW s \in JobStatuses,
                 jobs' = [jobs EXCEPT ![j] = s], UNCHANGED <<package, renders>>
          PROVE  ServerTyped' /\ Grows
        BY <2>2, <1>2, JobDecided
    <2>3. ASSUME NEW j \in DOMAIN jobs, AddRender(j), UNCHANGED jobs
          PROVE  ServerTyped' /\ Grows
        BY <2>3, <1>2, RenderAdded
    <2>4. ASSUME jobs' = Append(jobs, "packaging"), UNCHANGED <<package, renders>>
          PROVE  ServerTyped' /\ Grows
        BY <2>4, <1>2, JobAdded DEF JobStatuses
    <2>5. CASE OtherPerson
        BY <2>1, <2>2, <2>3, <2>4, <2>5 DEF OtherPerson, DecideJob, JobStatuses
    <2>6. CASE \E n \in DOMAIN renders : Worker(n) \/ Setback(n)
        BY <2>1, <2>6 DEF Worker, Setback
    <2>. QED BY <2>5, <2>6
<1>4. UNCHANGED <<card, polled, calls, lost>>
    BY <1>1 DEF browser
<1>5. lost' \in Nat
    BY <1>4 DEF TypedCard
<1>6. BagOver(CallUpTo(Len(jobs'), Len(renders')), calls')
    BY <1>3, <1>4, StillTyped
<1>. QED BY <1>1, <1>3, <1>4, <1>5, <1>6, CallsOnly

LEMMA InitTyped ==
    ASSUME CardInit
    PROVE  TypedCard
<1>1. PICK d \in DoneBefore : /\ jobs = d.jobs /\ renders = d.renders
                              /\ package = [n \in DOMAIN d.renders |-> Len(d.jobs)]
    BY DEF CardInit
<1>2. /\ jobs \in Seq(JobStatuses) /\ RenderTypeOK
      /\ renders # << >> => jobs # << >>
    <2>1. /\ d.jobs \in Seq(JobStatuses) /\ d.renders \in Seq(Render)
          /\ d.renders # << >> => d.jobs # << >>
        BY CardAssumption
    <2>. QED BY <1>1, <2>1 DEF RenderTypeOK
<1>3. \A n \in DOMAIN renders : Len(jobs) \in DOMAIN jobs
    BY <1>2 DEF RenderTypeOK
<1>4. ServerTyped
    BY <1>1, <1>2, <1>3 DEF ServerTyped
<1>5. Len(jobs) \in Nat /\ Len(renders) \in Nat
    BY <1>4, Lengths
<1>6. card \in CardUpTo(Len(jobs), Len(renders))
    BY <1>5, NoRow DEF CardInit, NewCard, CardUpTo
<1>7. BagOver(CallUpTo(Len(jobs), Len(renders)), calls)
    BY <1>5, NewCallTyped DEF CardInit, Kinds, AboutJob, AboutRender
<1>. QED BY <1>4, <1>5, <1>6, <1>7 DEF CardInit, TypedCard

LEMMA TypedStep ==
    ASSUME TypedCard, [CardNext]_vars
    PROVE  TypedCard'
<1>1. CASE UNCHANGED vars
    <2>1. ServerTyped' /\ Len(jobs') = Len(jobs) /\ Len(renders') = Len(renders)
        BY <1>1, ServerRests DEF vars, TypedCard
    <2>. QED BY <1>1, <2>1 DEF vars, browser, TypedCard
<1>. QED BY <1>1, ServeStep, LoseStep, ReceiveStep, ClickStep, OthersStep DEF CardNext

\* Calls and answers name what there is, in every reachable state.
THEOREM CardInvariant == CardSpec => []TypedCard
BY InitTyped, TypedStep, PTL DEF CardSpec

\* Every call about a job or a render, and every answer that the card takes up, however
\* late, names one that there is (TypedCard), so the types of all variables hold: every
\* render has a package that exists, and the card never lists files of a render that does
\* not.
THEOREM CardIsTyped == CardSpec => []CardTypeOK
<1>1. ASSUME TypedCard PROVE CardTypeOK
    <2>1. card \in [job : Row, render : Row, links : 0 .. Len(renders),
                    latest : 0 .. Len(renders)]
        BY <1>1 DEF TypedCard, CardUpTo, RowUpTo
    <2>2. IsABag(calls) /\ Calls \subseteq [kind : Kinds, of : Nat, done : BOOLEAN, row : Row]
        BY <1>1 DEF TypedCard, BagOver, Calls, CallUpTo
    <2>. QED BY <1>1, <2>1, <2>2 DEF TypedCard, ServerTyped, CardTypeOK
<1>. QED BY <1>1, CardInvariant, PTL
=============================================================================
