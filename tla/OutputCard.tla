----------------------------- MODULE OutputCard -----------------------------
(***************************************************************************)
(* The card of one generated output in the dashboard                       *)
(* (components/visual-outputs-panel.tsx) against the API: production jobs  *)
(* are sent, reviewed and rendered, and renders are watched by polling and *)
(* cancelled.  The queue behind it is RenderPromise; another person may    *)
(* work on the same output.                                                *)
(*                                                                         *)
(* Calls are answered in any order, and an answer may be lost after the    *)
(* call did its work.  What the card shows comes from whichever answer was *)
(* handled last.  React is taken to render one answer, and run its         *)
(* effects, before the next is handled.  The output is 'generated', and    *)
(* RENDER_QUEUE_ENABLED is on: without it a render's answer is final.      *)
(***************************************************************************)
EXTENDS RenderPromise, Bags

CONSTANTS
    DoneBefore,     \* what there is when the card is mounted: records of jobs and renders
    MaxClicks,      \* bound: clicks of the person and deeds of the other one together
    MaxCalls,       \* bound: calls under way when somebody clicks or the timer fires
    MaxLost         \* bound: calls that fail or whose answer is lost

JobStatuses == {"packaging", "package_ready", "failed", "approved", "rejected"}
\* A render belongs to the newest of the jobs.
ASSUME CardAssumption ==
    /\ MaxClicks \in Nat /\ MaxCalls \in Nat /\ MaxLost \in Nat
    /\ \A d \in DoneBefore : /\ d.jobs \in Seq(JobStatuses) /\ d.renders \in Seq(Render)
                             /\ d.renders # << >> => d.jobs # << >>

VARIABLES
    jobs,       \* production_jobs: their statuses, in creation order
    package,    \* the production job of every render
    card,       \* the state of the component
    polled,     \* the render pollRenderJob asks about, 0 when it is stopped
    calls,      \* a bag of calls under way
    clicks,     \* how often somebody did something
    lost        \* how many calls failed

server == <<jobs, package, renders>>
browser == <<card, polled, calls, lost>>
vars == <<server, browser, clicks>>

\* An answer about a production job or a render; id 0: none exists.
None == [id |-> 0, status |-> "none", asked |-> FALSE]
JobRow(j) == [id |-> j, status |-> jobs[j], asked |-> FALSE]
RenderRow(n) == [id |-> n, status |-> renders[n].status, asked |-> renders[n].asked]

\* job, render: productionJob and renderJob.  links: the render whose artifacts are
\* listed.  latest: the last entry of renderHistory.
NewCard == [job |-> None, render |-> None, links |-> 0, latest |-> 0]

Kinds == {"jobs", "history", "poll", "send", "approve", "reject", "export",
          "export_history", "cancel"}
\* of: the production job or render the call is about, as of the click or the effect.
NewCall(kind, of) == SetToBag({[kind |-> kind, of |-> of, done |-> FALSE, row |-> None]})
Calls == BagToSet(calls)
UnderWay(kinds) == \E c \in Calls : c.kind \in kinds

\* Mounting the card asks for its production jobs.
CardInit ==
    /\ \E d \in DoneBefore : /\ jobs = d.jobs /\ renders = d.renders
                            /\ package = [n \in DOMAIN d.renders |-> Len(d.jobs)]
    /\ card = NewCard
    /\ polled = 0
    /\ calls = NewCall("jobs", 0)
    /\ clicks = 0
    /\ lost = 0

(***************************************************************************)
(* The API                                                                 *)
(***************************************************************************)
Active(status) == status \in {"packaging", "package_ready", "approved"}
RenderReady(status) == status \in {"package_ready", "approved"}
Newest(S) == CHOOSE n \in S : \A m \in S : m <= n
RendersOf(j) == {n \in DOMAIN renders : package[n] = j}

Reply(c, row) ==
    calls' = (calls (-) SetToBag({c})) (+) SetToBag({[c EXCEPT !.done = TRUE, !.row = row]})
\* The handler of an error shows it beside the button or swallows it, and that is all.
Refuse(c) == calls' = calls (-) SetToBag({c})

ServeRead(c) ==
    /\ c.kind \in {"jobs", "history", "export_history", "poll"}
    /\ Reply(c, CASE c.kind = "jobs" -> IF jobs = << >> THEN None ELSE JobRow(Len(jobs))
                  [] c.kind = "poll" -> RenderRow(c.of)
                  [] OTHER -> IF RendersOf(c.of) = {} THEN None
                              ELSE RenderRow(Newest(RendersOf(c.of))))
    /\ UNCHANGED server

\* buildProductionPackage: idempotent, and a package that cannot be built is an error.
ServeSend(c) ==
    /\ c.kind = "send"
    /\ UNCHANGED <<package, renders>>
    /\ \/ /\ \E j \in DOMAIN jobs : Active(jobs[j]) /\ Reply(c, JobRow(j))
          /\ UNCHANGED jobs
       \/ /\ \A j \in DOMAIN jobs : ~Active(jobs[j])
          /\ \/ /\ jobs' = Append(jobs, "package_ready")
                /\ Reply(c, [id |-> Len(jobs'), status |-> "package_ready", asked |-> FALSE])
             \/ jobs' = Append(jobs, "failed") /\ Refuse(c)

DecideJob(j, new) == jobs[j] = "package_ready" /\ jobs' = [jobs EXCEPT ![j] = new]
ServeDecision(c) ==
    /\ c.kind \in {"approve", "reject"}
    /\ LET new == IF c.kind = "approve" THEN "approved" ELSE "rejected"
       IN  IF jobs[c.of] = "package_ready"
           THEN DecideJob(c.of, new) /\ Reply(c, [JobRow(c.of) EXCEPT !.status = new])
           ELSE Refuse(c) /\ UNCHANGED jobs
    /\ UNCHANGED <<package, renders>>

AddRender(j) == RequestRender /\ package' = Append(package, j)
ServeExport(c) ==
    /\ c.kind = "export"
    /\ IF RenderReady(jobs[c.of])
       THEN AddRender(c.of) /\ Reply(c, [id |-> Len(renders'), status |-> "queued", asked |-> FALSE])
       ELSE Refuse(c) /\ UNCHANGED <<package, renders>>
    /\ UNCHANGED jobs
ServeCancel(c) ==
    /\ c.kind = "cancel"
    /\ IF renders[c.of].status \in Ended
       THEN Refuse(c) /\ UNCHANGED renders
       ELSE /\ CancelRender(c.of)
            /\ Reply(c, [id |-> c.of, status |-> renders'[c.of].status, asked |-> renders'[c.of].asked])
    /\ UNCHANGED <<jobs, package>>

Serve(c) ==
    /\ ~c.done
    /\ ServeRead(c) \/ ServeSend(c) \/ ServeDecision(c) \/ ServeExport(c) \/ ServeCancel(c)
    /\ UNCHANGED <<card, polled, clicks, lost>>

\* The call never arrives, or its answer does not.
Lose(c) ==
    /\ lost < MaxLost
    /\ lost' = lost + 1
    /\ Refuse(c)
    /\ UNCHANGED <<server, card, polled, clicks>>

(***************************************************************************)
(* The component: its effects, its handlers, its buttons                   *)
(***************************************************************************)
Live(row) == row.id # 0 /\ row.status \notin Ended
Polls == {c \in Calls : c.kind = "poll"}
Without(bag, kind) == [c \in {d \in BagToSet(bag) : d.kind # kind} |-> bag[c]]

\* Mutant: the polling effect does not depend on the status of the render.
MutantPollKey(c) == <<c.render.id, c.job.id>>
\* The dependencies of the two effects; loadRenderHistory changes with the job's id.
PollKey(c) == <<c.render.id, c.render.status, c.job.id>>
HistoryKey(c) == <<c.job.id, c.job.status>>

\* The new state is rendered and the effects run whose dependencies changed: a new poller,
\* to which answers for the old one are nothing, and another load of the history.
Rerender(new, others, poller) ==
    LET restart == PollKey(new) # PollKey(card)
        load == HistoryKey(new) # HistoryKey(card) /\ RenderReady(new.job.status)
    IN  /\ card' = new
        /\ polled' = IF ~restart THEN poller ELSE IF Live(new.render) THEN new.render.id ELSE 0
        /\ calls' = (IF restart THEN Without(others, "poll") ELSE others)
                       (+) (IF load THEN NewCall("history", new.job.id) ELSE EmptyBag)
        /\ UNCHANGED <<server, clicks, lost>>
Rest(c) == calls (-) SetToBag({c})

\* A first load that is late overwrites what a click has brought meanwhile.
ReceiveJob(c) ==
    /\ c.kind \in {"jobs", "send", "approve", "reject"}
    /\ Rerender([card EXCEPT !.job = c.row], Rest(c), polled)
\* An empty history leaves the render that is shown.
ReceiveHistory(c) ==
    /\ c.kind \in {"history", "export_history"}
    /\ Rerender(IF c.row = None THEN [card EXCEPT !.latest = 0]
                ELSE [card EXCEPT !.latest = c.row.id, !.render = c.row,
                                  !.links = IF c.row.status = "rendered" THEN c.row.id ELSE 0],
                Rest(c), polled)
\* Mutant: the end of a render does not reload the history.
MutantReceivePoll(c) ==
    /\ c.kind = "poll"
    /\ Rerender([card EXCEPT !.render = c.row], Rest(c), IF Live(c.row) THEN polled ELSE 0)
\* The last answer stops the poller and reloads the history of the job that is shown.
ReceivePoll(c) ==
    /\ c.kind = "poll"
    /\ Rerender([card EXCEPT !.render = c.row],
                IF Live(c.row) \/ card.job.id = 0 THEN Rest(c)
                ELSE Rest(c) (+) NewCall("history", card.job.id),
                IF Live(c.row) THEN polled ELSE 0)
ReceiveExport(c) ==
    /\ c.kind = "export"
    /\ Rerender([card EXCEPT !.render = c.row, !.links = 0],
                Rest(c) (+) NewCall("export_history", c.of), polled)
ReceiveCancel(c) ==
    /\ c.kind = "cancel"
    /\ Rerender([card EXCEPT !.render = c.row], Rest(c), polled)
Receive(c) ==
    /\ c.done
    /\ \/ ReceiveJob(c) \/ ReceiveHistory(c) \/ ReceivePoll(c)
       \/ ReceiveExport(c) \/ ReceiveCancel(c)

\* Mutant: a render that was asked to stop counts as over.
MutantPollTick ==
    /\ polled # 0 /\ Polls = {} /\ ~card.render.asked
    /\ BagCardinality(calls) < MaxCalls
    /\ calls' = calls (+) NewCall("poll", polled)
    /\ UNCHANGED <<server, card, polled, clicks, lost>>
\* The timer of pollRenderJob; the next one is set when the answer is there.
PollTick ==
    /\ polled # 0 /\ Polls = {}
    /\ BagCardinality(calls) < MaxCalls
    /\ calls' = calls (+) NewCall("poll", polled)
    /\ UNCHANGED <<server, card, polled, clicks, lost>>

Deed == clicks < MaxClicks /\ clicks' = clicks + 1
Click(kind, busy, of) ==
    /\ Deed
    /\ ~UnderWay(busy)
    /\ BagCardinality(calls) < MaxCalls
    /\ calls' = calls (+) NewCall(kind, of)
    /\ UNCHANGED <<server, card, polled, lost>>
ClickSend ==
    /\ card.job.id = 0 \/ ~Active(card.job.status)
    /\ Click("send", {"send"}, 0)
ClickDecision(kind) == card.job.status = "package_ready" /\ Click(kind, {kind}, card.job.id)
ClickExport ==
    /\ RenderReady(card.job.status)
    /\ Click("export", {"export", "export_history"}, card.job.id)
ClickCancel ==
    /\ RenderReady(card.job.status)
    /\ Live(card.render) /\ ~(card.render.status = "rendering" /\ card.render.asked)
    /\ Click("cancel", {"cancel"}, card.render.id)
Clicks == ClickSend \/ ClickDecision("approve") \/ ClickDecision("reject")
             \/ ClickExport \/ ClickCancel

(***************************************************************************)
(* The other person, and the workers                                       *)
(***************************************************************************)
OtherPerson ==
    /\ \/ /\ \A j \in DOMAIN jobs : ~Active(jobs[j])
          /\ jobs' = Append(jobs, "packaging") /\ Deed
          /\ UNCHANGED <<package, renders>>
       \/ \E j \in DOMAIN jobs :
             /\ \/ \E new \in {"approved", "rejected"} : DecideJob(j, new) /\ Deed
                \/ /\ jobs[j] = "packaging"
                   /\ \E new \in {"package_ready", "failed"} : jobs' = [jobs EXCEPT ![j] = new]
                   /\ UNCHANGED clicks
             /\ UNCHANGED <<package, renders>>
       \/ /\ \E j \in DOMAIN jobs : RenderReady(jobs[j]) /\ AddRender(j)
          /\ Deed
          /\ UNCHANGED jobs
       \/ /\ \E n \in DOMAIN renders : CancelRender(n)
          /\ Deed
          /\ UNCHANGED <<jobs, package>>
    /\ UNCHANGED browser

Worker(n) == Work(n) /\ UNCHANGED <<jobs, package, browser, clicks>>
Setback(n) == /\ ReturnRenders({n}) \/ GiveUpRenders({n})
              /\ UNCHANGED <<jobs, package, browser, clicks>>

CardNext ==
    \/ \E c \in Calls : Serve(c) \/ Lose(c) \/ Receive(c)
    \/ PollTick \/ Clicks \/ OtherPerson
    \/ \E n \in DOMAIN renders : Worker(n) \/ Setback(n)

\* Every kind of call is answered and its answer handled, the timer fires, and workers
\* work on every render.  Nobody has to click.
CardFairness ==
    /\ \A k \in Kinds : /\ WF_vars(\E c \in Calls : c.kind = k /\ Serve(c))
                        /\ WF_vars(\E c \in Calls : c.kind = k /\ Receive(c))
    /\ WF_vars(PollTick)
    /\ \A n \in 1 .. MaxClicks + 1 : WF_vars(n \in DOMAIN renders /\ Worker(n))
CardSpec == CardInit /\ [][CardNext]_vars /\ CardFairness

(***************************************************************************)
(* Properties                                                              *)
(***************************************************************************)
Row == [id : Nat, status : JobStatuses \cup Ended \cup Waiting \cup {"rendering", "none"},
        asked : BOOLEAN]

\* Every variable has its type, and every call is one the API knows.
CardTypeOK ==
    /\ RenderTypeOK
    /\ jobs \in Seq(JobStatuses)
    /\ package \in [DOMAIN renders -> DOMAIN jobs]
    /\ card \in [job : Row, render : Row, links : 0 .. Len(renders), latest : 0 .. Len(renders)]
    /\ polled \in 0 .. Len(renders)
    /\ IsABag(calls)
    /\ Calls \subseteq [kind : Kinds, of : Nat, done : BOOLEAN, row : Row]
    /\ clicks \in Nat /\ lost \in Nat

\* In whatever order answers come and effects restart: the render that is shown is polled
\* exactly while it is shown as unfinished.
UnfinishedIsPolled == polled = IF Live(card.render) THEN card.render.id ELSE 0

\* Whatever late, lost or reordered answers did to the card, it ends up showing the true
\* status of the render it shows.
ShownComesTrue ==
    <>[](card.render.id # 0 => card.render.status = renders[card.render.id].status)

\* If no call fails, a finished render of the package that is shown, while that may be
\* rendered at all, ends up with the links to its own files, not to those of another.
FinishedShowsLinks ==
    <>[](/\ lost = 0 /\ RenderReady(card.job.status) /\ card.render.status = "rendered"
         /\ package[card.render.id] = card.job.id
         => card.links = card.render.id)
=============================================================================
