----------------------------- MODULE RenderQueue -----------------------------
(***************************************************************************)
(* The render queue of Grafista AI Studio: the render_jobs table, the      *)
(* ticks of the polling workers (services/render-worker.ts) and the        *)
(* synchronous renders of services/render-engine.ts that run instead when  *)
(* RENDER_QUEUE_ENABLED is off.                                            *)
(*                                                                         *)
(* setInterval starts a tick whether or not earlier ticks are still        *)
(* rendering, in every process: a tick, not a process, is what works on    *)
(* one job.  Each SQL statement is one step; a tick may die between two.   *)
(* Time is seen only through what the statements compare it with: whether  *)
(* next_run_at is due, and whether started_at is past the stale threshold. *)
(***************************************************************************)
EXTENDS Naturals, Sequences

CONSTANTS
    Ticks,          \* slots of poll ticks: at most this many in flight
    Callers,        \* slots of synchronous render requests
    Settings,       \* the deployments and timings to look at.  queue:
                    \* RENDER_QUEUE_ENABLED; overlap: the row a cancellation looked at
                    \* may be out of date when its UPDATE gets the row lock; lossy: a
                    \* statement may commit although its caller sees an error; limit:
                    \* a bound, render requests made in this setting
    MaxAttempts,    \* RENDER_JOB_MAX_ATTEMPTS
    MaxJobs,        \* bound: render requests made in any setting
    MaxDeaths,      \* bound: ticks and requests that die
    Slow            \* TRUE: an attempt may outlive RENDER_JOB_STALE_LOCK_MS

ASSUME QueueAssumption ==
    /\ Settings \subseteq
           [queue : BOOLEAN, overlap : BOOLEAN, lossy : BOOLEAN, limit : 0 .. MaxJobs]
    /\ MaxAttempts \in Nat \ {0}
    /\ MaxJobs \in Nat /\ MaxDeaths \in Nat
    /\ Slow \in BOOLEAN

Statuses == {"pending", "queued", "rendering", "rendered", "failed", "cancelled"}
Ended == {"rendered", "failed", "cancelled"}
Waiting == {"pending", "queued"}

VARIABLES
    queue,      \* RENDER_QUEUE_ENABLED of this deployment
    jobs,       \* render_jobs in creation order, each with its number of artifacts
    ticks,      \* control point and local variables of every tick
    callers,    \* the same of every synchronous request
    deaths,     \* how many ticks and requests died
    overlap,    \* whether cancellations overlap other statements
    lossy,      \* whether replies of committed statements get lost
    limit,      \* how many renders are requested
    cancel      \* the cancellation statement under way, and the status it saw

unchanging == <<queue, overlap, lossy, limit>>
vars == <<unchanging, jobs, ticks, callers, deaths, cancel>>

\* locked: locked_by IS NOT NULL.  due: next_run_at <= NOW().  stale: started_at
\* is past the threshold.
Job == [status : Statuses, cancelRequested : BOOLEAN, attempts : Nat,
        locked : BOOLEAN, due : BOOLEAN, stale : BOOLEAN, artifacts : Nat]
NewJob(status) ==
    [status |-> status, cancelRequested |-> FALSE, attempts |-> 0,
     locked |-> FALSE, due |-> TRUE, stale |-> FALSE, artifacts |-> 0]

TickPCs == {"idle", "sweep", "sweep_exhausted", "load", "render", "check", "save",
            "cancel", "handle", "cancel_late", "retry", "fail"}
CallerPCs == {"idle", "start", "render", "save", "fail"}

\* job: the job claimed, 0 for none.  attempt: attempt_count as loaded.
IdleTick == [pc |-> "idle", job |-> 0, attempt |-> 0]
IdleCaller == [pc |-> "idle", job |-> 0]
NoCancel == [job |-> 0, old |-> "pending"]

Goto(t, label) == ticks' = [ticks EXCEPT ![t].pc = label]
Finish(t) == ticks' = [ticks EXCEPT ![t] = IdleTick]
Write(j, row) == jobs' = [jobs EXCEPT ![j] = row]
Unlocked(row, status) == [row EXCEPT !.status = status, !.locked = FALSE]

Init ==
    /\ \E s \in Settings :
          queue = s.queue /\ overlap = s.overlap /\ lossy = s.lossy /\ limit = s.limit
    /\ jobs = << >>
    /\ ticks = [t \in Ticks |-> IdleTick]
    /\ callers = [c \in Callers |-> IdleCaller]
    /\ deaths = 0
    /\ cancel = NoCancel

(***************************************************************************)
(* Requesting and cancelling a render                                      *)
(***************************************************************************)
EnqueueRenderJob ==
    /\ queue
    /\ Len(jobs) < limit
    /\ jobs' = Append(jobs, NewJob("queued"))
    /\ UNCHANGED <<unchanging, ticks, callers, deaths, cancel>>

\* The CTE "old" of requestCancellation is read with the statement's snapshot.  A
\* statement that commits between that and the row lock is not seen by it.
ReadOldStatus(j) ==
    /\ overlap
    /\ cancel = NoCancel
    /\ jobs[j].status \notin Ended
    /\ cancel' = [job |-> j, old |-> jobs[j].status]
    /\ UNCHANGED <<unchanging, jobs, ticks, callers, deaths>>

\* Mutant: every job that is not rendering becomes 'cancelled'.
MutantCancelled(row, old) ==
    IF old = "rendering" THEN [row EXCEPT !.cancelRequested = TRUE]
    ELSE [row EXCEPT !.status = "cancelled"]
\* A waiting job is cancelled at once, a rendering one is only asked to stop, and an
\* ended one is left alone.  It is the old status that decides, not the row's.
Cancelled(row, old) ==
    [row EXCEPT !.status = IF old \in Waiting THEN "cancelled" ELSE @,
                !.cancelRequested = @ \/ old = "rendering"]

RequestCancellation(j) ==
    /\ \/ ~overlap /\ Write(j, Cancelled(jobs[j], jobs[j].status))
       \/ cancel.job = j /\ Write(j, Cancelled(jobs[j], cancel.old))
    /\ cancel' = NoCancel
    /\ UNCHANGED <<unchanging, ticks, callers, deaths>>

(***************************************************************************)
(* A poll tick: claim, sweep, then render what was claimed                 *)
(***************************************************************************)
Claimable == {j \in DOMAIN jobs : /\ jobs[j].status \in Waiting
                                  /\ ~jobs[j].cancelRequested
                                  /\ jobs[j].due}

Claimed(row) ==
    [row EXCEPT !.status = "rendering", !.locked = TRUE, !.stale = FALSE,
                !.attempts = row.attempts + 1]

\* claimNext: the oldest claimable job, if any, or a younger one when FOR UPDATE SKIP
\* LOCKED passes over rows that other statements are writing just then.
ClaimNext(t) ==
    /\ queue
    /\ ticks[t].pc = "idle"
    /\ \/ /\ Claimable = {}
          /\ Goto(t, "sweep")
          /\ UNCHANGED jobs
       \/ \E j \in Claimable :
             /\ Write(j, Claimed(jobs[j]))
             /\ ticks' = [ticks EXCEPT ![t].pc = "sweep", ![t].job = j]
    /\ UNCHANGED <<unchanging, callers, deaths, cancel>>

\* Mutant: the sweep does not look at started_at.
MutantSwept(row) == row.status = "rendering" /\ row.locked
\* The rows resetStaleLocks is about.
Swept(row) == row.status = "rendering" /\ row.locked /\ row.stale

\* Mutant: the sweep forgets that the job was asked to stop.
MutantSweptAnew(t) ==
    /\ ticks[t].pc = "sweep"
    /\ jobs' = [j \in DOMAIN jobs |->
          IF Swept(jobs[j]) /\ jobs[j].attempts < MaxAttempts
          THEN [Unlocked(jobs[j], "pending") EXCEPT !.due = TRUE, !.cancelRequested = FALSE]
          ELSE jobs[j]]
    /\ Goto(t, "sweep_exhausted")
    /\ UNCHANGED <<unchanging, callers, deaths, cancel>>
\* Mutant: a swept job gets a status of its own.
MutantSweepStale(t) ==
    /\ ticks[t].pc = "sweep"
    /\ jobs' = [j \in DOMAIN jobs |->
          IF Swept(jobs[j]) /\ jobs[j].attempts < MaxAttempts
          THEN [Unlocked(jobs[j], "stale") EXCEPT !.due = TRUE] ELSE jobs[j]]
    /\ Goto(t, "sweep_exhausted")
    /\ UNCHANGED <<unchanging, callers, deaths, cancel>>

\* resetStaleLocks, first statement: attempts left.
SweepStale(t) ==
    /\ ticks[t].pc = "sweep"
    /\ jobs' = [j \in DOMAIN jobs |->
          IF Swept(jobs[j]) /\ jobs[j].attempts < MaxAttempts
          THEN [Unlocked(jobs[j], "pending") EXCEPT !.due = TRUE] ELSE jobs[j]]
    /\ Goto(t, "sweep_exhausted")
    /\ UNCHANGED <<unchanging, callers, deaths, cancel>>

\* Mutant: the sweep has no second statement.
MutantSweepExhausted(t) ==
    /\ ticks[t].pc = "sweep_exhausted"
    /\ IF ticks[t].job = 0 THEN Finish(t) ELSE Goto(t, "load")
    /\ UNCHANGED <<unchanging, jobs, callers, deaths, cancel>>

\* Second statement: no attempt left.  The heartbeat that follows cannot fail the tick.
SweepExhausted(t) ==
    /\ ticks[t].pc = "sweep_exhausted"
    /\ jobs' = [j \in DOMAIN jobs |->
          IF Swept(jobs[j]) /\ jobs[j].attempts >= MaxAttempts
          THEN Unlocked(jobs[j], "failed") ELSE jobs[j]]
    /\ IF ticks[t].job = 0 THEN Finish(t) ELSE Goto(t, "load")
    /\ UNCHANGED <<unchanging, callers, deaths, cancel>>

LoadJob(t) ==
    /\ ticks[t].pc = "load"
    /\ ticks' = [ticks EXCEPT ![t].pc = "render", ![t].attempt = jobs[ticks[t].job].attempts]
    /\ UNCHANGED <<unchanging, jobs, callers, deaths, cancel>>

\* runRenderPipeline ends in the artifact row.
RunRenderPipeline(t) ==
    LET j == ticks[t].job IN
    /\ ticks[t].pc = "render"
    /\ Write(j, [jobs[j] EXCEPT !.artifacts = @ + 1])
    /\ Goto(t, "check")
    /\ UNCHANGED <<unchanging, callers, deaths, cancel>>

CheckCancellation(t) ==
    /\ ticks[t].pc = "check"
    /\ Goto(t, IF jobs[ticks[t].job].cancelRequested THEN "cancel" ELSE "save")
    /\ UNCHANGED <<unchanging, jobs, callers, deaths, cancel>>

\* Every statement of the try block may throw.
Throw(t) ==
    /\ ticks[t].pc \in {"render", "check", "save", "cancel"}
    /\ Goto(t, "handle")
    /\ UNCHANGED <<unchanging, jobs, callers, deaths, cancel>>

\* markRendered commits and its reply is lost: to the try block it has thrown.  A lost
\* reply of the artifact's INSERT is a Throw at the check, one of markCancelled is undone
\* by nothing, and one outside the try block is a death.
LoseReply(t) ==
    /\ lossy
    /\ ticks[t].pc = "save"
    /\ Write(ticks[t].job, Unlocked(jobs[ticks[t].job], "rendered"))
    /\ Goto(t, "handle")
    /\ UNCHANGED <<unchanging, callers, deaths, cancel>>

\* Mutant: the last attempt is retried too.
MutantRetryable(attempt) == attempt <= MaxAttempts
Retryable(attempt) == attempt < MaxAttempts

\* The catch block; a permanent error is not retried.
HandleError(t) ==
    /\ ticks[t].pc = "handle"
    /\ \/ jobs[ticks[t].job].cancelRequested /\ Goto(t, "cancel_late")
       \/ /\ ~jobs[ticks[t].job].cancelRequested
          /\ \/ Retryable(ticks[t].attempt) /\ Goto(t, "retry")
             \/ Goto(t, "fail")
    /\ UNCHANGED <<unchanging, jobs, callers, deaths, cancel>>

\* The four transitions a tick may end with; each names its row by id only.
EndAttempt(t, labels, row) ==
    /\ ticks[t].pc \in labels
    /\ Write(ticks[t].job, row)
    /\ Finish(t)
    /\ UNCHANGED <<unchanging, callers, deaths, cancel>>
MarkRendered(t) == EndAttempt(t, {"save"}, Unlocked(jobs[ticks[t].job], "rendered"))
MarkCancelled(t) ==
    EndAttempt(t, {"cancel", "cancel_late"}, Unlocked(jobs[ticks[t].job], "cancelled"))
MarkFailed(t) == EndAttempt(t, {"fail"}, Unlocked(jobs[ticks[t].job], "failed"))
MarkRetry(t) ==
    EndAttempt(t, {"retry"}, [Unlocked(jobs[ticks[t].job], "queued") EXCEPT !.due = FALSE])

\* The process dies, or a statement outside the try block throws.
TickDies(t) ==
    /\ ticks[t].pc # "idle"
    /\ deaths < MaxDeaths
    /\ Finish(t)
    /\ deaths' = deaths + 1
    /\ UNCHANGED <<unchanging, jobs, callers, cancel>>

(***************************************************************************)
(* The clock                                                               *)
(***************************************************************************)
BackoffExpires(j) ==
    /\ j \in DOMAIN jobs
    /\ ~jobs[j].due
    /\ Write(j, [jobs[j] EXCEPT !.due = TRUE])
    /\ UNCHANGED <<unchanging, ticks, callers, deaths, cancel>>

\* Unless attempts may be slow, only the attempt of a dead tick gets this old.
LockExpires(j) ==
    /\ j \in DOMAIN jobs
    /\ jobs[j].status = "rendering" /\ jobs[j].locked /\ ~jobs[j].stale
    /\ Slow \/ \A t \in Ticks : ticks[t].job # j
    /\ Write(j, [jobs[j] EXCEPT !.stale = TRUE])
    /\ UNCHANGED <<unchanging, ticks, callers, deaths, cancel>>

(***************************************************************************)
(* Synchronous renders: no lock, no attempt, no retry                      *)
(***************************************************************************)
CreateSync(c) ==
    /\ ~queue
    /\ callers[c].pc = "idle"
    /\ Len(jobs) < limit
    /\ jobs' = Append(jobs, NewJob("pending"))
    /\ callers' = [callers EXCEPT ![c] = [pc |-> "start", job |-> Len(jobs) + 1]]
    /\ UNCHANGED <<unchanging, ticks, deaths, cancel>>

\* updateStatus has no guard: it writes over whatever the status is by now.
UpdateStatus(c, label, status, next) ==
    /\ callers[c].pc = label
    /\ Write(callers[c].job, [jobs[callers[c].job] EXCEPT !.status = status])
    /\ callers' = [callers EXCEPT ![c] = IF next = "idle" THEN IdleCaller
                                         ELSE [@ EXCEPT !.pc = next]]
    /\ UNCHANGED <<unchanging, ticks, deaths, cancel>>
StartSync(c) == UpdateStatus(c, "start", "rendering", "render")
SaveSync(c) == UpdateStatus(c, "save", "rendered", "idle")
FailSync(c) == UpdateStatus(c, "fail", "failed", "idle")

RenderSync(c) ==
    LET j == callers[c].job IN
    /\ \/ /\ callers[c].pc = "render"
          /\ Write(j, [jobs[j] EXCEPT !.artifacts = @ + 1])
          /\ callers' = [callers EXCEPT ![c].pc = "save"]
       \/ /\ callers[c].pc \in {"render", "save"}
          /\ callers' = [callers EXCEPT ![c].pc = "fail"]
          /\ UNCHANGED jobs
    /\ UNCHANGED <<unchanging, ticks, deaths, cancel>>

CallerDies(c) ==
    /\ callers[c].pc # "idle"
    /\ deaths < MaxDeaths
    /\ callers' = [callers EXCEPT ![c] = IdleCaller]
    /\ deaths' = deaths + 1
    /\ UNCHANGED <<unchanging, jobs, ticks, cancel>>

-----------------------------------------------------------------------------
Ending(t) == MarkRendered(t) \/ MarkCancelled(t) \/ MarkFailed(t) \/ MarkRetry(t)
TickStep(t) ==
    \/ ClaimNext(t) \/ SweepStale(t) \/ SweepExhausted(t) \/ LoadJob(t)
    \/ RunRenderPipeline(t) \/ CheckCancellation(t) \/ Throw(t) \/ HandleError(t)
    \/ Ending(t)
CallerStep(c) == StartSync(c) \/ RenderSync(c) \/ SaveSync(c) \/ FailSync(c)
Clock(j) == BackoffExpires(j) \/ LockExpires(j)

Next ==
    \/ EnqueueRenderJob
    \/ \E j \in DOMAIN jobs : ReadOldStatus(j) \/ RequestCancellation(j) \/ Clock(j)
    \/ \E t \in Ticks : TickStep(t) \/ TickDies(t) \/ LoseReply(t)
    \/ \E c \in Callers : CreateSync(c) \/ CallerStep(c) \/ CallerDies(c)

Spec == Init /\ [][Next]_vars

\* setInterval keeps starting ticks, statements return, and time passes.  Nobody
\* has to request, cancel or die.
Fairness ==
    /\ \A t \in Ticks : WF_vars(TickStep(t))
    /\ \A c \in Callers : WF_vars(CallerStep(c))
    /\ \A j \in 1 .. MaxJobs : WF_vars(Clock(j))
FairSpec == Spec /\ Fairness

-----------------------------------------------------------------------------
(***************************************************************************)
(* Properties                                                              *)
(***************************************************************************)
Tick == [pc : TickPCs, job : Nat, attempt : Nat]
Caller == [pc : CallerPCs, job : Nat]

\* Every row and every local variable holds values of its type.
TypeOK ==
    /\ queue \in BOOLEAN
    /\ jobs \in Seq(Job)
    /\ ticks \in [Ticks -> Tick]
    /\ callers \in [Callers -> Caller]
    /\ deaths \in Nat
    /\ overlap \in BOOLEAN /\ lossy \in BOOLEAN /\ limit \in 0 .. MaxJobs
    /\ cancel \in [job : Nat, old : Statuses]

\* While attempts end before the stale threshold, no job is rendered by two
\* ticks at once: a sweep only takes jobs away from ticks that died.
OneTickPerJob ==
    \A t, u \in Ticks : t # u /\ ticks[t].job # 0 => ticks[t].job # ticks[u].job

\* "First attempt + 2 retries": no sequence of retries, sweeps and deaths gives
\* a job more attempts than RENDER_JOB_MAX_ATTEMPTS.
AttemptsBounded == \A j \in DOMAIN jobs : jobs[j].attempts <= MaxAttempts

\* In queue mode, while cancellations see the row they write and no reply of the database
\* is lost, ticks, sweeps and cancellations together do to a row only what RenderPromise
\* allows:
\* rendered, failed and cancelled are final, only an attempt under way ends or returns,
\* and only what was asked to stop is cancelled by a worker.
promised == IF queue /\ ~overlap /\ ~lossy
            THEN [j \in DOMAIN jobs |-> [status |-> jobs[j].status,
                                        asked |-> jobs[j].cancelRequested,
                                        attempts |-> jobs[j].attempts,
                                        file |-> jobs[j].artifacts > 0]]
            ELSE << >>
Promise == INSTANCE RenderPromise WITH renders <- promised
KeepsRenderPromise == Promise!RenderSpec

\* A job that was attempted n times and not delivered.
Undelivered(j, n) ==
    /\ j \in DOMAIN jobs
    /\ jobs[j].attempts = n /\ jobs[j].status # "rendered"
\* A queued job that was asked to stop during its n-th attempt, before that attempt
\* passed the last look at the request (render-worker.ts, after the pipeline).
Stopped(j, n) ==
    /\ queue /\ Undelivered(j, n)
    /\ jobs[j].cancelRequested
    /\ \A t \in Ticks : ticks[t].job = j => ticks[t].pc # "save"

\* Such a job stays stopped for good: whatever errors, retries, deaths, sweeps and late
\* results follow in whatever order, it is never attempted again and never delivered.
StopsForGood ==
    \A j \in 1 .. MaxJobs, n \in 1 .. MaxAttempts :
        [](Stopped(j, n) => []Undelivered(j, n))

\* No job is lost: every queued job ends, however often ticks throw or die - except
\* one that was asked to stop and then sent back to waiting, by a sweep or by a retry
\* that was already decided: it is never claimed again, and only cancelling ends it.
Stranded(j) == jobs[j].status \in Waiting /\ jobs[j].cancelRequested
EveryJobEnds ==
    \A j \in 1 .. MaxJobs :
        queue /\ j \in DOMAIN jobs ~>
            j \in DOMAIN jobs /\ (jobs[j].status \in Ended \/ Stranded(j))

\* What requestCancellation says of itself, whatever it overlaps: ended jobs are left
\* as they are, and a job is cancelled at once only while nothing has claimed it, so
\* that no attempt writes over the cancellation.
CancelIsFinal ==
    [][\A j \in DOMAIN jobs :
          queue /\ jobs[j].status \in Ended => jobs'[j].status = jobs[j].status]_vars
=============================================================================
