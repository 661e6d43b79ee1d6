-------------------------- MODULE RenderQueueProofs --------------------------
(***************************************************************************)
(* Proofs about RenderQueue, for any number of ticks, requests, jobs and   *)
(* attempts.  TypeInv is TypeOK with what the code's local variables       *)
(* promise about the table; ClaimInv says what a tick that has claimed a   *)
(* job may rely on while no attempt outlives the stale threshold.          *)
(***************************************************************************)
EXTENDS RenderQueue, TLAPS

-----------------------------------------------------------------------------
(***************************************************************************)
(* Type correctness                                                        *)
(***************************************************************************)
Sweeping == {"sweep", "sweep_exhausted"}
\* A tick that is past its sweep works on a row, and so does a request.
TickNamesRow(tick) ==
    /\ tick.job \in {0} \cup DOMAIN jobs
    /\ tick.pc = "idle" => tick.job = 0
    /\ tick.pc \notin Sweeping \cup {"idle"} => tick.job # 0
TypeInv ==
    /\ TypeOK
    /\ \A t \in Ticks : TickNamesRow(ticks[t])
    /\ \A c \in Callers : callers[c].pc # "idle" => callers[c].job \in DOMAIN jobs
    /\ cancel.job \in {0} \cup DOMAIN jobs
    /\ cancel.job # 0 => overlap

\* What is known of a row of the table.
LEMMA RowFields ==
    ASSUME jobs \in Seq(Job), NEW j \in DOMAIN jobs
    PROVE  /\ j \in Nat \ {0} /\ jobs[j] \in Job
           /\ jobs[j].status \in Statuses
           /\ jobs[j].attempts \in Nat /\ jobs[j].artifacts \in Nat
<1>1. j \in Nat \ {0} /\ jobs[j] \in Job
  OBVIOUS
<1> QED
  BY <1>1 DEF Job

\* The row a statement writes still has the type of a row.
LEMMA RowTypes ==
    ASSUME NEW row \in Job, NEW status \in Statuses, NEW old \in Statuses
    PROVE  /\ NewJob(status) \in Job
           /\ Cancelled(row, old) \in Job
           /\ Claimed(row) \in Job
           /\ Unlocked(row, status) \in Job
           /\ [Unlocked(row, status) EXCEPT !.due = TRUE] \in Job
           /\ [Unlocked(row, status) EXCEPT !.due = FALSE] \in Job
           /\ [row EXCEPT !.artifacts = @ + 1] \in Job
           /\ [row EXCEPT !.status = status] \in Job
           /\ [row EXCEPT !.due = TRUE] \in Job
           /\ [row EXCEPT !.stale = TRUE] \in Job
<1>1. NewJob(status) \in Job
  BY DEF Job, NewJob
<1>2. Cancelled(row, old) \in Job
  BY DEF Job, Cancelled, Statuses
<1>3. Claimed(row) \in Job
  <2>1. row.attempts + 1 \in Nat
    BY DEF Job
  <2> QED
    BY <2>1 DEF Job, Claimed, Statuses
<1>4. Unlocked(row, status) \in Job
  BY DEF Job, Unlocked
<1>5. ASSUME NEW q \in Job, NEW d \in BOOLEAN
      PROVE  [q EXCEPT !.due = d] \in Job /\ [q EXCEPT !.stale = d] \in Job
  BY DEF Job
<1>6. [row EXCEPT !.artifacts = @ + 1] \in Job
  BY DEF Job
<1>7. [row EXCEPT !.status = status] \in Job
  BY DEF Job
<1> QED
  BY <1>1, <1>2, <1>3, <1>4, <1>5, <1>6, <1>7

\* Writing a row of the table leaves a table of the same length.
LEMMA WriteTypes ==
    ASSUME jobs \in Seq(Job), NEW j \in DOMAIN jobs, NEW row \in Job, Write(j, row)
    PROVE  jobs' \in Seq(Job) /\ DOMAIN jobs' = DOMAIN jobs
  BY DEF Write

\* A statement of a tick, of a request, or of anybody else: what it has to keep for
\* the table and the local variables to stay well typed.
LEMMA TickMoves ==
    ASSUME TypeInv, NEW t \in Ticks, NEW tick \in Tick,
           ticks' = [ticks EXCEPT ![t] = tick],
           TickNamesRow(tick),
           jobs' \in Seq(Job), DOMAIN jobs' = DOMAIN jobs,
           deaths' \in Nat, UNCHANGED <<queue, overlap, lossy, limit, callers, cancel>>
    PROVE  TypeInv'
<1>1. ticks' \in [Ticks -> Tick]
  BY DEF TypeInv, TypeOK
<1>2. ASSUME NEW u \in Ticks PROVE TickNamesRow(ticks[u])'
  BY DEF TypeInv, TypeOK, TickNamesRow
<1> QED
  BY <1>1, <1>2 DEF TypeInv, TypeOK

LEMMA CallerMoves ==
    ASSUME TypeInv, NEW c \in Callers, NEW caller \in Caller,
           callers' = [callers EXCEPT ![c] = caller],
           jobs' \in Seq(Job), DOMAIN jobs \subseteq DOMAIN jobs',
           caller.pc # "idle" => caller.job \in DOMAIN jobs',
           deaths' \in Nat, UNCHANGED <<queue, overlap, lossy, limit, ticks, cancel>>
    PROVE  TypeInv'
<1>1. callers' \in [Callers -> Caller]
  BY DEF TypeInv, TypeOK
<1>2. ASSUME NEW d \in Callers, callers'[d].pc # "idle"
      PROVE  callers'[d].job \in DOMAIN jobs'
  BY <1>2 DEF TypeInv, TypeOK
<1> QED
  BY <1>1, <1>2 DEF TypeInv, TypeOK, TickNamesRow

LEMMA RowsMove ==
    ASSUME TypeInv, jobs' \in Seq(Job), DOMAIN jobs \subseteq DOMAIN jobs',
           cancel' = cancel \/ cancel' = NoCancel
              \/ \E j \in DOMAIN jobs : cancel' = [job |-> j, old |-> jobs[j].status],
           cancel'.job # 0 => overlap,
           UNCHANGED <<queue, overlap, lossy, limit, deaths, ticks, callers>>
    PROVE  TypeInv'
<1>1. cancel' \in [job : Nat, old : Statuses] /\ cancel'.job \in {0} \cup DOMAIN jobs'
  <2>1. CASE cancel' = cancel
    BY <2>1 DEF TypeInv, TypeOK
  <2>2. CASE cancel' = NoCancel
    BY <2>2 DEF NoCancel, Statuses
  <2>3. ASSUME NEW j \in DOMAIN jobs, cancel' = [job |-> j, old |-> jobs[j].status]
        PROVE  cancel' \in [job : Nat, old : Statuses] /\ cancel'.job \in {0} \cup DOMAIN jobs'
    <3>1. j \in Nat /\ jobs[j].status \in Statuses
      BY RowFields DEF TypeInv, TypeOK
    <3>2. cancel' \in [job : Nat, old : Statuses]
      BY <2>3, <3>1
    <3>3. cancel'.job \in DOMAIN jobs'
      BY <2>3
    <3> QED
      BY <3>2, <3>3
  <2> QED
    BY <2>1, <2>2, <2>3
<1> QED
  BY <1>1 DEF TypeInv, TypeOK, TickNamesRow

\* A request for a render adds a row.
LEMMA AppendTypes ==
    ASSUME jobs \in Seq(Job), NEW status \in Statuses, jobs' = Append(jobs, NewJob(status))
    PROVE  /\ jobs' \in Seq(Job)
           /\ DOMAIN jobs \subseteq DOMAIN jobs'
           /\ Len(jobs) + 1 \in DOMAIN jobs'
  BY DEF NewJob, Job

\* Both statements of a sweep write rows in place.
LEMMA SweepTypes ==
    ASSUME jobs \in Seq(Job), NEW t \in Ticks, SweepStale(t) \/ SweepExhausted(t)
    PROVE  jobs' \in Seq(Job) /\ DOMAIN jobs' = DOMAIN jobs
<1>1. /\ "pending" \in Statuses /\ "failed" \in Statuses
  BY DEF Statuses
<1>2. ASSUME NEW j \in DOMAIN jobs PROVE jobs'[j] \in Job
  <2>1. jobs[j] \in Job
    OBVIOUS
  <2>2. /\ [Unlocked(jobs[j], "pending") EXCEPT !.due = TRUE] \in Job
        /\ Unlocked(jobs[j], "failed") \in Job
    BY <1>1, <2>1, RowTypes, Zenon
  <2> QED
    BY <2>1, <2>2 DEF SweepStale, SweepExhausted
<1>3. jobs' = [j \in 1 .. Len(jobs) |-> jobs'[j]] /\ Len(jobs) \in Nat
  BY DEF SweepStale, SweepExhausted
<1> QED
  BY <1>2, <1>3

\* Where a tick goes with its local variables.
LEMMA GotoTypes ==
    ASSUME TypeInv, NEW t \in Ticks, NEW label \in TickPCs \ {"idle"},
           ticks[t].pc # "idle",
           label \in Sweeping \/ ticks[t].job # 0,
           Goto(t, label),
           jobs' \in Seq(Job), DOMAIN jobs' = DOMAIN jobs,
           UNCHANGED <<queue, overlap, lossy, limit, callers, deaths, cancel>>
    PROVE  TypeInv'
<1> DEFINE tick == [ticks[t] EXCEPT !.pc = label]
<1>1. ticks[t] \in Tick /\ TickNamesRow(ticks[t])
  BY DEF TypeInv, TypeOK
<1>2. tick \in Tick /\ TickNamesRow(tick)
  BY <1>1 DEF Tick, TickNamesRow
<1>3. ticks' = [ticks EXCEPT ![t] = tick]
  BY DEF Goto
<1>4. deaths' \in Nat
  BY DEF TypeInv, TypeOK
<1> HIDE DEF tick
<1> QED
  BY <1>2, <1>3, <1>4, TickMoves

LEMMA FinishTypes ==
    ASSUME TypeInv, NEW t \in Ticks, Finish(t),
           jobs' \in Seq(Job), DOMAIN jobs' = DOMAIN jobs,
           deaths' \in Nat, UNCHANGED <<queue, overlap, lossy, limit, callers, cancel>>
    PROVE  TypeInv'
<1>1. IdleTick \in Tick /\ TickNamesRow(IdleTick)
  BY DEF IdleTick, Tick, TickPCs, TickNamesRow, Sweeping
<1> QED
  BY <1>1, TickMoves DEF Finish

LEMMA TypeInit == ASSUME Init PROVE TypeInv
  BY QueueAssumption
     DEF Init, TypeInv, TypeOK, IdleTick, IdleCaller, NoCancel, Tick, TickPCs, Caller, CallerPCs,
         Statuses, TickNamesRow, Sweeping

LEMMA TickTypes ==
    ASSUME TypeInv, NEW t \in Ticks, TickStep(t) \/ TickDies(t) \/ LoseReply(t)
    PROVE  TypeInv'
<1> USE DEF unchanging
<1>0. /\ jobs \in Seq(Job) /\ deaths \in Nat
      /\ ticks[t] \in Tick /\ TickNamesRow(ticks[t])
  BY DEF TypeInv, TypeOK
<1>1. CASE ClaimNext(t)
  <2>1. CASE Goto(t, "sweep") /\ UNCHANGED jobs
    <3>1. ticks' = [ticks EXCEPT ![t] = [ticks[t] EXCEPT !.pc = "sweep"]]
      BY <2>1 DEF Goto
    <3>2. [ticks[t] EXCEPT !.pc = "sweep"] \in Tick
      BY <1>0 DEF Tick, TickPCs
    <3>3. TickNamesRow([ticks[t] EXCEPT !.pc = "sweep"])
      BY <1>0 DEF TickNamesRow, Sweeping, Tick
    <3> QED
      BY <1>0, <1>1, <2>1, <3>1, <3>2, <3>3, TickMoves DEF ClaimNext
  <2>2. ASSUME NEW j \in Claimable, Write(j, Claimed(jobs[j])),
               ticks' = [ticks EXCEPT ![t].pc = "sweep", ![t].job = j]
        PROVE  TypeInv'
    <3>1. j \in DOMAIN jobs /\ jobs[j] \in Job /\ j \in Nat
      BY <1>0 DEF Claimable
    <3>2. jobs' \in Seq(Job) /\ DOMAIN jobs' = DOMAIN jobs
      BY <1>0, <2>2, <3>1, RowTypes, WriteTypes DEF Statuses
    <3> DEFINE tick == [ticks[t] EXCEPT !.pc = "sweep", !.job = j]
    <3>3. ticks' = [ticks EXCEPT ![t] = tick]
      BY <1>0, <2>2 DEF Tick, TypeInv, TypeOK
    <3>4. tick \in Tick /\ TickNamesRow(tick)
      BY <1>0, <3>1 DEF Tick, TickPCs, TickNamesRow, Sweeping
    <3> HIDE DEF tick
    <3> QED
      BY <1>0, <1>1, <3>2, <3>3, <3>4, TickMoves DEF ClaimNext
  <2> QED
    BY <1>1, <2>1, <2>2 DEF ClaimNext
<1>2. CASE SweepStale(t)
  BY <1>0, <1>2, SweepTypes, GotoTypes DEF SweepStale, Sweeping, TickPCs
<1>3. CASE SweepExhausted(t)
  BY <1>0, <1>3, SweepTypes, GotoTypes, FinishTypes DEF SweepExhausted, TickPCs
<1>4. CASE LoadJob(t)
  <2>1. ticks[t].job \in DOMAIN jobs
    BY <1>0, <1>4 DEF LoadJob, TickNamesRow, Sweeping
  <2>2. jobs[ticks[t].job].attempts \in Nat
    BY <1>0, <2>1, RowFields
  <2> DEFINE tick == [ticks[t] EXCEPT !.pc = "render", !.attempt = jobs[ticks[t].job].attempts]
  <2>3. ticks' = [ticks EXCEPT ![t] = tick]
    BY <1>0, <1>4 DEF LoadJob, Tick, TypeInv, TypeOK
  <2>4. tick \in Tick
    BY <1>0, <2>2 DEF Tick, TickPCs
  <2>5. TickNamesRow(tick)
    BY <1>0, <1>4, <2>1 DEF LoadJob, Tick, TickNamesRow, Sweeping
  <2> HIDE DEF tick
  <2> QED
    BY <1>0, <1>4, <2>3, <2>4, <2>5, TickMoves DEF LoadJob
<1>5. CASE RunRenderPipeline(t)
  <2>1. ticks[t].job \in DOMAIN jobs /\ ticks[t].pc # "idle" /\ ticks[t].job # 0
    BY <1>0, <1>5 DEF RunRenderPipeline, TickNamesRow, Sweeping
  <2>2. [jobs[ticks[t].job] EXCEPT !.artifacts = @ + 1] \in Job
    BY <1>0, <2>1, RowFields, RowTypes
  <2>3. jobs' \in Seq(Job) /\ DOMAIN jobs' = DOMAIN jobs
    BY <1>0, <1>5, <2>1, <2>2, WriteTypes DEF RunRenderPipeline
  <2> QED
    BY <1>5, <2>1, <2>3, GotoTypes DEF RunRenderPipeline, TickPCs
<1>6. CASE CheckCancellation(t) \/ Throw(t) \/ HandleError(t)
  <2>1. ticks[t].pc # "idle" /\ ticks[t].job # 0
    BY <1>0, <1>6 DEF CheckCancellation, Throw, HandleError, TickNamesRow, Sweeping
  <2>2. PICK label \in {"cancel", "save", "handle", "cancel_late", "retry", "fail"} :
              Goto(t, label)
    BY <1>6 DEF CheckCancellation, Throw, HandleError
  <2> QED
    BY <1>0, <1>6, <2>1, <2>2, GotoTypes DEF CheckCancellation, Throw, HandleError, TickPCs
<1>7. CASE Ending(t)
  <2>1. PICK labels \in SUBSET {"save", "cancel", "cancel_late", "fail", "retry"},
             row \in {Unlocked(jobs[ticks[t].job], status) : status \in Statuses}
                     \cup {[Unlocked(jobs[ticks[t].job], "queued") EXCEPT !.due = FALSE]} :
              EndAttempt(t, labels, row)
    BY <1>7 DEF Ending, MarkRendered, MarkCancelled, MarkFailed, MarkRetry, Statuses
  <2>2. ticks[t].job \in DOMAIN jobs
    BY <1>0, <2>1 DEF EndAttempt, TickNamesRow, Sweeping
  <2>3. "queued" \in Statuses /\ jobs[ticks[t].job] \in Job
    BY <1>0, <2>2 DEF Statuses
  <2>4. row \in Job
    BY <2>1, <2>3, RowTypes, Zenon
  <2>5. jobs' \in Seq(Job) /\ DOMAIN jobs' = DOMAIN jobs
    BY <1>0, <2>1, <2>2, <2>4, WriteTypes DEF EndAttempt
  <2> QED
    BY <1>0, <2>1, <2>5, FinishTypes DEF EndAttempt
<1>8. CASE TickDies(t)
  BY <1>0, <1>8, FinishTypes DEF TickDies
<1>9. CASE LoseReply(t)
  <2>1. ticks[t].job \in DOMAIN jobs /\ ticks[t].pc # "idle" /\ ticks[t].job # 0
    BY <1>0, <1>9 DEF LoseReply, TickNamesRow, Sweeping
  <2>2. Unlocked(jobs[ticks[t].job], "rendered") \in Job
    BY <1>0, <2>1, RowFields, RowTypes DEF Statuses
  <2>3. jobs' \in Seq(Job) /\ DOMAIN jobs' = DOMAIN jobs
    BY <1>0, <1>9, <2>1, <2>2, WriteTypes DEF LoseReply
  <2> QED
    BY <1>0, <1>9, <2>1, <2>3, GotoTypes DEF LoseReply, TickPCs
<1> QED
  BY <1>1, <1>2, <1>3, <1>4, <1>5, <1>6, <1>7, <1>8, <1>9 DEF TickStep

LEMMA CallerTypes ==
    ASSUME TypeInv, NEW c \in Callers, CreateSync(c) \/ CallerStep(c) \/ CallerDies(c)
    PROVE  TypeInv'
<1> USE DEF unchanging
<1>0. /\ jobs \in Seq(Job) /\ deaths \in Nat
      /\ callers[c] \in Caller /\ IdleCaller \in Caller
      /\ callers[c].pc # "idle" => callers[c].job \in DOMAIN jobs
  BY DEF TypeInv, TypeOK, IdleCaller, Caller, CallerPCs
<1>1. CASE CreateSync(c)
  <2>1. /\ jobs' \in Seq(Job) /\ DOMAIN jobs \subseteq DOMAIN jobs'
        /\ Len(jobs) + 1 \in DOMAIN jobs'
    BY <1>0, <1>1, AppendTypes DEF CreateSync, Statuses
  <2>2. [pc |-> "start", job |-> Len(jobs) + 1] \in Caller
    BY <1>0 DEF Caller, CallerPCs
  <2> QED
    BY <1>0, <1>1, <2>1, <2>2, CallerMoves DEF CreateSync
<1>2. ASSUME NEW label \in CallerPCs \ {"idle"}, NEW status \in Statuses,
             NEW next \in CallerPCs, UpdateStatus(c, label, status, next)
      PROVE  TypeInv'
  <2>1. callers[c].job \in DOMAIN jobs /\ jobs[callers[c].job] \in Job
    BY <1>0, <1>2 DEF UpdateStatus
  <2>2. jobs' \in Seq(Job) /\ DOMAIN jobs' = DOMAIN jobs
    BY <1>0, <1>2, <2>1, RowTypes, WriteTypes DEF UpdateStatus
  <2> DEFINE caller == IF next = "idle" THEN IdleCaller ELSE [callers[c] EXCEPT !.pc = next]
  <2>3. caller \in Caller /\ (caller.pc # "idle" => caller.job = callers[c].job)
    BY <1>0 DEF Caller, IdleCaller
  <2>4. callers' = [callers EXCEPT ![c] = caller]
    BY <1>2 DEF UpdateStatus
  <2> HIDE DEF caller
  <2> QED
    BY <1>0, <1>2, <2>1, <2>2, <2>3, <2>4, CallerMoves DEF UpdateStatus
<1>3. CASE RenderSync(c)
  <2>1. callers[c].job \in DOMAIN jobs /\ jobs[callers[c].job] \in Job
    BY <1>0, <1>3 DEF RenderSync
  <2>2. PICK next \in {"save", "fail"} : callers' = [callers EXCEPT ![c].pc = next]
    BY <1>3 DEF RenderSync
  <2>3. jobs' \in Seq(Job) /\ DOMAIN jobs' = DOMAIN jobs
    BY <1>0, <1>3, <2>1, RowTypes, WriteTypes DEF RenderSync, Statuses
  <2> DEFINE caller == [callers[c] EXCEPT !.pc = next]
  <2>4. caller \in Caller /\ caller.job = callers[c].job
    BY <1>0, <2>2 DEF Caller, CallerPCs
  <2>5. callers' = [callers EXCEPT ![c] = caller]
    BY <2>2
  <2> HIDE DEF caller
  <2> QED
    BY <1>0, <1>3, <2>1, <2>3, <2>4, <2>5, CallerMoves DEF RenderSync
<1>4. CASE CallerDies(c)
  <2>1. DOMAIN jobs' = DOMAIN jobs /\ jobs' \in Seq(Job) /\ deaths' \in Nat
    BY <1>0, <1>4 DEF CallerDies
  <2> QED
    BY <1>0, <1>4, <2>1, CallerMoves DEF CallerDies, IdleCaller
<1>5. ASSUME CallerStep(c), ~RenderSync(c)
      PROVE  \E label \in CallerPCs \ {"idle"}, status \in Statuses, next \in CallerPCs :
                UpdateStatus(c, label, status, next)
  BY <1>5 DEF CallerStep, StartSync, SaveSync, FailSync, CallerPCs, Statuses
<1> QED
  BY <1>1, <1>2, <1>3, <1>4, <1>5

LEMMA OtherTypes ==
    ASSUME TypeInv,
           \/ EnqueueRenderJob
           \/ \E j \in DOMAIN jobs : ReadOldStatus(j) \/ RequestCancellation(j) \/ Clock(j)
    PROVE  TypeInv'
<1> USE DEF unchanging
<1>0. /\ jobs \in Seq(Job) /\ cancel.old \in Statuses /\ "queued" \in Statuses
      /\ \A j \in DOMAIN jobs : jobs[j] \in Job /\ jobs[j].status \in Statuses
      /\ cancel.job # 0 => overlap
      /\ NoCancel.job = 0
  BY RowFields DEF TypeInv, TypeOK, Statuses, NoCancel
<1>1. CASE EnqueueRenderJob
  BY <1>0, <1>1, AppendTypes, RowsMove DEF EnqueueRenderJob
<1>2. ASSUME NEW j \in DOMAIN jobs, ReadOldStatus(j) PROVE TypeInv'
  BY <1>0, <1>2, RowsMove DEF ReadOldStatus
<1>3. ASSUME NEW j \in DOMAIN jobs, RequestCancellation(j) PROVE TypeInv'
  <2>1. PICK old \in Statuses : Write(j, Cancelled(jobs[j], old))
    BY <1>0, <1>3 DEF RequestCancellation
  <2>2. jobs' \in Seq(Job) /\ DOMAIN jobs' = DOMAIN jobs
    BY <1>0, <2>1, RowTypes, WriteTypes
  <2>3. cancel' = NoCancel /\ UNCHANGED <<queue, overlap, lossy, limit, deaths, ticks, callers>>
    BY <1>3 DEF RequestCancellation
  <2> QED
    BY <1>0, <2>2, <2>3, RowsMove
<1>4. ASSUME NEW j \in DOMAIN jobs, Clock(j) PROVE TypeInv'
  <2>1. PICK row \in {[jobs[j] EXCEPT !.due = TRUE], [jobs[j] EXCEPT !.stale = TRUE]} :
           Write(j, row)
    BY <1>4 DEF Clock, BackoffExpires, LockExpires
  <2>2. row \in Job
    BY <1>0, <2>1, RowTypes, Zenon
  <2>3. jobs' \in Seq(Job) /\ DOMAIN jobs' = DOMAIN jobs
    BY <1>0, <2>1, <2>2, WriteTypes
  <2>4. cancel' = cancel /\ UNCHANGED <<queue, overlap, lossy, limit, deaths, ticks, callers>>
    BY <1>4 DEF Clock, BackoffExpires, LockExpires
  <2> QED
    BY <1>0, <2>3, <2>4, RowsMove
<1> QED
  BY <1>1, <1>2, <1>3, <1>4

LEMMA TypePreserved == ASSUME TypeInv, [Next]_vars PROVE TypeInv'
<1>1. CASE UNCHANGED vars
  BY <1>1 DEF vars, unchanging, TypeInv, TypeOK, TickNamesRow
<1> QED
  BY <1>1, TickTypes, CallerTypes, OtherTypes DEF Next

\* Every row and every local variable holds values of its type, and a tick or a
\* request that writes a row writes one that exists: whatever retries, sweeps,
\* cancellations and deaths do to it, a job is never removed.
THEOREM TypeInvariant == Spec => []TypeInv
<1> QED
  BY TypeInit, TypePreserved, PTL DEF Spec

\* TypeOK for every deployment, with slow attempts and overlapping cancellations too.
THEOREM TypeCorrect == Spec => []TypeOK
<1>1. TypeInv => TypeOK
  BY DEF TypeInv
<1> QED
  BY <1>1, TypeInvariant, PTL

-----------------------------------------------------------------------------
(***************************************************************************)
(* Claims, while attempts end before the stale threshold                   *)
(*                                                                         *)
(* A tick that has claimed a job is the only one, its row is neither       *)
(* waiting nor stale, and the attempt it remembers is the row's.  So the   *)
(* decision to retry, made long before the row is written, is still right  *)
(* when it is written.                                                     *)
(***************************************************************************)
Unrendered == Sweeping \cup {"load", "render"}

RowOK(row) ==
    /\ row.attempts <= MaxAttempts
    /\ row.status \in Waiting => row.attempts < MaxAttempts
    /\ row.status = "rendered" => row.artifacts > 0
    /\ queue => row.artifacts <= row.attempts

TickOK(tick, row) ==
    /\ queue
    /\ \/ row.status = "rendering"
       \/ overlap /\ row.status = "cancelled"
       \/ lossy /\ row.status = "rendered"
    /\ ~row.stale
    /\ tick.pc \in Unrendered => row.artifacts < row.attempts
    /\ tick.pc \notin Sweeping \cup {"load"} => tick.attempt = row.attempts
    /\ tick.pc = "retry" => tick.attempt < MaxAttempts
    /\ tick.pc \in {"check", "save"} => row.artifacts > 0
    /\ tick.pc \in {"cancel", "cancel_late"} => row.cancelRequested

CallerOK(caller, row) ==
    /\ ~queue
    /\ caller.pc = "save" => row.artifacts > 0

ClaimInv ==
    /\ \A j \in DOMAIN jobs : RowOK(jobs[j])
    /\ \A t \in Ticks : ticks[t].job # 0 => TickOK(ticks[t], jobs[ticks[t].job])
    /\ OneTickPerJob
    /\ \A c \in Callers : callers[c].pc # "idle" => CallerOK(callers[c], jobs[callers[c].job])

\* Rows that no tick has claimed, or all ticks keep their jobs: nobody gains a job.
LEMMA NobodyGains ==
    ASSUME ClaimInv,
           \A j \in DOMAIN jobs' : RowOK(jobs[j])',
           \A t \in Ticks : /\ ticks'[t].job \in {0, ticks[t].job}
                            /\ ticks'[t].job # 0 => TickOK(ticks[t], jobs[ticks[t].job])',
           \A c \in Callers : callers'[c].pc # "idle" => CallerOK(callers[c], jobs[callers[c].job])'
    PROVE  ClaimInv'
<1>1. OneTickPerJob'
  BY DEF ClaimInv, OneTickPerJob
<1> QED
  BY <1>1 DEF ClaimInv

\* A tick writes the row it has claimed: the others see no difference.
LEMMA ClaimedRowWritten ==
    ASSUME TypeInv, ClaimInv, NEW t \in Ticks, ticks[t].job # 0,
           DOMAIN jobs' = DOMAIN jobs,
           \A k \in DOMAIN jobs : k # ticks[t].job => jobs'[k] = jobs[k],
           \A u \in Ticks : u # t => ticks'[u] = ticks[u],
           ticks'[t].job \in {0, ticks[t].job},
           RowOK(jobs'[ticks[t].job]),
           ticks'[t].job # 0 => TickOK(ticks'[t], jobs'[ticks[t].job]),
           UNCHANGED <<queue, overlap, lossy, limit, callers>>
    PROVE  ClaimInv'
<1>0. /\ ticks[t].job \in DOMAIN jobs /\ queue
      /\ \A u \in Ticks : ticks[u].job \in {0} \cup DOMAIN jobs
  BY DEF TypeInv, TypeOK, TickNamesRow, ClaimInv, TickOK
<1>1. ASSUME NEW j \in DOMAIN jobs' PROVE RowOK(jobs[j])'
  BY <1>0 DEF ClaimInv, RowOK
<1>2. ASSUME NEW u \in Ticks
      PROVE  /\ ticks'[u].job \in {0, ticks[u].job}
             /\ ticks'[u].job # 0 => TickOK(ticks[u], jobs[ticks[u].job])'
  <2>1. CASE u = t
    BY <1>0, <2>1 DEF TickOK
  <2>2. CASE u # t
    <3>1. ticks'[u] = ticks[u] /\ (ticks[u].job # 0 => ticks[u].job # ticks[t].job)
      BY <1>0, <2>2 DEF ClaimInv, OneTickPerJob
    <3>2. ticks[u].job # 0 => jobs'[ticks[u].job] = jobs[ticks[u].job]
      BY <1>0, <3>1
    <3> QED
      BY <1>0, <3>1, <3>2 DEF ClaimInv, TickOK
  <2> QED
    BY <2>1, <2>2
<1>3. \A c \in Callers : callers'[c].pc = "idle"
  BY <1>0 DEF ClaimInv, CallerOK
<1> QED
  BY <1>1, <1>2, <1>3, NobodyGains

LEMMA ClaimInit == ASSUME Init PROVE ClaimInv
  BY DEF Init, ClaimInv, OneTickPerJob, IdleTick, IdleCaller

\* The claim itself: the row was waiting, so nobody else has claimed it.
LEMMA ClaimNextKeeps ==
    ASSUME TypeInv, ClaimInv, NEW t \in Ticks, ClaimNext(t) PROVE ClaimInv'
<1>0. /\ jobs \in Seq(Job) /\ queue /\ ticks \in [Ticks -> Tick] /\ ticks[t] \in Tick
      /\ ticks[t].pc = "idle" /\ ticks[t].job = 0
      /\ UNCHANGED <<queue, overlap, lossy, limit, callers>>
  BY DEF TypeInv, TypeOK, TickNamesRow, ClaimNext, unchanging
<1>1. \A c \in Callers : callers'[c].pc = "idle"
  BY <1>0 DEF ClaimInv, CallerOK
<1>2. CASE Goto(t, "sweep") /\ UNCHANGED jobs
  <2>1. \A u \in Ticks : ticks'[u].job = ticks[u].job /\ (u # t => ticks'[u] = ticks[u])
    BY <1>0, <1>2 DEF Goto, Tick
  <2> QED
    BY <1>0, <1>1, <1>2, <2>1, NobodyGains DEF ClaimInv, RowOK, TickOK
<1>3. ASSUME NEW j \in Claimable, Write(j, Claimed(jobs[j])),
             ticks' = [ticks EXCEPT ![t].pc = "sweep", ![t].job = j]
      PROVE  ClaimInv'
  <2> DEFINE row == Claimed(jobs[j])
  <2>1. /\ j \in DOMAIN jobs /\ j # 0 /\ jobs[j] \in Job
        /\ jobs[j].status \in Waiting
        /\ jobs[j].attempts \in Nat /\ jobs[j].artifacts \in Nat
        /\ RowOK(jobs[j])
    BY <1>0, RowFields DEF Claimable, ClaimInv
  <2>2. /\ row.status = "rendering" /\ ~row.stale
        /\ row.attempts = jobs[j].attempts + 1 /\ row.artifacts = jobs[j].artifacts
    BY <2>1 DEF Claimed, Job
  <2>3. jobs' = [jobs EXCEPT ![j] = row]
    BY <1>3 DEF Write
  <2>4. RowOK(row)
    BY <1>0, <2>1, <2>2, QueueAssumption DEF RowOK, Waiting
  <2> HIDE DEF row
  <2>5. \A u \in Ticks : ticks[u].job # j
    BY <2>1 DEF ClaimInv, TickOK, Waiting
  <2>6. /\ ticks'[t].pc = "sweep" /\ ticks'[t].job = j
        /\ \A u \in Ticks : u # t => ticks'[u] = ticks[u]
    BY <1>0, <1>3 DEF Tick
  <2>7. OneTickPerJob'
    BY <2>5, <2>6 DEF ClaimInv, OneTickPerJob
  <2>8. ASSUME NEW k \in DOMAIN jobs' PROVE RowOK(jobs[k])'
    BY <1>0, <2>1, <2>3, <2>4 DEF ClaimInv, RowOK
  <2>9. ASSUME NEW u \in Ticks, ticks'[u].job # 0
        PROVE  TickOK(ticks[u], jobs[ticks[u].job])'
    <3>1. CASE u = t
      <4>1. jobs'[j] = row
        BY <1>0, <2>1, <2>3
      <4> QED
        BY <1>0, <2>1, <2>2, <2>6, <3>1, <4>1 DEF TickOK, RowOK, Sweeping
    <3>2. CASE u # t
      <4>1. jobs'[ticks[u].job] = jobs[ticks[u].job]
        BY <1>0, <2>3, <2>5, <2>6, <2>9, <3>2 DEF TypeInv, TickNamesRow
      <4> QED
        BY <1>0, <2>6, <2>9, <3>2, <4>1 DEF ClaimInv, TickOK
    <3> QED
      BY <3>1, <3>2
  <2> QED
    BY <1>1, <2>7, <2>8, <2>9 DEF ClaimInv
<1> QED
  BY <1>2, <1>3 DEF ClaimNext

\* The sweep: a stale row belongs to a tick that died.
LEMMA SweepKeeps ==
    ASSUME TypeInv, ClaimInv, NEW t \in Ticks, SweepStale(t) \/ SweepExhausted(t)
    PROVE  ClaimInv'
<1>0. /\ jobs \in Seq(Job) /\ ticks \in [Ticks -> Tick] /\ ticks[t] \in Tick
      /\ ticks[t].pc \in Sweeping
      /\ UNCHANGED <<queue, overlap, lossy, limit, callers>>
      /\ DOMAIN jobs' = DOMAIN jobs
  BY SweepTypes DEF TypeInv, TypeOK, SweepStale, SweepExhausted, Sweeping, unchanging
<1>1. ASSUME NEW j \in DOMAIN jobs
      PROVE  /\ RowOK(jobs[j])'
             /\ ~Swept(jobs[j]) => jobs'[j] = jobs[j]
  <2>1. /\ jobs[j] \in Job /\ RowOK(jobs[j])
    BY <1>0, RowFields DEF ClaimInv
  <2>2. CASE jobs'[j] = jobs[j]
    BY <1>0, <2>1, <2>2 DEF RowOK
  <2>3. CASE /\ Swept(jobs[j]) /\ jobs[j].attempts < MaxAttempts
             /\ jobs'[j] = [Unlocked(jobs[j], "pending") EXCEPT !.due = TRUE]
    BY <1>0, <2>1, <2>3 DEF RowOK, Unlocked, Job
  <2>4. CASE Swept(jobs[j]) /\ jobs'[j] = Unlocked(jobs[j], "failed")
    BY <1>0, <2>1, <2>4 DEF RowOK, Unlocked, Job, Waiting
  <2> QED
    BY <2>2, <2>3, <2>4 DEF SweepStale, SweepExhausted
<1>2. ASSUME NEW u \in Ticks, ticks[u].job # 0
      PROVE  jobs'[ticks[u].job] = jobs[ticks[u].job]
  <2>1. ticks[u].job \in DOMAIN jobs /\ ~Swept(jobs[ticks[u].job])
    BY <1>2 DEF TypeInv, TickNamesRow, ClaimInv, TickOK, Swept
  <2> QED
    BY <1>1, <2>1
<1>3. /\ ticks'[t].job \in {0, ticks[t].job}
      /\ ticks'[t].pc \in Sweeping \cup {"load"} \/ ticks'[t].job = 0
      /\ \A u \in Ticks : u # t => ticks'[u] = ticks[u]
  BY <1>0 DEF SweepStale, SweepExhausted, Goto, Finish, IdleTick, Tick, Sweeping
<1>4. ASSUME NEW u \in Ticks, ticks'[u].job # 0
      PROVE  /\ ticks'[u].job = ticks[u].job
             /\ TickOK(ticks[u], jobs[ticks[u].job])'
  <2>1. ticks'[u].job = ticks[u].job /\ TickOK(ticks[u], jobs[ticks[u].job])
    BY <1>3, <1>4 DEF ClaimInv
  <2>2. CASE u = t
    BY <1>0, <1>2, <1>3, <1>4, <2>1, <2>2 DEF TickOK, Unrendered, Sweeping
  <2>3. CASE u # t
    BY <1>0, <1>2, <1>3, <1>4, <2>1, <2>3 DEF TickOK
  <2> QED
    BY <2>1, <2>2, <2>3
<1>5. ASSUME NEW c \in Callers, callers'[c].pc # "idle"
      PROVE  CallerOK(callers[c], jobs[callers[c].job])'
  <2>1. callers[c].job \in DOMAIN jobs /\ CallerOK(callers[c], jobs[callers[c].job])
    BY <1>0, <1>5 DEF TypeInv, ClaimInv
  <2>2. jobs'[callers[c].job].artifacts = jobs[callers[c].job].artifacts
    <3>1. jobs[callers[c].job] \in Job
      BY <1>0, <2>1, RowFields
    <3> QED
      BY <2>1, <3>1 DEF SweepStale, SweepExhausted, Unlocked, Job
  <2> QED
    BY <1>0, <2>1, <2>2 DEF CallerOK
<1> QED
  BY <1>0, <1>1, <1>4, <1>5, NobodyGains

\* What a tick does with the job it has claimed.
LEMMA AttemptKeeps ==
    ASSUME TypeInv, ClaimInv, NEW t \in Ticks,
           \/ LoadJob(t) \/ RunRenderPipeline(t) \/ CheckCancellation(t) \/ Throw(t)
           \/ HandleError(t) \/ Ending(t)
    PROVE  ClaimInv'
<1> DEFINE j == ticks[t].job
<1>0. /\ jobs \in Seq(Job) /\ ticks \in [Ticks -> Tick] /\ ticks[t] \in Tick
      /\ ticks[t].pc \notin Sweeping \cup {"idle"}
      /\ j # 0 /\ j \in DOMAIN jobs
      /\ UNCHANGED <<queue, overlap, lossy, limit, callers>>
  BY DEF TypeInv, TypeOK, TickNamesRow, LoadJob, RunRenderPipeline, CheckCancellation, Throw,
         HandleError, Ending, MarkRendered, MarkCancelled, MarkFailed, MarkRetry, EndAttempt,
         Sweeping, unchanging
<1>1. /\ jobs[j] \in Job /\ jobs[j].attempts \in Nat /\ jobs[j].artifacts \in Nat
      /\ jobs = [jobs EXCEPT ![j] = jobs[j]]
  BY <1>0, RowFields
<1>2. RowOK(jobs[j]) /\ TickOK(ticks[t], jobs[j]) /\ queue
  BY <1>0 DEF ClaimInv, TickOK
<1>3. ASSUME NEW row, NEW tick, Write(j, row), ticks' = [ticks EXCEPT ![t] = tick],
             tick.job \in {0, j}, RowOK(row), tick.job # 0 => TickOK(tick, row)
      PROVE  ClaimInv'
  <2>1. /\ DOMAIN jobs' = DOMAIN jobs /\ jobs'[j] = row
        /\ \A k \in DOMAIN jobs : k # j => jobs'[k] = jobs[k]
    BY <1>0, <1>3 DEF Write
  <2>2. ticks'[t] = tick /\ \A u \in Ticks : u # t => ticks'[u] = ticks[u]
    BY <1>0, <1>3
  <2> HIDE DEF j
  <2> QED
    BY <1>0, <1>3, <2>1, <2>2, ClaimedRowWritten DEF j
<1>4. ASSUME NEW label \in {"cancel", "save", "handle", "cancel_late", "retry", "fail"},
             Goto(t, label), UNCHANGED jobs,
             ticks[t].pc # "load",
             label = "save" => ticks[t].pc = "check",
             label \in {"cancel", "cancel_late"} => jobs[j].cancelRequested,
             label = "retry" => ticks[t].attempt < MaxAttempts
      PROVE  ClaimInv'
  <2> DEFINE tick == [ticks[t] EXCEPT !.pc = label]
  <2>1. tick.job = j /\ tick.pc = label /\ tick.attempt = ticks[t].attempt
    BY <1>0 DEF Tick
  <2>2. ticks' = [ticks EXCEPT ![t] = tick] /\ Write(j, jobs[j])
    BY <1>1, <1>4 DEF Goto, Write
  <2> HIDE DEF tick
  <2>3. TickOK(tick, jobs[j])
    BY <1>0, <1>2, <1>4, <2>1 DEF TickOK, Unrendered, Sweeping
  <2> QED
    BY <1>2, <1>3, <2>1, <2>2, <2>3
<1>5. CASE LoadJob(t)
  <2> DEFINE tick == [ticks[t] EXCEPT !.pc = "render", !.attempt = jobs[j].attempts]
  <2>1. ticks' = [ticks EXCEPT ![t] = tick] /\ Write(j, jobs[j])
    BY <1>0, <1>1, <1>5 DEF LoadJob, Tick, Write
  <2>2. tick.job = j /\ tick.pc = "render" /\ tick.attempt = jobs[j].attempts
    BY <1>0 DEF Tick
  <2> HIDE DEF tick
  <2>3. TickOK(tick, jobs[j])
    BY <1>2, <1>5, <2>2 DEF TickOK, LoadJob, Unrendered, Sweeping
  <2> QED
    BY <1>2, <1>3, <2>1, <2>2, <2>3
<1>6. CASE RunRenderPipeline(t)
  <2> DEFINE row == [jobs[j] EXCEPT !.artifacts = @ + 1]
             tick == [ticks[t] EXCEPT !.pc = "check"]
  <2>1. ticks' = [ticks EXCEPT ![t] = tick] /\ Write(j, row)
    BY <1>6 DEF RunRenderPipeline, Goto
  <2>2. tick.job = j /\ tick.pc = "check" /\ tick.attempt = ticks[t].attempt
    BY <1>0 DEF Tick
  <2>3. /\ row.artifacts = jobs[j].artifacts + 1 /\ row.attempts = jobs[j].attempts
        /\ row.status = jobs[j].status /\ row.stale = jobs[j].stale
    BY <1>1 DEF Job
  <2>4. ticks[t].pc = "render"
    BY <1>6 DEF RunRenderPipeline
  <2> HIDE DEF row, tick
  <2>5. RowOK(row) /\ TickOK(tick, row)
    BY <1>1, <1>2, <2>2, <2>3, <2>4 DEF RowOK, TickOK, Unrendered, Sweeping
  <2> QED
    BY <1>3, <2>1, <2>2, <2>5
<1>7. CASE CheckCancellation(t) \/ Throw(t) \/ HandleError(t)
  BY <1>4, <1>7 DEF CheckCancellation, Throw, HandleError, Retryable
<1>8. CASE Ending(t)
  <2>1. ASSUME NEW row, NEW labels, EndAttempt(t, labels, row), RowOK(row)
        PROVE  ClaimInv'
    <3>1. ticks' = [ticks EXCEPT ![t] = IdleTick] /\ Write(j, row)
      BY <2>1 DEF EndAttempt, Finish
    <3>2. IdleTick.job = 0
      BY DEF IdleTick
    <3> QED
      BY <1>3, <2>1, <3>1, <3>2
  <2>2. ASSUME NEW status \in Statuses,
               status \notin Waiting, status = "rendered" => jobs[j].artifacts > 0
        PROVE  RowOK(Unlocked(jobs[j], status))
    BY <1>1, <1>2, <2>2 DEF RowOK, Unlocked, Job
  <2>3. CASE MarkRendered(t)
    <3>1. jobs[j].artifacts > 0
      BY <1>2, <2>3 DEF MarkRendered, EndAttempt, TickOK
    <3> QED
      BY <2>1, <2>2, <2>3, <3>1 DEF MarkRendered, Statuses, Waiting
  <2>4. CASE MarkCancelled(t) \/ MarkFailed(t)
    BY <2>1, <2>2, <2>4 DEF MarkCancelled, MarkFailed, Statuses, Waiting
  <2>5. CASE MarkRetry(t)
    <3>1. jobs[j].attempts < MaxAttempts
      BY <1>2, <2>5 DEF MarkRetry, EndAttempt, TickOK, Sweeping
    <3>2. RowOK([Unlocked(jobs[j], "queued") EXCEPT !.due = FALSE])
      BY <1>1, <1>2, <3>1 DEF RowOK, Unlocked, Job
    <3> QED
      BY <2>1, <2>5, <3>2 DEF MarkRetry
  <2> QED
    BY <1>8, <2>3, <2>4, <2>5 DEF Ending
<1> QED
  BY <1>5, <1>6, <1>7, <1>8

LEMMA LoseReplyKeeps ==
    ASSUME TypeInv, ClaimInv, NEW t \in Ticks, LoseReply(t) PROVE ClaimInv'
<1> DEFINE j == ticks[t].job
           row == Unlocked(jobs[j], "rendered")
           tick == [ticks[t] EXCEPT !.pc = "handle"]
<1>0. /\ jobs \in Seq(Job) /\ ticks \in [Ticks -> Tick] /\ ticks[t] \in Tick
      /\ ticks[t].pc = "save" /\ lossy
      /\ j # 0 /\ j \in DOMAIN jobs
      /\ UNCHANGED <<queue, overlap, lossy, limit, callers>>
  BY DEF TypeInv, TypeOK, TickNamesRow, LoseReply, Sweeping, unchanging
<1>1. jobs[j] \in Job /\ RowOK(jobs[j]) /\ TickOK(ticks[t], jobs[j])
  BY <1>0, RowFields DEF ClaimInv
<1>2. /\ row.status = "rendered" /\ row.stale = jobs[j].stale
      /\ row.attempts = jobs[j].attempts /\ row.artifacts = jobs[j].artifacts
      /\ tick.job = j /\ tick.pc = "handle" /\ tick.attempt = ticks[t].attempt
  BY <1>0, <1>1 DEF Job, Tick, Unlocked
<1>3. jobs' = [jobs EXCEPT ![j] = row] /\ ticks' = [ticks EXCEPT ![t] = tick]
  BY DEF LoseReply, Write, Goto
<1> HIDE DEF row, tick
<1>4. RowOK(row) /\ TickOK(tick, row)
  BY <1>0, <1>1, <1>2 DEF RowOK, TickOK, Unrendered, Sweeping, Waiting
<1>5. /\ DOMAIN jobs' = DOMAIN jobs /\ jobs'[j] = row /\ ticks'[t] = tick
      /\ \A k \in DOMAIN jobs : k # j => jobs'[k] = jobs[k]
      /\ \A u \in Ticks : u # t => ticks'[u] = ticks[u]
  BY <1>0, <1>3
<1> HIDE DEF j
<1> QED
  BY <1>0, <1>2, <1>4, <1>5, ClaimedRowWritten DEF j

LEMMA TickDiesKeeps ==
    ASSUME TypeInv, ClaimInv, NEW t \in Ticks, TickDies(t) PROVE ClaimInv'
<1>1. /\ ticks' = [ticks EXCEPT ![t] = IdleTick] /\ ticks \in [Ticks -> Tick]
      /\ UNCHANGED <<queue, overlap, lossy, limit, jobs, callers>>
  BY DEF TickDies, Finish, TypeInv, TypeOK, unchanging
<1>2. ASSUME NEW u \in Ticks
      PROVE  ticks'[u] = ticks[u] \/ ticks'[u].job = 0
  BY <1>1 DEF IdleTick
<1> QED
  BY <1>1, <1>2, NobodyGains DEF ClaimInv, RowOK, TickOK, CallerOK

\* Rows written by somebody who has claimed nothing: a cancellation or the clock.
LEMMA OtherRowWritten ==
    ASSUME TypeInv, ClaimInv, NEW j \in DOMAIN jobs,
           DOMAIN jobs' = DOMAIN jobs,
           \A k \in DOMAIN jobs : k # j => jobs'[k] = jobs[k],
           RowOK(jobs'[j]),
           jobs'[j].artifacts = jobs[j].artifacts,
           \A t \in Ticks : ticks[t].job = j => TickOK(ticks[t], jobs'[j]),
           UNCHANGED <<queue, overlap, lossy, limit, ticks, callers>>
    PROVE  ClaimInv'
<1>1. \A k \in DOMAIN jobs' : RowOK(jobs[k])'
  BY DEF ClaimInv, RowOK
<1>2. ASSUME NEW t \in Ticks, ticks'[t].job # 0
      PROVE  TickOK(ticks[t], jobs[ticks[t].job])'
  <2>1. ticks' = ticks /\ ticks[t].job \in DOMAIN jobs
    BY <1>2 DEF TypeInv, TickNamesRow
  <2> QED
    BY <1>2, <2>1 DEF ClaimInv, TickOK
<1>3. ASSUME NEW c \in Callers, callers'[c].pc # "idle"
      PROVE  CallerOK(callers[c], jobs[callers[c].job])'
  <2>1. callers' = callers /\ callers[c].job \in DOMAIN jobs
    BY <1>3 DEF TypeInv
  <2>2. jobs'[callers[c].job].artifacts = jobs[callers[c].job].artifacts
    BY <2>1
  <2> QED
    BY <1>3, <2>1, <2>2 DEF ClaimInv, CallerOK
<1> QED
  BY <1>1, <1>2, <1>3, NobodyGains

LEMMA CancellationKeeps ==
    ASSUME TypeInv, ClaimInv, NEW j \in DOMAIN jobs, RequestCancellation(j) PROVE ClaimInv'
<1>0. jobs \in Seq(Job) /\ jobs[j] \in Job /\ RowOK(jobs[j]) /\ overlap \in BOOLEAN
  BY RowFields DEF TypeInv, TypeOK, ClaimInv
<1>1. PICK old : /\ Write(j, Cancelled(jobs[j], old))
                 /\ overlap \/ old = jobs[j].status
  <2>1. CASE overlap
    BY <2>1 DEF RequestCancellation
  <2>2. CASE ~overlap
    <3>1. cancel.job = 0 /\ j # 0
      BY <1>0, <2>2 DEF TypeInv
    <3> QED
      BY <2>2, <3>1 DEF RequestCancellation
  <2> QED
    BY <2>1, <2>2
<1> DEFINE row == Cancelled(jobs[j], old)
<1>2. /\ row.status = IF old \in Waiting THEN "cancelled" ELSE jobs[j].status
      /\ row.cancelRequested = (jobs[j].cancelRequested \/ old = "rendering")
      /\ row.stale = jobs[j].stale /\ row.attempts = jobs[j].attempts
      /\ row.artifacts = jobs[j].artifacts
  BY <1>0 DEF Cancelled, Job
<1>3. /\ DOMAIN jobs' = DOMAIN jobs /\ jobs'[j] = row
      /\ \A k \in DOMAIN jobs : k # j => jobs'[k] = jobs[k]
  BY <1>0, <1>1 DEF Write
<1> HIDE DEF row
<1>4. RowOK(row)
  BY <1>0, <1>2 DEF RowOK, Waiting
<1>5. ASSUME NEW t \in Ticks, ticks[t].job = j PROVE TickOK(ticks[t], row)
  <2>1. TickOK(ticks[t], jobs[j])
    BY <1>0, <1>5, RowFields DEF ClaimInv
  <2>2. row.status = jobs[j].status \/ (overlap /\ row.status = "cancelled")
    BY <1>1, <1>2, <2>1 DEF TickOK, Waiting
  <2> QED
    BY <1>2, <2>1, <2>2 DEF TickOK
<1>6. UNCHANGED <<queue, overlap, lossy, limit, ticks, callers>>
  BY DEF RequestCancellation, unchanging
<1> QED
  BY <1>2, <1>3, <1>4, <1>5, <1>6, OtherRowWritten

\* Only a row that nobody has claimed gets old.
LEMMA ClockKeeps ==
    ASSUME ~Slow, TypeInv, ClaimInv, NEW j \in DOMAIN jobs, Clock(j) PROVE ClaimInv'
<1>0. jobs \in Seq(Job) /\ jobs[j] \in Job /\ RowOK(jobs[j])
      /\ UNCHANGED <<queue, overlap, lossy, limit, ticks, callers>>
  BY RowFields DEF TypeInv, TypeOK, ClaimInv, Clock, BackoffExpires, LockExpires, unchanging
<1>1. /\ DOMAIN jobs' = DOMAIN jobs
      /\ \A k \in DOMAIN jobs : k # j => jobs'[k] = jobs[k]
  BY <1>0 DEF Clock, BackoffExpires, LockExpires, Write
<1>2. /\ jobs'[j].status = jobs[j].status /\ jobs'[j].attempts = jobs[j].attempts
      /\ jobs'[j].artifacts = jobs[j].artifacts
      /\ jobs'[j].cancelRequested = jobs[j].cancelRequested
      /\ jobs'[j].stale = jobs[j].stale \/ \A t \in Ticks : ticks[t].job # j
  BY <1>0 DEF Clock, BackoffExpires, LockExpires, Write, Job
<1>3. RowOK(jobs'[j])
  BY <1>0, <1>2 DEF RowOK
<1>4. ASSUME NEW t \in Ticks, ticks[t].job = j PROVE TickOK(ticks[t], jobs'[j])
  <2>1. TickOK(ticks[t], jobs[j])
    BY <1>0, <1>4, RowFields DEF ClaimInv
  <2> QED
    BY <1>2, <1>4, <2>1 DEF TickOK
<1> QED
  BY <1>0, <1>1, <1>2, <1>3, <1>4, OtherRowWritten

\* A new row is waiting, with all its attempts ahead of it.
LEMMA NewRowKeeps ==
    ASSUME TypeInv, ClaimInv, NEW status \in Waiting, jobs' = Append(jobs, NewJob(status)),
           UNCHANGED <<queue, overlap, lossy, limit, ticks>>,
           \A c \in Callers : callers'[c].pc # "idle" =>
               callers'[c] = callers[c] \/ (~queue /\ callers'[c].pc # "save")
    PROVE  ClaimInv'
<1>0. jobs \in Seq(Job)
  BY DEF TypeInv, TypeOK
<1>1. \A k \in DOMAIN jobs : jobs'[k] = jobs[k]
  BY <1>0
<1>2. ASSUME NEW k \in DOMAIN jobs' PROVE RowOK(jobs[k])'
  <2>1. CASE k \in DOMAIN jobs
    BY <1>1, <2>1 DEF ClaimInv, RowOK
  <2>2. CASE k \notin DOMAIN jobs
    <3>1. jobs'[k] = NewJob(status)
      BY <1>0, <2>2
    <3> QED
      BY <3>1, QueueAssumption DEF RowOK, NewJob, Waiting
  <2> QED
    BY <2>1, <2>2
<1>3. ASSUME NEW t \in Ticks, ticks'[t].job # 0
      PROVE  TickOK(ticks[t], jobs[ticks[t].job])'
  <2>1. ticks' = ticks /\ ticks[t].job \in DOMAIN jobs
    BY <1>3 DEF TypeInv, TickNamesRow
  <2> QED
    BY <1>1, <1>3, <2>1 DEF ClaimInv, TickOK
<1>4. ASSUME NEW c \in Callers, callers'[c].pc # "idle"
      PROVE  CallerOK(callers[c], jobs[callers[c].job])'
  <2>1. CASE callers'[c] = callers[c]
    <3>1. callers[c].job \in DOMAIN jobs
      BY <1>4, <2>1 DEF TypeInv
    <3> QED
      BY <1>1, <1>4, <2>1, <3>1 DEF ClaimInv, CallerOK
  <2>2. CASE ~queue /\ callers'[c].pc # "save"
    BY <2>2 DEF CallerOK
  <2> QED
    BY <1>4, <2>1, <2>2
<1> QED
  BY <1>2, <1>3, <1>4, NobodyGains

\* Synchronous requests work when no tick does.
LEMMA SyncRowWritten ==
    ASSUME TypeInv, ClaimInv, NEW c \in Callers, ~queue, callers[c].pc # "idle",
           DOMAIN jobs' = DOMAIN jobs,
           \A k \in DOMAIN jobs : k # callers[c].job => jobs'[k] = jobs[k],
           RowOK(jobs'[callers[c].job]),
           jobs[callers[c].job].artifacts > 0 => jobs'[callers[c].job].artifacts > 0,
           \A d \in Callers : d # c => callers'[d] = callers[d],
           callers'[c].pc # "idle" => callers'[c].job = callers[c].job,
           callers'[c].pc = "save" => jobs'[callers[c].job].artifacts > 0,
           UNCHANGED <<queue, overlap, lossy, limit, ticks>>
    PROVE  ClaimInv'
<1>1. \A k \in DOMAIN jobs' : RowOK(jobs[k])'
  BY DEF ClaimInv, RowOK
<1>2. \A t \in Ticks : ticks'[t].job = 0 /\ ticks[t].job = 0
  BY DEF ClaimInv, TickOK
<1>3. ASSUME NEW d \in Callers, callers'[d].pc # "idle"
      PROVE  CallerOK(callers[d], jobs[callers[d].job])'
  <2>1. CASE d = c
    BY <1>3, <2>1 DEF CallerOK
  <2>2. CASE d # c
    <3>1. callers'[d] = callers[d] /\ callers[d].job \in DOMAIN jobs
      BY <1>3, <2>2 DEF TypeInv
    <3>2. jobs[callers[d].job].artifacts > 0 => jobs'[callers[d].job].artifacts > 0
      BY <3>1
    <3> QED
      BY <1>3, <3>1, <3>2 DEF ClaimInv, CallerOK
  <2> QED
    BY <2>1, <2>2
<1> QED
  BY <1>1, <1>2, <1>3, NobodyGains

LEMMA CallerKeeps ==
    ASSUME TypeInv, ClaimInv, NEW c \in Callers, CallerStep(c) PROVE ClaimInv'
<1> DEFINE j == callers[c].job
<1>0. /\ callers[c].pc # "idle" /\ callers \in [Callers -> Caller] /\ callers[c] \in Caller
      /\ jobs \in Seq(Job)
      /\ UNCHANGED <<queue, overlap, lossy, limit, ticks>>
  BY DEF CallerStep, StartSync, RenderSync, SaveSync, FailSync, UpdateStatus, TypeInv, TypeOK,
         unchanging
<1>1. /\ j \in DOMAIN jobs /\ jobs[j] \in Job /\ RowOK(jobs[j]) /\ ~queue
      /\ callers[c].pc = "save" => jobs[j].artifacts > 0
      /\ jobs[j].artifacts \in Nat
  BY <1>0, RowFields DEF TypeInv, ClaimInv, CallerOK
<1> HIDE DEF j
<1>2. ASSUME NEW label \in CallerPCs \ {"idle"}, NEW status \in Statuses \ Waiting,
             NEW next \in CallerPCs \ {"save"}, UpdateStatus(c, label, status, next),
             status = "rendered" => label = "save"
      PROVE  ClaimInv'
  <2> DEFINE row == [jobs[j] EXCEPT !.status = status]
  <2>1. /\ DOMAIN jobs' = DOMAIN jobs /\ jobs'[j] = row
        /\ \A k \in DOMAIN jobs : k # j => jobs'[k] = jobs[k]
    BY <1>0, <1>1, <1>2 DEF UpdateStatus, Write, j
  <2>2. row.status = status /\ row.artifacts = jobs[j].artifacts
           /\ row.attempts = jobs[j].attempts
    BY <1>1 DEF Job
  <2> HIDE DEF row
  <2>3. RowOK(row)
    BY <1>1, <1>2, <2>2 DEF RowOK, UpdateStatus
  <2>4. /\ \A d \in Callers : d # c => callers'[d] = callers[d]
        /\ callers'[c].pc # "idle" => callers'[c].job = j
        /\ callers'[c].pc # "save"
    BY <1>0, <1>2 DEF UpdateStatus, IdleCaller, Caller, j
  <2> QED
    BY <1>0, <1>1, <2>1, <2>2, <2>3, <2>4, SyncRowWritten DEF j
<1>3. CASE RenderSync(c)
  <2>1. /\ \A d \in Callers : d # c => callers'[d] = callers[d]
        /\ callers'[c].job = j
    BY <1>0, <1>3 DEF RenderSync, Caller, j
  <2>2. CASE Write(j, [jobs[j] EXCEPT !.artifacts = @ + 1])
    <3> DEFINE row == [jobs[j] EXCEPT !.artifacts = @ + 1]
    <3>1. /\ DOMAIN jobs' = DOMAIN jobs /\ jobs'[j] = row
          /\ \A k \in DOMAIN jobs : k # j => jobs'[k] = jobs[k]
      BY <1>0, <1>1, <2>2 DEF Write
    <3>2. row.status = jobs[j].status /\ row.artifacts = jobs[j].artifacts + 1
             /\ row.attempts = jobs[j].attempts
      BY <1>1 DEF Job
    <3> HIDE DEF row
    <3>3. RowOK(row) /\ row.artifacts > 0
      BY <1>1, <3>2 DEF RowOK
    <3> QED
      BY <1>0, <1>1, <2>1, <3>1, <3>2, <3>3, SyncRowWritten DEF j
  <2>3. CASE UNCHANGED jobs /\ callers' = [callers EXCEPT ![c].pc = "fail"]
    <3>1. callers'[c].pc = "fail"
      BY <1>0, <2>3 DEF Caller
    <3>2. jobs'[j] = jobs[j] /\ RowOK(jobs'[j])
      BY <1>1, <2>3
    <3> QED
      BY <1>0, <1>1, <2>1, <2>3, <3>1, <3>2, SyncRowWritten DEF j
  <2> QED
    BY <1>3, <2>2, <2>3 DEF RenderSync, j
<1>4. CASE StartSync(c) \/ SaveSync(c) \/ FailSync(c)
  BY <1>2, <1>4 DEF StartSync, SaveSync, FailSync, CallerPCs, Statuses, Waiting
<1> QED
  BY <1>3, <1>4 DEF CallerStep

LEMMA CallerComesAndGoes ==
    ASSUME TypeInv, ClaimInv, NEW c \in Callers, CreateSync(c) \/ CallerDies(c)
    PROVE  ClaimInv'
<1>0. callers \in [Callers -> Caller]
  BY DEF TypeInv, TypeOK
<1>1. CASE CreateSync(c)
  <2>1. callers'[c].pc = "start" /\ \A d \in Callers : d # c => callers'[d] = callers[d]
    BY <1>0, <1>1 DEF CreateSync
  <2>2. "pending" \in Waiting /\ ~queue /\ jobs' = Append(jobs, NewJob("pending"))
           /\ UNCHANGED <<queue, overlap, lossy, limit, ticks>>
    BY <1>1 DEF CreateSync, Waiting, unchanging
  <2> QED
    BY <2>1, <2>2, NewRowKeeps
<1>2. CASE CallerDies(c)
  <2>1. /\ callers'[c].pc = "idle" /\ \A d \in Callers : d # c => callers'[d] = callers[d]
        /\ UNCHANGED <<queue, overlap, lossy, limit, jobs, ticks>>
    BY <1>0, <1>2 DEF CallerDies, IdleCaller, unchanging
  <2> QED
    BY <2>1, NobodyGains DEF ClaimInv, RowOK, TickOK, CallerOK
<1> QED
  BY <1>1, <1>2

LEMMA ClaimPreserved ==
    ASSUME ~Slow, TypeInv, ClaimInv, [Next]_vars PROVE ClaimInv'
<1>1. CASE UNCHANGED vars
  BY <1>1 DEF vars, unchanging, ClaimInv, RowOK, TickOK, CallerOK, OneTickPerJob
<1>2. CASE EnqueueRenderJob
  <2>1. "queued" \in Waiting /\ jobs' = Append(jobs, NewJob("queued"))
           /\ UNCHANGED <<queue, overlap, lossy, limit, ticks, callers>>
    BY <1>2 DEF EnqueueRenderJob, Waiting, unchanging
  <2> QED
    BY <2>1, NewRowKeeps
<1>3. ASSUME NEW j \in DOMAIN jobs, ReadOldStatus(j) PROVE ClaimInv'
  BY <1>3 DEF ReadOldStatus, unchanging, ClaimInv, RowOK, TickOK, CallerOK, OneTickPerJob
<1>4. ASSUME NEW j \in DOMAIN jobs, RequestCancellation(j) \/ Clock(j) PROVE ClaimInv'
  BY <1>4, CancellationKeeps, ClockKeeps
<1>5. ASSUME NEW t \in Ticks, TickStep(t) \/ TickDies(t) \/ LoseReply(t) PROVE ClaimInv'
  BY <1>5, ClaimNextKeeps, SweepKeeps, AttemptKeeps, TickDiesKeeps, LoseReplyKeeps
     DEF TickStep
<1>6. ASSUME NEW c \in Callers, CreateSync(c) \/ CallerStep(c) \/ CallerDies(c)
      PROVE  ClaimInv'
  BY <1>6, CallerKeeps, CallerComesAndGoes
<1> QED
  BY <1>1, <1>2, <1>3, <1>4, <1>5, <1>6 DEF Next

LEMMA ClaimInvariant == ASSUME ~Slow PROVE Spec => []ClaimInv
<1>1. Init => ClaimInv
  BY ClaimInit
<1>2. TypeInv /\ ClaimInv /\ [Next]_vars => ClaimInv'
  BY ClaimPreserved
<1> QED
  BY <1>1, <1>2, TypeInvariant, PTL DEF Spec

\* If no attempt outlives RENDER_JOB_STALE_LOCK_MS, no two ticks of any workers ever
\* render the same job at once, however many ticks die and are swept.
THEOREM RenderedByOneTick == ASSUME ~Slow PROVE Spec => []OneTickPerJob
<1>1. ClaimInv => OneTickPerJob
  BY DEF ClaimInv
<1> QED
  BY <1>1, ClaimInvariant, PTL

\* Under the same assumption a job gets at most RENDER_JOB_MAX_ATTEMPTS attempts.
THEOREM AttemptsAreBounded == ASSUME ~Slow PROVE Spec => []AttemptsBounded
<1>1. ClaimInv => AttemptsBounded
  BY DEF ClaimInv, AttemptsBounded, RowOK
<1> QED
  BY <1>1, ClaimInvariant, PTL

\* What KeepsRenderPromise says of files, for every setting: a rendered job has a file to
\* download, queued or synchronous, and no attempt wrote two of them.
RenderedHasArtifact ==
    \A j \in DOMAIN jobs :
        /\ jobs[j].status = "rendered" => jobs[j].artifacts > 0
        /\ queue => jobs[j].artifacts <= jobs[j].attempts

\* Under the same assumption it holds whatever ticks, sweeps and deaths do.
THEOREM RenderedHasAFile == ASSUME ~Slow PROVE Spec => []RenderedHasArtifact
<1>1. ClaimInv => RenderedHasArtifact
  BY DEF ClaimInv, RenderedHasArtifact, RowOK
<1> QED
  BY <1>1, ClaimInvariant, PTL

-----------------------------------------------------------------------------
(***************************************************************************)
(* Cancellation                                                            *)
(***************************************************************************)
\* RENDER_QUEUE_ENABLED is read once.
LEMMA SettingKept == ASSUME [Next]_vars PROVE UNCHANGED <<queue, overlap, lossy, limit>>
  BY DEF Next, vars, unchanging, EnqueueRenderJob, ReadOldStatus, RequestCancellation, Clock,
         BackoffExpires, LockExpires, TickStep, ClaimNext, SweepStale, SweepExhausted, LoadJob,
         RunRenderPipeline, CheckCancellation, Throw, HandleError, Ending, MarkRendered,
         MarkCancelled, MarkFailed, MarkRetry, EndAttempt, TickDies, LoseReply, CreateSync, CallerStep,
         StartSync, RenderSync, SaveSync, FailSync, UpdateStatus, CallerDies

\* A deployment with workers renders nothing synchronously.
SyncOff == queue => \A c \in Callers : callers[c].pc = "idle"
LEMMA SyncStaysOff == ASSUME TypeInv, SyncOff, [Next]_vars PROVE SyncOff'
<1>1. callers \in [Callers -> Caller] /\ queue' = queue
  BY SettingKept DEF TypeInv, TypeOK
<1>2. ASSUME NEW c \in Callers, CreateSync(c) \/ CallerStep(c) \/ CallerDies(c) PROVE ~queue
  BY <1>2 DEF SyncOff, CreateSync, CallerStep, StartSync, RenderSync, SaveSync, FailSync,
              UpdateStatus, CallerDies
<1>3. queue => callers' = callers
  BY <1>2 DEF Next, vars, unchanging, EnqueueRenderJob, ReadOldStatus, RequestCancellation, Clock,
         BackoffExpires, LockExpires, TickStep, ClaimNext, SweepStale, SweepExhausted, LoadJob,
         RunRenderPipeline, CheckCancellation, Throw, HandleError, Ending, MarkRendered,
         MarkCancelled, MarkFailed, MarkRetry, EndAttempt, TickDies, LoseReply
<1> QED
  BY <1>1, <1>3 DEF SyncOff

\* What a row that was asked to stop keeps; only a tick that is about to save delivers it.
Saving(j) == \E t \in Ticks : ticks[t].job = j /\ ticks[t].pc = "save"
Keeps(row, new, saving) ==
    /\ new.cancelRequested /\ new.attempts = row.attempts
    /\ new.status = "rendered" => row.status = "rendered" \/ saving
LEMMA RowKept ==
    ASSUME NEW row \in Job, row.cancelRequested, NEW saving \in BOOLEAN
    PROVE  /\ \A old : Keeps(row, Cancelled(row, old), saving)
           /\ Keeps(row, [row EXCEPT !.due = TRUE], saving)
           /\ Keeps(row, [row EXCEPT !.stale = TRUE], saving)
           /\ Keeps(row, [row EXCEPT !.artifacts = @ + 1], saving)
           /\ Keeps(row, [Unlocked(row, "queued") EXCEPT !.due = FALSE], saving)
           /\ \A status : (status = "rendered" => saving)
                              => Keeps(row, Unlocked(row, status), saving)
<1>1. ASSUME NEW old PROVE Keeps(row, Cancelled(row, old), saving)
  <2>1. /\ Cancelled(row, old).cancelRequested = (row.cancelRequested \/ old = "rendering")
        /\ Cancelled(row, old).attempts = row.attempts
        /\ Cancelled(row, old).status \in {"cancelled", row.status}
    BY DEF Cancelled, Job
  <2> QED
    BY <2>1 DEF Keeps
<1>2. /\ Keeps(row, [row EXCEPT !.due = TRUE], saving)
      /\ Keeps(row, [row EXCEPT !.stale = TRUE], saving)
      /\ Keeps(row, [row EXCEPT !.artifacts = @ + 1], saving)
  BY DEF Keeps, Job
<1>3. ASSUME NEW status, status = "rendered" => saving
      PROVE  Keeps(row, Unlocked(row, status), saving)
  BY <1>3 DEF Keeps, Job, Unlocked
<1>4. Keeps(row, [Unlocked(row, "queued") EXCEPT !.due = FALSE], saving)
  BY DEF Keeps, Job, Unlocked
<1> QED
  BY <1>1, <1>2, <1>3, <1>4

LEMMA StopKept ==
    ASSUME TypeInv, SyncOff, queue, [Next]_vars, NEW j \in DOMAIN jobs, jobs[j].cancelRequested
    PROVE  j \in DOMAIN jobs' /\ Keeps(jobs[j], jobs'[j], Saving(j))
<1> DEFINE Kept == j \in DOMAIN jobs' /\ Keeps(jobs[j], jobs'[j], Saving(j))
<1>0. jobs \in Seq(Job) /\ jobs[j] \in Job /\ Saving(j) \in BOOLEAN
  BY RowFields DEF TypeInv, TypeOK, Saving
<1>1. CASE jobs' = jobs
  BY <1>1 DEF Keeps
<1>2. CASE EnqueueRenderJob
  BY <1>0, <1>2 DEF EnqueueRenderJob, Keeps
<1>3. ASSUME NEW k \in DOMAIN jobs, NEW row, Write(k, row), Keeps(jobs[j], row, Saving(j)) \/ k # j
      PROVE  Kept
  BY <1>0, <1>3 DEF Write, Keeps
<1>4. ASSUME NEW k \in DOMAIN jobs, RequestCancellation(k) \/ Clock(k) PROVE Kept
  <2>1. PICK row \in {[jobs[k] EXCEPT !.due = TRUE], [jobs[k] EXCEPT !.stale = TRUE],
                      Cancelled(jobs[k], jobs[k].status), Cancelled(jobs[k], cancel.old)} :
           Write(k, row)
    BY <1>4 DEF Clock, BackoffExpires, LockExpires, RequestCancellation
  <2>2. k = j => Keeps(jobs[j], row, Saving(j))
    BY <1>0, <2>1, RowKept
  <2> QED
    BY <1>3, <2>1, <2>2
<1>5. ASSUME NEW t \in Ticks, ClaimNext(t) PROVE Kept
  <2>1. CASE UNCHANGED jobs
    BY <1>1, <2>1
  <2>2. ASSUME NEW k \in Claimable, Write(k, Claimed(jobs[k])) PROVE Kept
    <3>1. k \in DOMAIN jobs /\ k # j
      BY <2>2 DEF Claimable
    <3> QED
      BY <1>3, <2>2, <3>1
  <2> QED
    BY <1>5, <2>1, <2>2 DEF ClaimNext
<1>6. ASSUME NEW t \in Ticks, SweepStale(t) \/ SweepExhausted(t) PROVE Kept
  BY <1>0, <1>6 DEF SweepStale, SweepExhausted, Unlocked, Job, Keeps
<1>7. ASSUME NEW t \in Ticks, RunRenderPipeline(t) \/ Ending(t) \/ LoseReply(t) PROVE Kept
  <2> DEFINE k == ticks[t].job
  <2>1. k \in DOMAIN jobs
    BY <1>7 DEF TypeInv, TickNamesRow, RunRenderPipeline, Ending, MarkRendered, MarkCancelled,
               MarkFailed, MarkRetry, EndAttempt, LoseReply, Sweeping
  <2>2. ASSUME NEW status, Write(k, Unlocked(jobs[k], status)),
               status = "rendered" => ticks[t].pc = "save"
        PROVE  Kept
    <3>1. k = j => (status = "rendered" => Saving(j))
      BY <2>2 DEF Saving
    <3>2. k = j => Keeps(jobs[j], Unlocked(jobs[k], status), Saving(j))
      BY <1>0, <3>1, RowKept
    <3> QED
      BY <1>3, <2>1, <2>2, <3>2
  <2>3. CASE MarkRendered(t) \/ LoseReply(t)
    BY <2>2, <2>3 DEF MarkRendered, EndAttempt, LoseReply
  <2>4. CASE MarkCancelled(t) \/ MarkFailed(t)
    BY <2>2, <2>4 DEF MarkCancelled, MarkFailed, EndAttempt
  <2>5. CASE RunRenderPipeline(t)
    <3>1. Write(k, [jobs[k] EXCEPT !.artifacts = @ + 1])
      BY <2>5 DEF RunRenderPipeline
    <3>2. k = j => Keeps(jobs[j], [jobs[k] EXCEPT !.artifacts = @ + 1], Saving(j))
      BY <1>0, RowKept
    <3> QED
      BY <1>3, <2>1, <3>1, <3>2
  <2>6. CASE MarkRetry(t)
    <3>1. Write(k, [Unlocked(jobs[k], "queued") EXCEPT !.due = FALSE])
      BY <2>6 DEF MarkRetry, EndAttempt
    <3>2. k = j => Keeps(jobs[j], [Unlocked(jobs[k], "queued") EXCEPT !.due = FALSE], Saving(j))
      BY <1>0, RowKept
    <3> QED
      BY <1>3, <2>1, <3>1, <3>2
  <2> QED
    BY <1>7, <2>3, <2>4, <2>5, <2>6 DEF Ending
<1>8. ASSUME NEW t \in Ticks,
             \/ LoadJob(t) \/ CheckCancellation(t) \/ Throw(t) \/ HandleError(t) \/ TickDies(t)
      PROVE  jobs' = jobs
  BY <1>8 DEF LoadJob, CheckCancellation, Throw, HandleError, TickDies
<1>9. ASSUME NEW c \in Callers PROVE ~(CreateSync(c) \/ CallerStep(c) \/ CallerDies(c))
  BY DEF SyncOff, CreateSync, CallerStep, StartSync, RenderSync, SaveSync, FailSync,
         UpdateStatus, CallerDies
<1>10. ASSUME NEW k \in DOMAIN jobs, ReadOldStatus(k) PROVE jobs' = jobs
  BY <1>10 DEF ReadOldStatus
<1>11. CASE UNCHANGED vars
  BY <1>1, <1>11 DEF vars
<1> QED
  BY <1>1, <1>2, <1>4, <1>5, <1>6, <1>7, <1>8, <1>9, <1>10, <1>11 DEF Next, TickStep

\* And no tick comes to the point of saving it.
LEMMA NoneComesToSave ==
    ASSUME TypeInv, [Next]_vars, NEW j \in DOMAIN jobs, jobs[j].cancelRequested, ~Saving(j)
    PROVE  ~Saving(j)'
<1> SUFFICES ASSUME NEW u \in Ticks, ticks'[u].pc = "save" PROVE ticks'[u].job # j
  BY DEF Saving
<1>0. ticks \in [Ticks -> Tick] /\ ticks[u] \in Tick
  BY DEF TypeInv, TypeOK
<1>1. CASE ticks'[u] = ticks[u]
  BY <1>1 DEF Saving
<1>2. ASSUME NEW t \in Ticks, NEW label, label # "save", Goto(t, label) PROVE ticks'[u] = ticks[u]
  BY <1>0, <1>2 DEF Goto, Tick
<1>3. ASSUME NEW t \in Ticks, Finish(t) PROVE ticks'[u] = ticks[u]
  BY <1>0, <1>3 DEF Finish, IdleTick
<1>4. ASSUME NEW t \in Ticks, CheckCancellation(t) PROVE ticks'[u].job # j
  BY <1>0, <1>1, <1>4 DEF CheckCancellation, Goto, Tick
<1>5. ASSUME NEW t \in Ticks, ClaimNext(t) PROVE ticks'[u] = ticks[u]
  BY <1>0, <1>2, <1>5 DEF ClaimNext, Tick
<1>6. ASSUME NEW t \in Ticks, LoadJob(t) PROVE ticks'[u] = ticks[u]
  BY <1>0, <1>6 DEF LoadJob, Tick
<1>7. ASSUME NEW t \in Ticks, \/ SweepStale(t) \/ SweepExhausted(t) \/ RunRenderPipeline(t)
                              \/ Throw(t) \/ HandleError(t) \/ LoseReply(t)
      PROVE  ticks'[u] = ticks[u]
  BY <1>2, <1>3, <1>7 DEF SweepStale, SweepExhausted, RunRenderPipeline, Throw, HandleError,
                          LoseReply
<1>8. ASSUME NEW t \in Ticks, Ending(t) \/ TickDies(t) PROVE ticks'[u] = ticks[u]
  BY <1>3, <1>8 DEF Ending, MarkRendered, MarkCancelled, MarkFailed, MarkRetry, EndAttempt,
                    TickDies
<1>9. CASE UNCHANGED ticks
  BY <1>1, <1>9
<1>10. (\A t \in Ticks : ~(TickStep(t) \/ TickDies(t) \/ LoseReply(t))) => UNCHANGED ticks
  BY DEF Next, vars, EnqueueRenderJob, ReadOldStatus, RequestCancellation, Clock, BackoffExpires,
         LockExpires, CreateSync, CallerStep, StartSync, RenderSync, SaveSync, FailSync,
         UpdateStatus, CallerDies
<1> QED
  BY <1>1, <1>4, <1>5, <1>6, <1>7, <1>8, <1>9, <1>10 DEF TickStep

LEMMA StoppedStays ==
    ASSUME TypeInv, SyncOff, [Next]_vars, NEW j, NEW n, Stopped(j, n)
    PROVE  Stopped(j, n)'
<1>1. j \in DOMAIN jobs /\ queue /\ queue' = queue /\ ~Saving(j)
  BY SettingKept DEF Stopped, Undelivered, Saving
<1>2. j \in DOMAIN jobs' /\ Keeps(jobs[j], jobs'[j], Saving(j)) /\ ~Saving(j)'
  BY <1>1, StopKept, NoneComesToSave DEF Stopped
<1> QED
  BY <1>1, <1>2 DEF Stopped, Undelivered, Keeps, Saving

\* A render that was asked to stop in time is never attempted again and never delivered,
\* whatever follows: with slow attempts, lost replies and overlapping statements too.
THEOREM StoppedRendersStay == Spec => StopsForGood
<1>1. Init => SyncOff
  BY DEF Init, SyncOff, IdleCaller
<1>2. Spec => []SyncOff
  BY <1>1, SyncStaysOff, TypeInvariant, PTL DEF Spec
<1>3. ASSUME NEW j \in 1 .. MaxJobs, NEW n \in 1 .. MaxAttempts
      PROVE  Spec => [](Stopped(j, n) => []Undelivered(j, n))
  <2>1. TypeInv /\ SyncOff /\ Stopped(j, n) /\ [Next]_vars => Stopped(j, n)'
    BY StoppedStays
  <2>2. Stopped(j, n) => Undelivered(j, n)
    BY DEF Stopped
  <2> QED
    BY <1>2, <2>1, <2>2, TypeInvariant, PTL DEF Spec
<1> QED
  BY <1>3 DEF StopsForGood

-----------------------------------------------------------------------------
(***************************************************************************)
(* The queue keeps RenderPromise                                           *)
(*                                                                         *)
(* Seen is what the promise knows of a row.  Live: the deployments and     *)
(* timings the promise is about.                                           *)
(***************************************************************************)
Live == queue /\ ~overlap /\ ~lossy
Seen(row) == [status |-> row.status, asked |-> row.cancelRequested,
              attempts |-> row.attempts, file |-> row.artifacts > 0]

LEMMA PromisedRows ==
    ASSUME Live PROVE promised = [j \in DOMAIN jobs |-> Seen(jobs[j])]
  BY DEF Live, promised, Seen

\* A statement that writes one row changes what is promised of that one.
LEMMA OneRowSeen ==
    ASSUME Live, Live', jobs \in Seq(Job), NEW j \in DOMAIN jobs, NEW row, Write(j, row)
    PROVE  /\ j \in DOMAIN promised /\ promised[j] = Seen(jobs[j])
           /\ promised' = [promised EXCEPT ![j] = Seen(row)]
<1>1. /\ promised = [k \in DOMAIN jobs |-> Seen(jobs[k])]
      /\ promised' = [k \in DOMAIN jobs' |-> Seen(jobs'[k])]
  BY DEF Live, promised, Seen
<1>2. jobs' = [jobs EXCEPT ![j] = row]
  BY DEF Write
<1> QED
  BY <1>1, <1>2

\* A row of the promise.
SeenRows == [status : Statuses, asked : BOOLEAN, attempts : Nat, file : BOOLEAN]
LEMMA SeenIsRender == ASSUME NEW row \in Job PROVE Seen(row) \in SeenRows
  BY DEF Seen, SeenRows, Job
LEMMA ChangedFile ==
    ASSUME NEW r \in SeenRows, NEW v
    PROVE  [r EXCEPT !.file = v] =
                 [status |-> r.status, asked |-> r.asked, attempts |-> r.attempts, file |-> v]
  BY DEF SeenRows

\* What the statements change of what is seen.
LEMMA SeenFields ==
    ASSUME NEW row \in Job, NEW status \in Statuses
    PROVE  /\ Seen(Unlocked(row, status)) = [Seen(row) EXCEPT !.status = status]
           /\ \A d \in BOOLEAN :
                 /\ Seen([Unlocked(row, status) EXCEPT !.due = d])
                       = [Seen(row) EXCEPT !.status = status]
                 /\ Seen([row EXCEPT !.due = d]) = Seen(row)
                 /\ Seen([row EXCEPT !.stale = d]) = Seen(row)
           /\ Seen([row EXCEPT !.artifacts = @ + 1]) = [Seen(row) EXCEPT !.file = TRUE]
           /\ Seen(Claimed(row)) = [status |-> "rendering", asked |-> row.cancelRequested,
                                    attempts |-> row.attempts + 1, file |-> row.artifacts > 0]
<1>0. /\ Seen(row) \in SeenRows
      /\ Seen(row).status = row.status /\ Seen(row).asked = row.cancelRequested
      /\ Seen(row).attempts = row.attempts /\ Seen(row).file = (row.artifacts > 0)
  BY SeenIsRender DEF Seen
<1>1. Seen(Unlocked(row, status)) = [Seen(row) EXCEPT !.status = status]
  BY DEF Seen, Unlocked, Job
<1>2. ASSUME NEW d \in BOOLEAN
      PROVE /\ Seen([Unlocked(row, status) EXCEPT !.due = d])
                       = [Seen(row) EXCEPT !.status = status]
            /\ Seen([row EXCEPT !.due = d]) = Seen(row)
            /\ Seen([row EXCEPT !.stale = d]) = Seen(row)
  BY DEF Seen, Unlocked, Job
<1>3. Seen([row EXCEPT !.artifacts = @ + 1]) = [Seen(row) EXCEPT !.file = TRUE]
  <2> DEFINE q == [row EXCEPT !.artifacts = @ + 1]
  <2>1. /\ q.status = row.status /\ q.cancelRequested = row.cancelRequested
        /\ q.attempts = row.attempts /\ (q.artifacts > 0) = TRUE
    BY DEF Job
  <2> HIDE DEF q
  <2>2. Seen(q) = [Seen(row) EXCEPT !.file = TRUE]
    <3>1. Seen(q) = [status |-> row.status, asked |-> row.cancelRequested,
                     attempts |-> row.attempts, file |-> TRUE]
      BY <2>1, Zenon DEF Seen
    <3>2. [Seen(row) EXCEPT !.file = TRUE] =
             [status |-> row.status, asked |-> row.cancelRequested,
              attempts |-> row.attempts, file |-> TRUE]
      BY <1>0, ChangedFile, Zenon
    <3> QED
      BY <3>1, <3>2
  <2> QED
    BY <2>2 DEF q
<1>4. Seen(Claimed(row)) = [status |-> "rendering", asked |-> row.cancelRequested,
                            attempts |-> row.attempts + 1, file |-> row.artifacts > 0]
  <2> DEFINE q == Claimed(row)
  <2>1. /\ q.status = "rendering" /\ q.cancelRequested = row.cancelRequested
        /\ q.attempts = row.attempts + 1 /\ q.artifacts = row.artifacts
    BY DEF Claimed, Job
  <2> HIDE DEF q
  <2>2. Seen(q) = [status |-> "rendering", asked |-> row.cancelRequested,
                   attempts |-> row.attempts + 1, file |-> row.artifacts > 0]
    BY <2>1, Zenon DEF Seen
  <2> QED
    BY <2>2 DEF q
<1> QED
  BY <1>1, <1>2, <1>3, <1>4

LEMMA SeenCancelled ==
    ASSUME NEW row \in Job
    PROVE  Seen(Cancelled(row, row.status)) =
              IF row.status \in Waiting THEN [Seen(row) EXCEPT !.status = "cancelled"]
              ELSE IF row.status = "rendering" THEN [Seen(row) EXCEPT !.asked = TRUE]
              ELSE Seen(row)
<1> DEFINE q == Cancelled(row, row.status)
<1>1. /\ q.status = (IF row.status \in Waiting THEN "cancelled" ELSE row.status)
      /\ q.attempts = row.attempts /\ q.artifacts = row.artifacts
  BY DEF Cancelled, Job
<1>2. q.cancelRequested = IF row.status = "rendering" THEN TRUE ELSE row.cancelRequested
  BY DEF Cancelled, Job
<1> HIDE DEF q
<1>3. Seen(q) = [status |-> IF row.status \in Waiting THEN "cancelled" ELSE row.status,
                 asked |-> IF row.status = "rendering" THEN TRUE ELSE row.cancelRequested,
                 attempts |-> row.attempts, file |-> row.artifacts > 0]
  BY <1>1, <1>2 DEF Seen
<1>4. row.status \in Waiting => row.status # "rendering"
  BY DEF Waiting
<1>5. CASE row.status \in Waiting
  BY <1>3, <1>4, <1>5 DEF Seen, q
<1>6. CASE row.status = "rendering"
  BY <1>3, <1>4, <1>6 DEF Seen, q
<1>7. CASE row.status \notin Waiting /\ row.status # "rendering"
  BY <1>3, <1>7 DEF Seen, q
<1> QED
  BY <1>5, <1>6, <1>7, <1>4

\* Each statement takes a step of the promise, or none.
LEMMA CancellationPromised ==
    ASSUME TypeInv, Live, Live', NEW j \in DOMAIN jobs, RequestCancellation(j)
    PROVE  [Promise!RenderNext]_promised
<1>0. jobs \in Seq(Job) /\ jobs[j] \in Job /\ j # 0
  BY RowFields DEF TypeInv, TypeOK
<1> DEFINE row == jobs[j]
<1>1. Write(j, Cancelled(row, row.status))
  BY <1>0 DEF RequestCancellation, Live, TypeInv
<1>2. /\ j \in DOMAIN promised /\ promised[j] = Seen(row)
      /\ promised' = [promised EXCEPT ![j] = Seen(Cancelled(row, row.status))]
  BY <1>0, <1>1, OneRowSeen
<1>3. promised[j].status = row.status
  BY <1>2 DEF Seen
<1>4. CASE row.status \in Waiting
  <2>1. promised' = [promised EXCEPT ![j].status = "cancelled"]
    BY <1>0, <1>2, <1>4, SeenCancelled
  <2>2. Promise!CancelRender(j)
    BY <1>3, <1>4, <2>1 DEF Promise!CancelRender, Promise!Waiting, Waiting
  <2> QED
    BY <1>2, <2>2 DEF Promise!RenderNext
<1>5. CASE row.status = "rendering"
  <2>1. promised' = [promised EXCEPT ![j].asked = TRUE]
    BY <1>0, <1>2, <1>5, SeenCancelled DEF Waiting
  <2>2. Promise!CancelRender(j)
    BY <1>3, <1>5, <2>1 DEF Promise!CancelRender
  <2> QED
    BY <1>2, <2>2 DEF Promise!RenderNext
<1>6. CASE row.status \notin Waiting /\ row.status # "rendering"
  <2>1. Seen(Cancelled(row, row.status)) = promised[j]
    BY <1>0, <1>2, <1>6, SeenCancelled
  <2>2. promised = [k \in DOMAIN jobs |-> Seen(jobs[k])]
    BY PromisedRows
  <2>3. promised' = promised
    BY <1>2, <2>1, <2>2
  <2> QED
    BY <2>3
<1> QED
  BY <1>4, <1>5, <1>6

LEMMA ClaimPromised ==
    ASSUME TypeInv, ClaimInv, Live, Live', NEW t \in Ticks, ClaimNext(t)
    PROVE  [Promise!RenderNext]_promised
<1>0. jobs \in Seq(Job)
  BY DEF TypeInv, TypeOK
<1>1. CASE UNCHANGED jobs
  BY <1>1, PromisedRows DEF promised, Live
<1>2. ASSUME NEW j \in Claimable, Write(j, Claimed(jobs[j]))
      PROVE  [Promise!RenderNext]_promised
  <2>1. j \in DOMAIN jobs /\ jobs[j] \in Job /\ jobs[j].attempts < MaxAttempts
           /\ jobs[j].status \in Waiting /\ jobs[j].cancelRequested = FALSE
    <3>1. j \in DOMAIN jobs /\ jobs[j].status \in Waiting /\ ~jobs[j].cancelRequested
      BY DEF Claimable
    <3>2. jobs[j] \in Job /\ RowOK(jobs[j])
      BY <1>0, <3>1, RowFields DEF ClaimInv
    <3> QED
      BY <3>1, <3>2 DEF RowOK, Job
  <2>2. /\ j \in DOMAIN promised /\ promised[j] = Seen(jobs[j])
        /\ promised' = [promised EXCEPT ![j] = Seen(Claimed(jobs[j]))]
    BY <1>0, <1>2, <2>1, OneRowSeen
  <2>3. /\ promised[j].status \in Waiting /\ promised[j].asked = FALSE
        /\ promised[j].attempts < MaxAttempts
        /\ promised[j].attempts = jobs[j].attempts
        /\ promised[j].file = (jobs[j].artifacts > 0)
    BY <2>1, <2>2 DEF Seen
  <2>4. Seen(Claimed(jobs[j])) =
           [status |-> "rendering", asked |-> FALSE, attempts |-> promised[j].attempts + 1,
            file |-> promised[j].file]
    <3>1. Seen(Claimed(jobs[j])) =
             [status |-> "rendering", asked |-> jobs[j].cancelRequested,
              attempts |-> jobs[j].attempts + 1, file |-> jobs[j].artifacts > 0]
      BY <2>1, SeenFields DEF Statuses
    <3> QED
      BY <2>1, <2>3, <3>1, Zenon
  <2>5. promised' = [promised EXCEPT ![j] =
           [status |-> "rendering", asked |-> FALSE, attempts |-> promised[j].attempts + 1,
            file |-> promised[j].file]]
    BY <2>2, <2>4
  <2>6. Promise!StartAttempt(j)
    BY <2>3, <2>5 DEF Promise!StartAttempt, Promise!Waiting, Waiting
  <2> QED
    BY <2>2, <2>6 DEF Promise!RenderNext, Promise!Work
<1> QED
  BY <1>1, <1>2 DEF ClaimNext

\* What a tick does with the row it has claimed: it stores the file, ends the attempt
\* or gives the job back.
LEMMA AttemptPromised ==
    ASSUME TypeInv, ClaimInv, Live, Live', NEW t \in Ticks,
           RunRenderPipeline(t) \/ Ending(t)
    PROVE  [Promise!RenderNext]_promised
<1> DEFINE j == ticks[t].job
           row == jobs[j]
<1>0. jobs \in Seq(Job) /\ j \in DOMAIN jobs /\ j # 0
  BY DEF TypeInv, TypeOK, TickNamesRow, RunRenderPipeline, Ending, MarkRendered, MarkCancelled,
         MarkFailed, MarkRetry, EndAttempt, Sweeping
<1>1. row \in Job /\ RowOK(row) /\ TickOK(ticks[t], row)
  BY <1>0, RowFields DEF ClaimInv
<1>2. row.status = "rendering"
  BY <1>1 DEF TickOK, Live
<1> HIDE DEF j
<1>3. j \in DOMAIN promised /\ promised[j] = Seen(row)
  BY <1>0, PromisedRows
<1>4. /\ promised[j].status = "rendering" /\ promised[j].asked = row.cancelRequested
      /\ promised[j].attempts = row.attempts /\ promised[j].file = (row.artifacts > 0)
  BY <1>2, <1>3 DEF Seen
<1>5. ASSUME NEW q, Write(j, q) PROVE promised' = [promised EXCEPT ![j] = Seen(q)]
  BY <1>0, <1>5, OneRowSeen
<1>6. CASE RunRenderPipeline(t)
  <2>1. promised' = [promised EXCEPT ![j] = [Seen(row) EXCEPT !.file = TRUE]]
    <3> DEFINE q == [row EXCEPT !.artifacts = @ + 1]
    <3>1. Write(j, q)
      BY <1>6 DEF RunRenderPipeline, j
    <3>2. Seen(q) = [Seen(row) EXCEPT !.file = TRUE]
      BY <1>1, SeenFields DEF Statuses
    <3> HIDE DEF q
    <3> QED
      BY <1>5, <3>1, <3>2
  <2>2. promised' = [promised EXCEPT ![j].file = TRUE]
    BY <1>3, <2>1
  <2>3. Promise!StoreFile(j)
    BY <1>4, <2>2 DEF Promise!StoreFile
  <2> QED
    BY <1>3, <2>3 DEF Promise!RenderNext, Promise!Work
<1>7. ASSUME NEW s \in Statuses, Write(j, Unlocked(row, s)), s \in Promise!Outcomes(promised[j])
      PROVE  [Promise!RenderNext]_promised
  <2>1. promised' = [promised EXCEPT ![j] = [Seen(row) EXCEPT !.status = s]]
    <3>1. Seen(Unlocked(row, s)) = [Seen(row) EXCEPT !.status = s]
      BY <1>1, SeenFields
    <3> QED
      BY <1>5, <1>7, <3>1
  <2>2. promised' = [promised EXCEPT ![j].status = s]
    BY <1>3, <2>1
  <2>3. Promise!EndRender(j)
    BY <1>4, <1>7, <2>2 DEF Promise!EndRender
  <2> QED
    BY <1>3, <2>3 DEF Promise!RenderNext, Promise!Work
<1>8. CASE MarkRendered(t)
  <2>1. row.artifacts > 0
    BY <1>1, <1>8 DEF MarkRendered, EndAttempt, TickOK
  <2>2. "rendered" \in Promise!Outcomes(promised[j])
    BY <1>4, <2>1 DEF Promise!Outcomes
  <2> QED
    BY <1>7, <1>8, <2>2 DEF MarkRendered, EndAttempt, Statuses, j
<1>9. CASE MarkCancelled(t)
  <2>1. row.cancelRequested
    BY <1>1, <1>9 DEF MarkCancelled, EndAttempt, TickOK
  <2>2. "cancelled" \in Promise!Outcomes(promised[j])
    BY <1>4, <2>1 DEF Promise!Outcomes
  <2> QED
    BY <1>7, <1>9, <2>2 DEF MarkCancelled, EndAttempt, Statuses, j
<1>10. CASE MarkFailed(t)
  <2>1. "failed" \in Promise!Outcomes(promised[j])
    BY DEF Promise!Outcomes
  <2> QED
    BY <1>7, <1>10, <2>1 DEF MarkFailed, EndAttempt, Statuses, j
<1>11. CASE MarkRetry(t)
  <2>1. row.attempts < MaxAttempts
    BY <1>1, <1>11 DEF MarkRetry, EndAttempt, TickOK, Sweeping
  <2>2. promised' = [promised EXCEPT ![j] = [Seen(row) EXCEPT !.status = "queued"]]
    <3> DEFINE q == [Unlocked(row, "queued") EXCEPT !.due = FALSE]
    <3>1. Write(j, q)
      BY <1>11 DEF MarkRetry, EndAttempt, j
    <3>2. Seen(q) = [Seen(row) EXCEPT !.status = "queued"]
      BY <1>1, SeenFields DEF Statuses
    <3> HIDE DEF q
    <3> QED
      BY <1>5, <3>1, <3>2
  <2>3. promised = [k \in DOMAIN promised |-> promised[k]]
    BY PromisedRows
  <2>4. promised' = [n \in DOMAIN promised |->
           IF n \in {j} THEN [promised[n] EXCEPT !.status = "queued"] ELSE promised[n]]
    BY <1>3, <2>2, <2>3
  <2>5. Promise!ReturnRenders({j})
    BY <1>4, <2>1, <2>4 DEF Promise!ReturnRenders, Promise!Waiting
  <2> QED
    BY <1>3, <2>5 DEF Promise!RenderNext
<1> QED
  BY <1>6, <1>8, <1>9, <1>10, <1>11 DEF Ending

\* The sweep returns every attempt that died and has a successor, and gives up the others.
LEMMA SweepPromised ==
    ASSUME TypeInv, ClaimInv, Live, Live', NEW t \in Ticks, SweepStale(t) \/ SweepExhausted(t)
    PROVE  [Promise!RenderNext]_promised
<1>0. /\ jobs \in Seq(Job) /\ DOMAIN jobs' = DOMAIN jobs
      /\ promised = [j \in DOMAIN jobs |-> Seen(jobs[j])]
      /\ promised' = [j \in DOMAIN jobs |-> Seen(jobs'[j])]
  BY SweepTypes, PromisedRows DEF TypeInv, TypeOK, Live, promised, Seen
<1>1. ASSUME NEW j \in DOMAIN jobs, Swept(jobs[j])
      PROVE  /\ promised[j].status = "rendering" /\ promised[j].attempts = jobs[j].attempts
             /\ jobs[j].attempts \in Nat /\ jobs[j].attempts <= MaxAttempts
  BY <1>0, <1>1, RowFields DEF Swept, Seen, ClaimInv, RowOK
<1>2. ASSUME NEW j \in DOMAIN jobs, NEW s \in {"pending", "failed"}
      PROVE  /\ Seen(Unlocked(jobs[j], s)) = [promised[j] EXCEPT !.status = s]
             /\ Seen([Unlocked(jobs[j], s) EXCEPT !.due = TRUE])
                   = [promised[j] EXCEPT !.status = s]
  <2>1. jobs[j] \in Job /\ promised[j] = Seen(jobs[j]) /\ s \in Statuses
    BY <1>0, <1>2, RowFields DEF Statuses
  <2>2. /\ Seen(Unlocked(jobs[j], s)) = [Seen(jobs[j]) EXCEPT !.status = s]
        /\ Seen([Unlocked(jobs[j], s) EXCEPT !.due = TRUE])
              = [Seen(jobs[j]) EXCEPT !.status = s]
    BY <2>1, SeenFields
  <2> QED
    BY <2>1, <2>2
<1>3. CASE SweepStale(t)
  <2> DEFINE S == {j \in DOMAIN promised : Swept(jobs[j]) /\ jobs[j].attempts < MaxAttempts}
  <2>1. ASSUME NEW j \in DOMAIN jobs
        PROVE  Seen(jobs'[j]) = IF j \in S THEN [promised[j] EXCEPT !.status = "pending"]
                                ELSE promised[j]
    <3>1. CASE j \in S
      <4>1. jobs'[j] = [Unlocked(jobs[j], "pending") EXCEPT !.due = TRUE]
        BY <1>3, <3>1 DEF SweepStale
      <4> QED
        BY <1>2, <3>1, <4>1
    <3>2. CASE j \notin S
      <4>1. jobs'[j] = jobs[j]
        BY <1>0, <1>3, <3>2 DEF SweepStale
      <4> QED
        BY <1>0, <3>2, <4>1
    <3> QED
      BY <3>1, <3>2
  <2>2. S \in SUBSET DOMAIN promised /\ DOMAIN promised = DOMAIN jobs
    BY <1>0
  <2>3. \A n \in S : promised[n].status = "rendering" /\ promised[n].attempts < MaxAttempts
    BY <1>0, <1>1
  <2> HIDE DEF S
  <2>4. promised' = [n \in DOMAIN promised |->
           IF n \in S THEN [promised[n] EXCEPT !.status = "pending"] ELSE promised[n]]
    BY <1>0, <2>1, <2>2
  <2>5. Promise!ReturnRenders(S)
    BY <2>3, <2>4 DEF Promise!ReturnRenders, Promise!Waiting
  <2> QED
    BY <2>2, <2>5 DEF Promise!RenderNext
<1>4. CASE SweepExhausted(t)
  <2> DEFINE S == {j \in DOMAIN promised : Swept(jobs[j]) /\ jobs[j].attempts >= MaxAttempts}
  <2>1. ASSUME NEW j \in DOMAIN jobs
        PROVE  Seen(jobs'[j]) = IF j \in S THEN [promised[j] EXCEPT !.status = "failed"]
                                ELSE promised[j]
    <3>1. CASE j \in S
      <4>1. jobs'[j] = Unlocked(jobs[j], "failed")
        BY <1>4, <3>1 DEF SweepExhausted
      <4> QED
        BY <1>2, <3>1, <4>1
    <3>2. CASE j \notin S
      <4>1. jobs'[j] = jobs[j]
        BY <1>0, <1>4, <3>2 DEF SweepExhausted
      <4> QED
        BY <1>0, <3>2, <4>1
    <3> QED
      BY <3>1, <3>2
  <2>2. S \in SUBSET DOMAIN promised /\ DOMAIN promised = DOMAIN jobs
    BY <1>0
  <2>3. \A n \in S : promised[n].status = "rendering" /\ promised[n].attempts = MaxAttempts
    BY <1>0, <1>1, QueueAssumption
  <2> HIDE DEF S
  <2>4. promised' = [n \in DOMAIN promised |->
           IF n \in S THEN [promised[n] EXCEPT !.status = "failed"] ELSE promised[n]]
    BY <1>0, <2>1, <2>2
  <2>5. Promise!GiveUpRenders(S)
    BY <2>3, <2>4 DEF Promise!GiveUpRenders
  <2> QED
    BY <2>2, <2>5 DEF Promise!RenderNext
<1> QED
  BY <1>3, <1>4

LEMMA EnqueuePromised ==
    ASSUME TypeInv, Live, Live', EnqueueRenderJob
    PROVE  [Promise!RenderNext]_promised
<1> DEFINE new == [status |-> "queued", asked |-> FALSE, attempts |-> 0, file |-> FALSE]
<1>0. jobs \in Seq(Job) /\ jobs' = Append(jobs, NewJob("queued"))
  BY DEF TypeInv, TypeOK, EnqueueRenderJob
<1>1. /\ promised = [j \in DOMAIN jobs |-> Seen(jobs[j])]
      /\ promised' = [j \in DOMAIN jobs' |-> Seen(jobs'[j])]
  BY DEF Live, promised, Seen
<1>2. Seen(NewJob("queued")) = new
  <2>1. (0 > 0) = FALSE
    OBVIOUS
  <2> QED
    BY <2>1 DEF Seen, NewJob
<1> HIDE DEF new
<1>3. /\ DOMAIN jobs = 1 .. Len(jobs) /\ Len(jobs) \in Nat
      /\ DOMAIN jobs' = 1 .. (Len(jobs) + 1)
      /\ jobs'[Len(jobs) + 1] = NewJob("queued")
      /\ \A j \in DOMAIN jobs : jobs'[j] = jobs[j]
  BY <1>0
<1>4. Len(promised) = Len(jobs)
  BY <1>1, <1>3
<1>5. promised' = [j \in 1 .. (Len(promised) + 1) |->
                      IF j <= Len(promised) THEN promised[j] ELSE new]
  BY <1>1, <1>2, <1>3, <1>4
<1>6. promised' = Append(promised, new)
  BY <1>1, <1>3, <1>4, <1>5
<1> QED
  BY <1>6 DEF Promise!RenderNext, Promise!RequestRender, new

LEMMA ClockPromised ==
    ASSUME TypeInv, Live, Live', NEW j \in DOMAIN jobs, Clock(j)
    PROVE  promised' = promised
<1>0. jobs \in Seq(Job) /\ jobs[j] \in Job
  BY RowFields DEF TypeInv, TypeOK
<1>1. PICK row \in {[jobs[j] EXCEPT !.due = TRUE], [jobs[j] EXCEPT !.stale = TRUE]} :
         Write(j, row)
  BY DEF Clock, BackoffExpires, LockExpires
<1>2. Seen(row) = Seen(jobs[j])
  BY <1>0, <1>1, SeenFields DEF Statuses
<1>3. /\ promised = [k \in DOMAIN jobs |-> Seen(jobs[k])]
      /\ promised[j] = Seen(jobs[j])
      /\ promised' = [promised EXCEPT ![j] = Seen(row)]
  BY <1>0, <1>1, OneRowSeen, PromisedRows
<1> QED
  BY <1>2, <1>3

LEMMA StepPromised ==
    ASSUME TypeInv, ClaimInv, [Next]_vars
    PROVE  [Promise!RenderNext]_promised
<1>1. UNCHANGED <<queue, overlap, lossy, limit>>
  BY SettingKept
<1>2. CASE ~Live
  <2>1. promised = << >> /\ promised' = << >>
    BY <1>1, <1>2 DEF Live, promised
  <2> QED
    BY <2>1
<1>3. CASE Live
  <2>1. Live'
    BY <1>1, <1>3 DEF Live
  <2>2. ASSUME jobs' = jobs PROVE promised' = promised
    BY <1>3, <2>1, <2>2 DEF promised, Live
  <2>3. ASSUME NEW j \in DOMAIN jobs, ReadOldStatus(j) \/ RequestCancellation(j) \/ Clock(j)
        PROVE  [Promise!RenderNext]_promised
    BY <1>3, <2>1, <2>3, CancellationPromised, ClockPromised DEF ReadOldStatus, Live
  <2>4. ASSUME NEW t \in Ticks, TickStep(t) \/ TickDies(t) \/ LoseReply(t)
        PROVE  [Promise!RenderNext]_promised
    <3>0. ~LoseReply(t)
      BY <1>3 DEF LoseReply, Live
    <3>1. CASE LoadJob(t) \/ CheckCancellation(t) \/ Throw(t) \/ HandleError(t) \/ TickDies(t)
      BY <2>2, <3>1 DEF LoadJob, CheckCancellation, Throw, HandleError, TickDies
    <3> QED
      BY <1>3, <2>1, <2>4, <3>0, <3>1, ClaimPromised, SweepPromised, AttemptPromised
         DEF TickStep
  <2>5. ASSUME NEW c \in Callers, CreateSync(c) \/ CallerStep(c) \/ CallerDies(c)
        PROVE  promised' = promised
    <3>1. callers[c].pc = "idle"
      BY <1>3 DEF ClaimInv, CallerOK, Live
    <3> QED
      BY <1>3, <2>5, <3>1
         DEF Live, CreateSync, CallerStep, StartSync, RenderSync, SaveSync, FailSync,
             UpdateStatus, CallerDies
  <2>6. CASE EnqueueRenderJob
    BY <1>3, <2>1, <2>6, EnqueuePromised
  <2>7. CASE UNCHANGED vars
    BY <2>2, <2>7 DEF vars
  <2> QED
    BY <2>3, <2>4, <2>5, <2>6, <2>7 DEF Next
<1> QED
  BY <1>2, <1>3

\* In queue mode, while cancellations see the row they write and no reply is lost, the
\* queue implements RenderPromise: whatever ticks, sweeps, cancellations and deaths do, a
\* job only goes through the life its requester was promised.
THEOREM QueueKeepsPromise ==
    ASSUME ~Slow PROVE Spec => KeepsRenderPromise
<1>1. Init => promised = << >>
  BY DEF Init, promised
<1>2. TypeInv /\ ClaimInv /\ [Next]_vars => [Promise!RenderNext]_promised
  BY StepPromised
<1> QED
  BY <1>1, <1>2, TypeInvariant, ClaimInvariant, PTL
     DEF Spec, KeepsRenderPromise, Promise!RenderSpec

\* What ended is not waiting and not rendering, and no step of the promise is about it.
LEMMA EndedRowsStay ==
    ASSUME jobs \in Seq(Job), Live, [Promise!RenderNext]_promised,
           NEW j \in DOMAIN promised, promised[j].status \in Promise!Ended
    PROVE  j \in DOMAIN promised' /\ promised'[j] = promised[j]
<1>1. promised[j].status # "rendering" /\ promised[j].status \notin Promise!Waiting
  BY DEF Promise!Ended, Promise!Waiting
<1>2. /\ promised = [k \in DOMAIN promised |-> promised[k]]
      /\ promised \in Seq({promised[k] : k \in DOMAIN promised})
  BY PromisedRows
<1>3. CASE Promise!RequestRender
  BY <1>2, <1>3 DEF Promise!RequestRender
<1>4. ASSUME NEW k \in DOMAIN promised, Promise!CancelRender(k) \/ Promise!Work(k)
      PROVE  j \in DOMAIN promised' /\ promised'[j] = promised[j]
  <2>1. k # j
    BY <1>1, <1>4 DEF Promise!CancelRender, Promise!Work, Promise!StartAttempt,
                      Promise!StoreFile, Promise!EndRender
  <2> QED
    BY <1>2, <1>4, <2>1 DEF Promise!CancelRender, Promise!Work, Promise!StartAttempt,
                      Promise!StoreFile, Promise!EndRender
<1>5. ASSUME NEW S \in SUBSET DOMAIN promised, Promise!ReturnRenders(S) \/ Promise!GiveUpRenders(S)
      PROVE  j \in DOMAIN promised' /\ promised'[j] = promised[j]
  <2>1. j \notin S
    BY <1>1, <1>5 DEF Promise!ReturnRenders, Promise!GiveUpRenders
  <2> QED
    BY <1>5, <2>1 DEF Promise!ReturnRenders, Promise!GiveUpRenders
<1>6. CASE UNCHANGED promised
  BY <1>6
<1> QED
  BY <1>3, <1>4, <1>5, <1>6 DEF Promise!RenderNext

\* A cancelled, rendered or failed job stays what it is in queue mode, whatever ticks,
\* sweeps, retries and deaths do, as long as every cancellation sees the row it writes, no
\* reply is lost and no attempt outlives the stale threshold: what the run rq_overlap refutes is the overlap
\* of requestCancellation with another statement, and nothing else.
THEOREM CancellationsAreFinal ==
    ASSUME ~Slow, \A s \in Settings : ~s.overlap /\ ~s.lossy PROVE Spec => CancelIsFinal
<1>1. Init => ~overlap /\ ~lossy
  BY DEF Init
<1>2. ASSUME TypeInv, ClaimInv, ~overlap, ~lossy, [Next]_vars
      PROVE  /\ ~overlap' /\ ~lossy'
             /\ [\A j \in DOMAIN jobs :
                    queue /\ jobs[j].status \in Ended => jobs'[j].status = jobs[j].status]_vars
  <2>1. UNCHANGED <<queue, overlap, lossy, limit>>
    BY <1>2, SettingKept
  <2>2. SUFFICES ASSUME NEW j \in DOMAIN jobs, queue, jobs[j].status \in Ended
                 PROVE  jobs'[j].status = jobs[j].status
    BY <1>2, <2>1
  <2>3. [Promise!RenderNext]_promised
    BY <1>2, StepPromised
  <2>4. /\ promised = [k \in DOMAIN jobs |-> Seen(jobs[k])]
        /\ promised' = [k \in DOMAIN jobs' |-> Seen(jobs'[k])]
    BY <1>2, <2>1, <2>2 DEF promised, Seen
  <2>5. j \in DOMAIN promised /\ promised[j].status \in Promise!Ended
    BY <2>2, <2>4 DEF Seen, Ended, Promise!Ended
  <2>6. j \in DOMAIN promised' /\ promised'[j] = promised[j]
    <3>1. jobs \in Seq(Job) /\ Live
      BY <1>2, <2>2 DEF TypeInv, TypeOK, Live
    <3> QED
      BY <2>3, <2>5, <3>1, EndedRowsStay
  <2> QED
    BY <2>4, <2>5, <2>6 DEF Seen
<1> QED
  BY <1>1, <1>2, TypeInvariant, ClaimInvariant, PTL DEF Spec, CancelIsFinal

=============================================================================
