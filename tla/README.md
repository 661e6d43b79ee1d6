# Grafista AI Studio: formal models

TLA+ models of Grafista AI Studio, of its server side (`src/apps/api`, `src/packages`) and of the
two pages of its dashboard that keep state, model-checked with TLC and proved about with TLAPS.
Paths below are relative to `src/`; `engine.ts` is `apps/api/src/workflows/engine.ts`.

Grafista turns a brand's references into designs: design DNA is analysed, ideas and briefs are
written, layouts planned, visuals generated, quality-checked, rendered and packaged. AI providers
do the creative work, people approve every artefact, and a workflow engine strings the steps
together. The API is one Node process (or several) over PostgreSQL. Nearly all state lives in
tables; each repository call is one SQL statement, and **no transaction spans two of them** in the
engine. So what can go wrong is what happens *between* statements: another request, another
worker, or the end of the process.

## 1. Inventory

| Component | State | Operations | Correct when | Status |
|---|---|---|---|---|
| **Workflow engine** (`engine.ts`, `step-bindings.ts`, `workflow-*.ts` repositories, `routes/workflow-runs.ts`) | `workflow_runs`, `workflow_steps`, `workflow_step_outputs`, `workflow_approvals`; local variables of the requests under way | start, advance, approve-step, reject-step, cancel; internally `armNextStep` | steps are done in order and once per revision; a gate is decided once and never skipped; a rejection regenerates; an ended run stays ended; nothing unimplemented is passed | modelled |
| **Gate domain decisions** (approve/reject of DNA, ideas, briefs, layout plans, QA reports, visuals) | status of the entity | guarded `UPDATE ... WHERE status`, from a gate or from the entity's own route | only a reviewable entity is decided | modelled, in three modules |
| **Workflow catalog** (`catalog.ts`, `definition-loader.ts`) | definitions loaded at start-up | load, validate, snapshot into the run | the snapshot fixes what a run does | partly: constant `Catalog` |
| **Creative pipeline services** (DNA analysis, ideation, briefs, layouts, QA, visuals and their review routes) | a table per entity, approvals, revision entries | analyse, generate, decide | versions and alternative indexes are unique; what is made rests on something approved; the audit trail agrees with the tables | modelled |
| **Production packaging** (`production-package-builder.ts`, `production-jobs.ts`, `production-gate.ts`) | `production_jobs`, stored packages | create, build, approve, reject | one active job per output, none left behind unless its request dies; decided packages stay decided | modelled |
| **Storage** (`storage/`, uploads of assets and references) | objects on disk or in S3, `STORAGE_PROVIDER` | put, then write the row | every row's coordinates lead to a file | partly: where files go; not the I/O |
| **Render queue and worker** (`render-worker.ts`, `render-jobs.ts`, `render-engine.ts`) | `render_jobs` (status, lock, attempts, due time), worker heartbeats | enqueue, claim, render, retry with backoff, sweep of stale locks, cancel | one worker per attempt, attempts bounded, no job lost, a cancelled job is not rendered again | modelled |
| **Model router and AI calls** (`packages/model-router`, `ai-call-helper.ts`) | one call's attempts and tasks | select a provider, classify errors, retry, poll, aspect ratio | hopeless errors are not retried, attempts bounded, every call ends | modelled |
| **Dashboard** (`apps/dashboard`) | React state of a page, calls under way | buttons, reloads, polling | what is shown comes true; buttons are accepted | partly: the output card and the run page |
| Analytics and revision entries | append-only rows | record, best effort | entries agree with the tables | partly: revision entries |
| Authentication and client isolation | users, sessions, memberships | per-request checks | stateless per request | not modelled |
| HTML rendering, schemas and prompts, HTTP shell, worker stubs, migrations and scripts | text, types | formatting | no protocol of their own | not modelled, see section 11 |

Interactions: a request enters through a route, calls the engine, which calls the generating
service bound to the step (`executeBinding`), which calls the model router. A gate decision calls
the entity's repository *first* and claims the step row *second*. Entities can also be decided
through their own routes, behind the engine's back. Rendering is handed over through the
`render_jobs` table and picked up by a worker loop; packaging and visual generation read what the
pipeline approved. The dashboard calls all of it and shows whichever answer came last.

What is hard here (the complete list, at its lines, is `hazards` in `PROJECT.json`):

- *interleaving*: two `advance` calls pass the same checks; two reviewers decide the same gate;
  a slow worker finishes a job that was swept and claimed again;
- *stale reads*: a request acts on a gate it loaded before the gate was rejected and reopened;
  `setCurrentStep` writes whatever the run's status is by then;
- *partial failure and restarts*: the process dies after a claim and before the next arming, or
  between the two statements that open a gate;
- *slow calls*: minutes pass between the statement that checks an approval and the one that writes
  what was made from it;
- *reordered and lost answers*: a page polls, reloads and clicks at once;
- *bounds*: attempts of render jobs and provider calls at their limits;
- *long sequences*: rejections send a run back any number of times.

## 2. Modules and plan

| Module | Models | Abstract specification, composition | Proofs |
|---|---|---|---|
| `WorkflowEngine` | the engine (section 3) | implements `WorkflowPromise` | `WorkflowEngineProofs`, `WorkflowOrderProofs` |
| `RunPage` | the page of a run (section 9) | extends `WorkflowEngine`: its handlers are request slots | `RunPageProofs` |
| `CreativePipeline` | services and reviews from DNA to QA (section 5) | - | `CreativePipelineProofs` |
| `Production` | visuals, packages, uploads, render requests, storage (section 6) | extends `CreativePipeline`, whose QA and reviews run beside it | `ProductionProofs` |
| `RenderQueue` | queue and workers (section 7) | implements `RenderPromise` | `RenderQueueProofs` |
| `RenderPromise` | what a client of the queue may rely on | composed into `OutputCard` | `OutputCardProofs` |
| `OutputCard` | the card of an output (section 9) | extends `RenderPromise` | `OutputCardProofs` |
| `ProviderCalls` | one AI call (section 8) | - | `ProviderCallsProofs` |

`MC...` modules hold instances for TLC. Every module meant for proofs is free of `RECURSIVE`.

The order was: what the product promises its users first (the engine and its gates), then what runs
concurrently (the queue), then what the gates are about (pipeline, production, AI calls), then who
looks at it (the pages). Every safety property that a passing run checks is also a
theorem (section 10), and so are both refinements; the four liveness properties are not and cannot be.
Left to do: the hazards without a property, and the parts marked *partly* above.

## 3. The workflow engine

### State

| Model | Code |
|---|---|
| `run` | the `workflow_runs` row: `status` (`"none"`: not inserted yet), `current_step_id` as the step's order (0: NULL), `output_json` as the id of the entity it names |
| `def` | `definition_snapshot`: a sequence of steps with their binding kind, gate and `on_reject` target |
| `steps` | `workflow_steps` rows: status and `revision_count` |
| `entities` | everything the steps generate, in creation order: review status, and `low` for a QA score below 50 |
| `outputs`, `approvals` | `workflow_step_outputs`, `workflow_approvals`, in insertion order |
| `req` | per request slot: the next statement (`pc`) and the local variables the engine keeps across statements |

An action is one statement with the reads that immediately decide it. Statements that are guarded
`UPDATE`s are one atomic step with their guard; a value read by an earlier statement (the current
step, the run's output, the gate's revision, the entity) is kept in `req` and may be stale when it
is used.

### Actions

| Action | Code |
|---|---|
| `Start`, `CreateSteps` | `startWorkflowRun`: `workflowRunsRepo.create`, `createMany` |
| `Advance`, `ReadStep` | `advanceWorkflowRun` up to the dispatch, with the self-heal of a step already done |
| `Skip`; `Begin`, `Execute`, `Complete`, `SkipWithNote`, `RecordOutput`, `MergeOutput`, `FailStep` | the branches of advance: `skip()`; `begin()`, `executeBinding`, `complete()`, output row, `mergeOutput`; failure on the step, then on the run |
| `ArmNextStep`, `ReadReport`, `OpenGate`, `SetCurrentStep`, `MarkRun` | `armNextStep`, statement by statement, ending in one `markX` |
| `ReceiveDecision`, `LoadGate`, `FindEntity`, `DecideEntity`, `ClaimGate`, `RecordDecision`, `RecordApprovedOutput` | approve-step and reject-step: load, domain decision, claim, audit row |
| `ResetForRevision`, `Reopen` | the revision loop of `rejectWorkflowStep`; `RevisionTarget` is `resolveRevisionTargetOrder` |
| `Cancel`, `ReviewDirectly` | cancel; the entities' own approve/reject routes |
| `Refuse` | every 403/404/409 after the first read |
| `Interrupt` | the process dies, or a statement throws, between any two statements (`Restarts`) |

`WorkflowPromise` says what users are promised, without requests or rows: steps are done strictly
in order, only a rejection takes steps back, a run completes exactly when every step is done.
`WorkflowEngine!Promise` maps the rows onto it, `KeepsPromise` is its specification.

### Abstractions

- Entities are identified by creation order; a definition has at most one gate, and its gate's
  kind says what its steps generate. This is so in every file of `workflows/`.
- An execution that links several entities (several ideas, several visuals) is one entity and one
  output row. `RecordOutput` stands for the whole loop, so dying inside that loop is not told apart
  from dying before or after it.
- `Execute` summarises a binding by what the engine sees of it, one disjunct per kind: `Generate`
  creates an entity, `RecordContext` needs none, `ReadGenerated` and `VerifyApproved` find one in the
  state they need (or ask for the step to be skipped), `Throw` covers everything that is missing or
  fails. What the services do inside is `CreativePipeline`'s and `Production`'s matter.
- A recording or verifying binding also writes an output row and merges its output into the run
  (step-bindings.ts:368-369, 423-424, 448; engine.ts:510-514). Both name entities of other types than
  the gate's, no decision of the engine reads them, and they are left out: `outputs` and `run.output`
  are about what the run generates.
- `Candidates("design_dna")` is the newest version *of this run*, where `performGateApproval` takes the
  client's newest, from whatever analysis (engine.ts:725): other runs of the client are left out.
- `ReviewDirectly` is one step. For DNA, plans, reports and visuals it is one guarded `UPDATE`; the routes
  of ideas and briefs check and write in two statements, which `CreativePipeline` keeps apart
  (`DecideIdea`, `ReadBrief`, `WriteBrief`).
- Permissions are left out: who may call what is `MayIssue`, chosen by each run.
- Counters have no width to overflow; `MaxRevisions` bounds rejections, in the guard of
  `ReceiveDecision`.
- A request refused on its very first read changes nothing and is a stuttering step.

## 4. Runs of the workflow engine

Definitions in `MCWorkflowEngine` are shortened copies of the shipped ones: every binding kind,
the order around the gate and the real `on_reject` remain, repeated steps of one kind are dropped.
`CHECK_DEADLOCK FALSE` in all runs: a completed run with nothing left to call is meant to stop.

| Run | Instance | Result |
|---|---|---|
| `wf_reviewers` | 3 slots: one drives, one reviews, one reviews, cancels and uses entity routes; all 7 definitions; 1 revision; no crash. 354,245 states | `TypeOK`, `RevisionRegenerates`, `RevisionsMatchRejections`, `LowScoreBlocksGate`, `KeepsPromise` hold |
| `wf_concurrent` | 2 slots on every engine endpoint; 3 short definitions; 1 revision; crashes. 2,352,495 states, slots symmetric | `OneExecutionPerRevision`, `OneDecisionPerRevision`, `RevisionsAreAudited`, `FutureNeverPassed`, `TerminalIsFinal` hold |
| `wf_double_advance` | 2 slots, 7 definitions, no crash | `NoGateSkipped` violated |
| `wf_restart` | 1 slot, 7 definitions, crashes | `RearmRecovers` violated |
| `wf_stale_decision` | 3 slots, one drives, no crash | `NoStaleDecision` violated |

Why the bounds are enough to be interesting: two requests produce every pairwise race of
statements (claims are on single rows, so a third request adds no new kind of race to the
exclusiveness properties, and section 10 proves these for any number); one revision is enough for a
stale decision, a reset and a reopened gate; two show that the loop repeats.

The audit trail is seen from two sides. `RevisionsAreAudited`: at any moment, in the middle of races
and after crashes, a gate that was sent back has its rejection on record, for every revision it left.
The other direction, that the rejections number the revisions, needs the reset to follow its row, so
`RevisionsMatchRejections` is for runs without crashes: a request that dies after the row leaves a
rejection whose revision was never counted up.

Who may call what matters. The engine's guarded `UPDATE`s are exclusive under any race and crash
(`wf_concurrent`), but the order of the steps is only kept while a run has *one driver*
(`wf_reviewers`): with two, or with a crash in the wrong place, the self-heal of `advance` skips a
gate. `LowScoreBlocksGate` belongs to the second kind: the score is read when the run arrives at the
gate (`ReadReport`), and with several advances one that arrived earlier can open the gate over a
report that another has generated since. It is about undecided reports: deciding a report through its
own route is a human override of the score, before the run arrives or after.

### Findings

1. **A gate can be skipped by two advances** (`wf_double_advance`). engine.ts:10-15 promises gates
   "cannot be skipped". Two `advance` calls on the same step: the first completes it and opens the
   gate; the second has read the completed step and re-arms (295-303), finds the step *behind* the
   gate as the next pending one and makes it current. The next advance executes it.
2. **Re-arming after a crash is not idempotent** (`wf_restart`). If the process dies between
   `steps.wait` (180) and `setCurrentStep` (181), the gate waits but is not current; the retried
   advance, said to recover the run, arms the step behind it.
3. **A decision can land on a revision its reviewer never saw** (`wf_stale_decision`). The claim
   compares the status only; if the gate was rejected, regenerated and reopened meanwhile, the slow
   approve claims the new revision instead of getting the promised 409.

Also seen, without a run: migration 013:44 says `current_step_id` is "NULL when terminal", but only
`markCompleted` clears it. `GET /workflow-runs/:id` reads run and steps in two statements and can
answer with a pair that never existed.

### Fairness and liveness

The specification assumes no fairness, and no liveness is claimed. Every step of a run is started
by a person's HTTP call; nothing in the code makes anyone call, and there is no scheduler or
recovery job for runs. The safety form of progress is `OfferIsAccepted` of the run's page (section
9): once all is quiet, there is a next call that works, and the page offers it. It holds for one page
without crashes, with the exceptions named there; a crash in `execute` or after a claim, or a
rejection whose arming comes late among several reviewers, leaves a run that only `cancel` can end (a
hazard without a property).

## 5. The creative pipeline

`CreativePipeline` has the tables of one client as sequences of rows in creation order (foreign keys
are positions, 0 is NULL) and `Requests` as slots that each run one handler, statement by statement,
with the handler's locals in `req[r]`. AI calls lie between statements, so a handler may write long
after it read. Any handler may die between two steps (`Interrupt`); a failing statement or call ends
it with an error answer (`Refused`).

| Action | Code |
|---|---|
| `StartAnalysis`, `AnalyseReference`, `SynthesiseDna`, `InsertVersion` | `design-dna-analysis.ts`: one pass per reference, the synthesis, and the `INSERT` whose CTE computes the version, in two steps because the CTE sees the statement's snapshot and the unique index decides at the end |
| `StartIdeation`, `CreateIdea` | `content-ideation.ts` |
| `DecideIdea`, `SetApprovalOutcome` | `routes/content-ideas.ts`: approval row first, then the idea |
| `ReadIdea`, `CreateBrief` | `design-brief-creation.ts` |
| `ReadBrief`, `WriteBrief` | `routes/design-briefs.ts`: guard on what was read, unguarded `updateStatus` |
| `StartLayout`, `ReadLayoutDna`, `AskLayout`, `CreatePlan` | `layout-generation.ts` |
| `StartQa`, `ReadQaBrief`, `ReadQaDna`, `SaveReport` | `creative-qa.ts` |
| `ReadReviewed`, `ApproveReviewed`, `RejectReviewed`, `RecordEntry` | the review routes of DNA, plans and reports with their guarded `UPDATE`s and best-effort revision entry |

Left out: what a model writes (only the number of items, a usable answer or a failure, and the QA
verdict are seen), prompts, names and texts, other clients.

| Run | Instance | Result |
|---|---|---|
| `creative_pipeline` | 2 slots, 3 requests, 1 death, 2 references, up to 2 ideas and 2 or 3 alternatives, from 4 databases. 301,139 states, slots symmetric | `TypeOK`, `VersionsInOrder`, `VersionsAnalysed`, `BriefsRestOnAnApproval`, `WorkRestsOnApprovedDna`, `ReportsJudgeApprovedPlans`, `AuditAgrees` hold |

Three requests are two that race and one that came before or after; the four databases (a new
client, ideas, layouts, a failed report) put them at every stage, so that no run has to walk through
the whole pipeline. Four requests (6.9 million states) hold as well; the run stays smaller.

Also seen: `routes/design-briefs.ts` :83 and :98 check a status and then write without a guard, so of
two racing reviews both are answered with success and the later one stands (a hazard without a
property: the code promises nothing here). design-dna-analysis.ts:50-54 promises that a failing run
"persists nothing at all": it leaves no version (`VersionsAnalysed`), but the `design_analysis` rows of
the references it got through stay. The "no partial/broken LayoutPlan rows on any failure" of
layout-generation.ts:10-11 is so for an answer that is refused, not for an `INSERT` that fails
between two alternatives.

## 6. Production, uploads and storage

`Production` extends the pipeline: *makers* make files while QA runs and reviews of the pipeline
(`Judge`) go on. `objects` is what storage holds; a file's coordinates are provider and key, and
`SwitchStorage` is a deployment that changes `STORAGE_PROVIDER` at any moment.

| Action | Code |
|---|---|
| `StartUpload`, `PutUpload`, `InsertUpload` | `routes/brand-assets.ts`, `routes/design-references.ts`, `storage/file-service.ts` |
| `StartVisuals`, `CountOutputs`, `AskImages`, `RecordRunFailure`, `PutImage`, `InsertOutput`, `InsertFailedImage` | `visual-generation.ts`: the gate, `alternativeIndexBase`, the provider's answer, and per image its file and row, or a failed row |
| `ApproveOutput`, `RejectOutput` | `routes/visual-outputs.ts`, one guarded `UPDATE` each |
| `StartPackage`, `FindActive`, `CreateJob`, `MarkPackaging`, `PutPackage`, `MarkReady`, `MarkFailed` | `buildProductionPackage` |
| `DecideJob` | `routes/production-jobs.ts` |
| `StartRender`, `CreateRender` | `render-gate.ts` and the `INSERT` of a render job; what happens to the job is section 7 |
| `InterruptMaker` | the process dies, or a statement outside any `try` fails |

Left out: the bytes, the manifest, MIME types and sizes, and the reading of files. Keys are fresh
(`crypto.randomUUID`), except a package's, which is made of its job's id.

| Run | Instance | Result |
|---|---|---|
| `production` | 2 makers with 3 requests, 1 reviewing or judging request, 1 death, 1 switch of 2 providers, at most 2 uploads and 1 image a run, from a cleared plan without or with one image. 2,748,670 states, makers symmetric | `ProductionTypeOK`, `IndexesContinue`, `FilesAreThere`, `OutputsOfApprovedPlans`, `AbandonedJobsBounded`, `DecidedJobsStay` hold |

Three making requests, two at a time, give every pair of racing builders, image runs and uploads and
what a third finds afterwards. Two things the properties spell out as conditions: indexes may repeat
when two runs of one plan overlap (`overlapped`; the uniqueness visual-generation.ts:148-152 argues
for is per run), and a death between creating and finishing a package leaves a job that blocks its
output for ever, at most one per death (`AbandonedJobsBounded`): nothing sweeps `production_jobs`.

Not modelled here are lost replies of committed statements (`MarkReady` and `InsertOutput` fail without
having written). In the code such a reply leads into a catch block: a lost one to the `package_ready`
update marks the finished job `failed` (production-package-builder.ts:563-598), a lost one to the
`INSERT` of an image adds a second, failed row with the same index (visual-generation.ts:295, 339). So
`DecidedJobsStay` and `IndexesContinue` are about a database that answers.

Also seen: the header of `production-gate.ts` says "nothing calls this function today"; visual
generation does.

## 7. The render queue

`render_jobs` is a queue in a table. `setInterval` starts a *tick* every few seconds in every
process whether or not earlier ticks are still rendering, so `RenderQueue` has ticks, not
processes: a tick claims a due job, sweeps stale locks, renders and writes the outcome. The job is
the oldest one, or a younger one when `SKIP LOCKED` passes over rows being written.
With `RENDER_QUEUE_ENABLED` off, a request creates its job and renders it itself, without lock or
retry (`callers`). `Settings` lets one run cover several deployments and timings.

| Model | Code |
|---|---|
| `jobs` | `render_jobs` in creation order: status, `cancellation_requested`, `attempt_count`; `locked` is `locked_by IS NOT NULL` (no statement looks at *who* holds it), `due` is `next_run_at <= NOW()`, `stale` is `started_at` past the threshold; `artifacts` counts its `export_artifacts` rows |
| `ticks`, `callers` | next statement and locals (`attempt` is `attempt_count` as loaded) |
| `cancel` | the one cancellation statement under way and the status its CTE `old` saw |
| `EnqueueRenderJob`, `ReadOldStatus`, `RequestCancellation` | `enqueueRenderJob`, `cancelRenderJob` |
| `ClaimNext`, `SweepStale`, `SweepExhausted`, `LoadJob` | `processNextRenderJob` up to the attempt; `claimNext`, `resetStaleLocks` |
| `RunRenderPipeline`, `CheckCancellation`, `Throw`, `HandleError`, `MarkRendered`, `MarkCancelled`, `MarkFailed`, `MarkRetry` | `processRenderJob` |
| `CreateSync`, `StartSync`, `RenderSync`, `SaveSync`, `FailSync` | the synchronous branch of `renderProductionJob` |
| `LoseReply` | `markRendered` commits and its reply is lost: the catch block goes on as after a failure |
| `BackoffExpires`, `LockExpires` | the passing of time |
| `TickDies`, `CallerDies` | the process dies, or a statement outside the `try` throws |

*Statements as steps.* `claimNext` takes its row with `FOR UPDATE SKIP LOCKED` and every sweep
statement has its condition in the `WHERE`, so each has the effect of an atomic step. The
cancellation has not: its CTE is read with the statement's snapshot (READ COMMITTED, the pool's
default) and the `UPDATE ... WHERE id` continues on whatever version of the row it gets the lock
for. With `overlap` these are two steps. Heartbeats and analytics events swallow their errors and
change no job. The renderer and the storage are one step that may throw before or after the
artifact row. Which errors are permanent is left open: any attempt may fail for good.

| Run | Instance | Result |
|---|---|---|
| `rq_queue` | 2 ticks, 1 synchronous request, 2 attempts, 2 deaths, in three settings: 2 jobs in queue mode; 1 job whose cancellations overlap and whose results may commit unanswered; 2 synchronous jobs. 278,116 states | `TypeOK`, `OneTickPerJob`, `AttemptsBounded`, `KeepsRenderPromise`, `StopsForGood`, `EveryJobEnds` hold |
| `rq_overlap` | 2 ticks, 1 job, cancellations overlap | `CancelIsFinal` violated |

Two attempts are the smallest maximum with a retry and an exhausted attempt, and a failed attempt
followed by a death reaches the exhausted branch of the sweep. Two ticks and two jobs give every
pairwise race and both choices of a claim. The rough setting has one job, since a cancellation and a
lost reply are about one row; with two jobs and one death it has about a million states, where the
invariants hold as well. Section 10 proves the safety properties for any number of jobs. `Slow = FALSE` is the deployment's own assumption: a
render ends well before the 15 minutes of `RENDER_JOB_STALE_LOCK_MS`; the code neither enforces it
nor renews a lock. With `Slow = TRUE` `AttemptsBounded` fails (see below).

`RenderPromise` is the same table for those who request, watch or cancel a render: a render waits,
is attempted at most `MaxAttempts` times, and ends; a waiting one is cancelled at once, a rendering one
is asked to stop; whatever ended stays as it is. `KeepsRenderPromise` says that the queue implements
it, in queue mode and while no cancellation overlaps another statement and no reply is lost.

`StopsForGood` is about what happens *after* a request to stop: from then on, whatever errors, retries,
deaths, sweeps and lost replies follow, the job is not attempted once more and not delivered. It spans
several ticks, since the flag has to survive the retry or the sweep that sends the job back, and it
holds in every setting. Excepted is an attempt past its last look at the flag: `CheckCancellation` and
`MarkRendered` are two statements.

*Fairness.* `EveryJobEnds` assumes that ticks keep being started (`setInterval`), that each
statement of a tick or a request returns or throws, and that time passes. Nobody has to request,
cancel or die. Deaths are bounded by `MaxDeaths`: with endless deaths the attempts run out and the
sweep fails the job as well, but a tick must survive to sweep. The property has one exception,
`Stranded`: a job that was asked to stop and then sent back to waiting, because its tick died or
because its retry was already decided. `claimNext` skips it for ever; cancelling it again ends it.

Finding:

4. **A cancellation that overlaps a claim cancels a running job** (`rq_overlap`), and the attempt
   then writes `rendered`, `queued` or `failed` over it. The comment at render-jobs.ts:303-306 takes
   the CTE for equivalent to the row's own column; under a concurrent update it is not.

Also seen, without a run: `markRendered` is called "Success — terminal 'rendered'"
(render-jobs.ts:210), but it is awaited inside the `try` block (render-worker.ts:134). When it commits
and its reply is lost, the catch block (155-189) requeues the delivered job, fails it or cancels it
(`LoseReply`, hence the condition of `KeepsRenderPromise`).
With `Slow = TRUE` a slow attempt exceeds the maximum of attempts. Its retry
decision uses the attempt number read when it began, and its `markRetry` (`WHERE id` only) requeues a
job whose last attempt is already running, against render-queue-env.ts:32 ("first attempt + 2
retries"). The sweep sends a stranded job back to `pending` "so it is immediately eligible again"
(render-jobs.ts:391), but `claimNext` skips rows with `cancellation_requested`.

## 8. AI calls

`ProviderCalls` is one call of a model as a service makes it: `ModelRouter.complete` selects a
provider (`Select`, by `DEFAULT_ROUTING`, keys and capabilities), the adapter tries (`Ask`; for Kie AI
`CreateTask`, `Sleep`, `FetchRecord`, `GiveUpPolling`), `executeWithClassifiedRetry` classifies a
failure and retries or gives up (`Failed`, `Resume`), and `callAiForJson` asks once more after an
answer it cannot use (`Answered`). A failure is its HTTP status and the set of message patterns it
matches, so every combination is tried. Times are left out: a deadline may come in any round.

| Run | Instance | Result |
|---|---|---|
| `provider_calls` | 4 task types (one per routing chain), 4 sets of keys, 3 default providers, 6 statuses (one per branch of the classification) or none with every set of patterns, 4 canvases, 2 rounds of polling. 421,524 states | `TypeOK`, `AttemptsBounded`, `HopelessEnds`, `RoutedToAble`, `RatioNearest`, `EveryCallEnds` hold |

`RatioNearest` checks the snapping of a canvas to Kie AI's ratios against a definition of its own: the
loop compares absolute log distances, the property compares geometric means. `EveryCallEnds` assumes
that network calls are answered, fail or are aborted, and that sleeps end; it does not assume that
Kie AI ever ends a task.

Also seen, without a run: `DEFAULT_VISION_PROVIDER` (openai.ts:10-12) is never read, and with
`AI_DEFAULT_PROVIDER=claude` the requested provider wins whatever it can do, so that vision tasks go
to a text-only adapter: `RoutedToAble` is about calls whose request names no available
provider. The "fallback chains" of router.ts:5 are used when a provider is not configured, never
when it fails. Kie AI's own timeout text (kie-ai.ts:275) matches no pattern and is retried as
`unknown`, while provider-retry.test.ts:94 shows a text the adapter never produces. A lost reply to
`createTask`, or one failing poll, makes another task, which is paid for again.

## 9. The dashboard

### The page of a run

`RunPage` extends `WorkflowEngine`: some request slots are the page's handlers, one of them the
cancel button, which stays usable while another handler is busy. A handler calls, then reloads in two
reads (run, then steps), and what is shown is what the last reload brought. A failing reload leaves a
page without a run. The other slots are people who review the run's entities elsewhere.

| Run | Instance | Result |
|---|---|---|
| `run_page` | 2 handlers and 1 reviewer, 7 definitions, 2 revisions, no crash. 84,009 states | `OfferIsAccepted` holds |

`OfferIsAccepted`: once everything is quiet and a run is shown, a live run has a button besides
cancel, and the engine carries out whatever a button asks for. `Accepts` follows a call through all
its checks to its first write: the run's status, the current step, the gate's status, and the guard of
the entity that the call decides (`Decidable`, for what `Selectable` says the page lets its user
choose). That composes three pieces of code that know nothing of each other, `showAdvance`
(page.tsx:256), the guards of `engine.ts`, and those of the entities; and it says something about
revisions: a gate is never open again on an entity that the run itself has rejected. It has two
exceptions, and both are stated in it:

- `PlaceholderGate`: the two gates that `GATE_KINDS` has no entry for, where the page itself announces
  that the server will refuse;
- `DecidedElsewhere`: somebody decided the entity through its own route while the gate waited. Then
  `performGateApproval` and `performGateRejection` answer with 409 (engine.ts:727-729, 809-812,
  823-826).

Assumed: the answers of calls arrive (a lost one leaves the page as it was until somebody reloads it),
and a gate that can be decided stands behind a step that generates (`SubjectAssumption`, true of every
file in `workflows/`).

Also seen: an entity decided elsewhere parks its run. Neither the run nor the page learns of the
decision, both buttons are offered, and where the entity's guard admits neither, the run can only be
cancelled.

Also seen: `showAdvance` needs a `pending` current step, so the engine's self-heal of a done one
cannot be reached from the page; the comment at `GATE_KINDS` (51-60) takes every unlisted gate for an
unimplemented feature, but `generated_output` is implemented and cannot be decided there.

### The card of an output

`OutputCard` is `visual-outputs-panel.tsx` for one output: a bag of calls under way, answered and
handled in any order and some never (`Lose`); the state of the component; its two effects, which run
when their dependencies change (`Rerender`); its poller. The API behind it is exact in what it
answers, the queue is `RenderPromise` (a theorem says `RenderQueue` implements it), and another person
sends, decides, renders and cancels at any time.

| Run | Instance | Result |
|---|---|---|
| `output_card` | 2 clicks or deeds of the other person, 2 calls under way, 1 lost, from an empty output or a rendered package, 2 attempts. 609,301 states | `CardTypeOK`, `UnfinishedIsPolled`, `ShownComesTrue`, `FinishedShowsLinks` hold |

*Fairness.* Every kind of call is answered and its answer handled in the end, the timer fires, and
workers work on every render; nobody has to click. Retries and sweeps (`Setback`) need no fairness:
their number is bounded by the attempts. *Assumed:* React renders one answer and runs its effects
before the next is handled; `RENDER_QUEUE_ENABLED` is on; the output is `generated`.

Also seen: the comment near line 248 says `renderJob` "always mirrors the LATEST entry of
renderHistory"; an empty history (a rejected package sent again) leaves the old render on the card,
and a late history answer shows an older render. A first load of the jobs that comes late overwrites
what a click brought. A job answered as `packaging` is never asked about again. A lost history
reload leaves a rendered job without links (`FinishedShowsLinks` is about loads that are not lost).
The other pages load once and show what they got, or submit a form; `layout-plans` and `content`
hold lists that a late load can overwrite in the same way, and are not modelled.

## 10. Proofs

TLAPS proves the following for every value of the constants that satisfies the modules' named
assumptions, which TLC evaluates in the runs. "~Slow", "one driver" and the like are assumptions
of the theorems themselves, and the text below says why each is needed.

| Theorem | Says |
|---|---|
| `WorkflowEngineProofs!TypeCorrect`, `TerminalStaysFinal` | `[]TypeOK`, `TerminalIsFinal` |
| `WorkflowEngineProofs!StepsRunOnce`, `GatesDecidedOnce` | `[]OneExecutionPerRevision`, `[]OneDecisionPerRevision` |
| `WorkflowOrderProofs!FutureIsNeverPassed`, `RevisionsHaveATrail` | `[]FutureNeverPassed`, `[]RevisionsAreAudited` |
| `WorkflowOrderProofs!EngineKeepsPromise`, `GatesAreNotSkipped` | `KeepsPromise` (the refinement of `WorkflowPromise`), `[]NoGateSkipped`, with one driver |
| `WorkflowOrderProofs!RevisionAlwaysRegenerates`, `TrailAccountsForRevisions`, `LowScoresStayBlocked` | `[]RevisionRegenerates`, `[]RevisionsMatchRejections`, `[]LowScoreBlocksGate`, with one driver |
| `WorkflowOrderProofs!DecisionsAreSeen` | `[]NoStaleDecision`, with one decider |
| `RunPageProofs!OffersAreAccepted` | `[]OfferIsAccepted`, with one handler |
| `RenderQueueProofs!TypeCorrect`, `StoppedRendersStay` | `[]TypeOK`, `StopsForGood`, in every setting |
| `RenderQueueProofs!RenderedByOneTick`, `AttemptsAreBounded`, `RenderedHasAFile`, `QueueKeepsPromise` | `[]OneTickPerJob`, `[]AttemptsBounded`, `[]RenderedHasArtifact` (what `KeepsRenderPromise` says of files, in every setting), `KeepsRenderPromise` (the refinement of `RenderPromise`), if `~Slow` |
| `RenderQueueProofs!CancellationsAreFinal` | `CancelIsFinal`, if `~Slow` and no setting has overlaps or lost replies |
| `OutputCardProofs!EndedIsFinal`, `RenderedIsDownloadable` | what every implementation of `RenderPromise` has |
| `OutputCardProofs!CardIsTyped`, `PollerIsRight` | `[]CardTypeOK`, `[]UnfinishedIsPolled` |
| `CreativePipelineProofs!PipelineTyped`, `VersionsAreInOrder`, `VersionsAreAnalysed`, `BriefsAreApproved`, `WorkUsesApprovedDna`, `ReportsAreAboutApprovedPlans`, `AuditAlwaysAgrees` | all seven invariants of `creative_pipeline` |
| `ProductionProofs!ProductionTyped`, `FilesAreAlwaysThere`, `OutputsAreOfApprovedPlans`, `IndexesAlwaysContinue`, `AbandonedJobsAreBounded`, `DecisionsAreFinal` | the five invariants of `production` and `DecidedJobsStay` |
| `ProviderCallsProofs!CallsAreTyped`, `CallsAreBounded`, `HopelessFailuresEnd`, `CallsReachTheAble`, `RatiosAreNearest` | `[]TypeOK`, `[]AttemptsBounded`, `[]HopelessEnds`, `[]RoutedToAble`, `[]RatioNearest` |

### The engine: claims

For every `Catalog` of non-empty definitions, every set of `Requests` (finite or not), every
`MayIssue`, any `MaxRevisions`, with or without `Restarts`.

`TypeOK` is not inductive, since a request writes the step it works on: `TypeInv` adds that this
step exists, that a decision was taken before it is written, and that a run without definition has
no rows. One lemma per group of actions shows it is preserved; `MovesOn` covers the ways a request
goes on. `TerminalStaysFinal` then only needs the guards of `markX`, `Reopen` and `Cancel`.

Exclusiveness is about *keys*, a step with one of its revisions. `WorkflowEngineProofs` calls a key
`Taken` when the step has moved past that revision, or is in it with a status other than `pending`
or `waiting_for_approval`. The argument, `ClaimInv`:

- a taken key stays taken (`StaysTaken`): only `resetForRevision` returns a step to `pending`, and
  it counts the revision up; only a pending step is sent to `waiting_for_approval`;
- a claim (`Begin`, `ClaimGate`) takes a key that was free, so no other request holds it and no row
  carries it;
- who still has a row to write holds the key, and its row is not there yet (`OutputsAhead`,
  `AuditsAhead`); writing the row ends that.

`OutputsAhead` is what makes `OneExecutionPerRevision` inductive: without it, a state in which a
request is about to write a row that already exists satisfies the property and steps out of it.

### The engine: order

`FutureIsNeverPassed` needs no hypothesis: whoever calls and whatever dies, `FutureInv` says that no
request works at or names a step behind a future one, and that none that may write works on the future
step itself. `EmptyOK` covers the time between the `INSERT` of the run and that of its steps.

Everything else about the order is stated for `SingleDriver` (one slot starts and advances; any
number approve, reject, cancel and use the entities' own routes) and `~Restarts`. Neither can be
dropped: `wf_double_advance` refutes `NoGateSkipped` for two drivers, and `wf_restart` refutes
re-arming after a crash (findings 1 and 2). Both hypotheses hold in `wf_reviewers`, and under them the
very `NoGateSkipped` that finding 1 violates is a theorem. `OrderInv` rests on two notions:

- the *front*, the first step that is not done. Whatever is behind it is pending (`InOrder`), and
  what is under way is the front;
- the *holder*, the one request (`OneHolder`) that has claimed the front or is arming the run.
  `Right` says, per statement, how the holder's locals relate to the front; a step named by
  `current_step_id`, or read by a driver, is `Reachable`: the front with nobody holding it, or parked
  on a gate or a future step. That is where a second driver breaks the proof: the first completes the
  step that the second has read, which then is done and not the front.

*Refinement.* The abstract run counts its done steps, and `DoneBeforeFront` says that they are those
before the front. So a statement that writes the front is a step of `WorkflowPromise` (`RowsMove`),
one that writes the run's status is another (`StatusMove`), and all others stutter. A reset goes
back to `RevisionTarget`, the greatest of a set, which has to exist (`HasGreatest`).

*Revisions.* `RevInv`: the steps between a gate and the target of its rejection have one
revision, since `resetForRevision` counts them together and nothing else counts; a completed
generating step has, or its request is about to write, an output row of its revision; a gate's
rejections number its revisions, and one more while a reset is under way. `GatesAssumption` says what
the definitions in `workflows/` have: one gate, a target that is not behind it, and a generating step
at or before that target.

*The trail.* `RevisionsHaveATrail` needs no hypothesis: any number of drivers, with `Restarts`. `AuditInv`
adds to `ClaimInv` that a request about to reset a gate has its rejection on record for the gate's
present revision (`AuditOK`) and that no other request is about to reset the same gate (`OneReset`).
A second one would have had to write its row for the same revision, and `AuditsAhead` says that a
claimant's row is not there before it is written (`NoOtherClaim`).

*Scores.* `LowInv` says that from the moment the report is read until the gate is decided the newest
entity is not an undecided low one: only `Execute` makes a newer one, and its step would be the front
instead of the gate. `LowScoreBlocksGate` is false with three concurrent advances, for the cause of finding 1.

*Stale decisions.* Finding 3 takes somebody who rejects between the moment another reviewer loads the
gate and his claim. `DecisionsAreSeen` says that it takes no less: if whoever may reject is the only
one who decides (`OneDecider`), decisions land on the revision that was shown, for any number of drivers
and with `Restarts`, because no other statement counts a revision (`SeenInv`).

### The page of a run

`OfferIsAccepted` relates what a page shows to what the engine would do. `OneHandler(h)` says that all
other slots cancel or review entities elsewhere. So it is on one page: approving and rejecting disable
each other (page.tsx:384-401), advancing is never offered beside them, and only cancelling goes on beside a
busy handler. A second page of the same run would be a second handler. `PageInv(h)` says while the run
is live

- at each statement of `h`, what the run's row says (`Steered`): whenever `h` is idle, the run can be
  advanced or its gate decided; who arms a run that still says it waits has approved its gate, which
  is the only one (`GatesPassed`, by `GatesAssumption`);
- when the page is fresh, and then that it shows the rows or nothing (`ShownOK`); in between, that
  what a reload has read so far is what the rows say (`ReadOK`), although reloads of a cancelling
  handler overtake it: these only start once the run has ended (`OthersCancel`).

That makes the engine's own checks pass. That the entity's guard passes as well is `FreshInv(h)`'s
matter, on top of `OrderInv`, `RevInv` and `LowInv`: every row of the trail names an entity that exists,
and from the moment a step has generated again until its gate is decided, all the trail's entities are
older than the newest (`TrailBehind`), because a rejection sends the run back to a step that generates
before the gate opens again (`ToRegenerate`). So at a quiet waiting gate (`WaitsForLatest`) the page
offers the newest entity, no row of the run decides it, and if its status is no longer `generated`,
somebody else's route changed it: `DecidedElsewhere`.

### The queue and its promise

For any sets of ticks and callers, any bounds and any `Settings`. `TypeInv` adds to `TypeOK` that a tick
past its sweep names a row. `ClaimInv` is what an attempt relies on while none outlives the stale
threshold (`~Slow`): `TickOK` says that the job of a tick is `rendering`, locked and not stale, with
the attempt number the tick has read, and with an artifact once the tick has made one; `RowOK` bounds
attempts and gives a rendered row its artifact; no two ticks have one job. `LockExpires` is the
only step that could break it, and under `~Slow` it needs a tick that has died. With `Slow` the
theorems are false: TLC finds a slow attempt whose `markRetry` (`WHERE id` only) requeues a job that
runs its last attempt, against render-queue-env.ts:32 ("first attempt + 2 retries").

`StoppedRendersStay` needs none of this: it holds with `Slow` attempts too, whose late results meet
later attempts. Of a row that was asked to stop, no statement clears the flag or claims it, and only an
attempt that is at `save` can deliver it (`StopKept`); while the flag is set no tick comes to `save`
(`NoneComesToSave`). So `Stopped` is preserved by every step, and it includes what the property
promises. Late results come only with `Slow`, which no run has: for them the theorem is the evidence.

`QueueKeepsPromise` is the refinement. `promised` shows each row of `render_jobs` without lock, due
time and worker (`Seen`); lemmas show for each statement that the seen rows make a step of
`RenderPromise` or none. A sweep is one step for all rows it takes, so `ReturnRenders` and
`GiveUpRenders` take sets. It is stated for queue mode without overlapping cancellations and
lost replies (`Live`); outside it `promised` is empty, since the code promises nothing (finding 4, hazards).
`CancellationsAreFinal` follows from it: without overlap, the property that finding 4 violates holds.

### Pipeline and production

`CreativePipelineProofs!Inv` has three parts: keys and statuses of the tables fit together (`KeysOK`),
entries agree with the tables (`EntriesOK`), and every handler may rely on what it read (`LocalOK`). The last
is the point: between a handler's read and its write any number of others write. The argument is one
relation, `Grows`: no statement removes a row, changes an approval, forgets that a DNA version was
approved, or changes the status of a decided plan or report. `OthersKeep` shows that `LocalOK`
survives a step that grows the tables, so each action only has to show that it grows them and that
its own handler is right. `StartsAssumption` says that the initial database is consistent in the
same sense.

`VersionsAnalysed` counts: a run that has analysed a reference but not inserted its version needs an
analysis that no version has used up. `AnalysedInv` says that versions and such runs (`Holders`)
together are at most the reference's analyses, so that a race of `INSERT`s for one version leaves a
spare analysis and never a version without one.

`ProductionProofs` reuses it: `NextInv` covers the pipeline's steps as they stand, makers leave its
tables alone, and all a maker relies on of the pipeline is that an approved plan stays approved
(`PlansStay`). Its own invariant says that a builder past its `INSERT` owns its job, which is open and
without a file (`OpenJob`), that no two builders own one job and no two uploads one file (`Apart`).
That is why the unguarded `updateStatus` cannot undo a decision: only open jobs have a builder, and
only jobs without one can be decided. That keys are fresh needs finitely many objects (`KeyIsFresh`).

`AbandonedJobsAreBounded` follows step by step: a maker that goes on keeps its job or has ended it, so
only a death can leave one behind, and it leaves at most the one the maker held. For
`IndexesAlwaysContinue`, as long as no two runs of one plan overlapped (`IndexInv`), makers that
generate have different plans, and the base a maker has read plus the images it has stored is the
number of its plan's outputs (`BaseOK`): a failed image takes an index as well, so nothing that fails
leaves a gap. `MadeBeforeAssumption` asks the outputs a run starts from to be numbered likewise.

### AI calls

`ProviderCallsProofs!Inv` counts: `call.attempt` is the number of entries this round has in the log,
and they are its last ones (`CountOK`), so that entries of one round are at most two places apart
(`Near`) and a shaky failure after which the round goes on was its first (`ShakyFirst`). It leaves the
adapter open. Which one is selected and which ratio is sent is `RouteInv`'s matter.

*Routing.* A request that names a provider names the default one, and `env.ts` refuses to start without
the keys of OpenAI and Claude (`ProviderAssumption`): only image requests ever come to the fallback
chain. `SelectedIsAble` is about these: the candidates are places of the chain whose adapters are able,
and the one taken is the first that is available (`FirstIsOne`), else the first of all.

*Ratios.* `LoopRound` says that a round of `normalizeAspectRatio` keeps the nearest ratio seen so far,
`LoopOfTen` unrolls it over the ten ratios; "nearer" is a comparison of cross products, which is a
transitive order on positive sizes (`WiderTransitive`), and no logarithm is needed.

### The card

For any set of calls and any bounds. Every new state of the card goes through `Rerender`, so there are
two cases. If a dependency of the polling effect changed (`PollKey`: the render shown, its status, or the job),
the poller is set up anew, and it runs exactly if the render is unfinished. Otherwise the render shown is as
unfinished as before, and what keeps the poller right is that `ReceivePoll` stops it exactly with the
answer that ends it. Which answers can arrive does not matter for this: `CardShape` types no more than
the card's own fields.

What can arrive is `CardIsTyped`'s matter. `TypedCard` gives every call in the bag and everything
shown a range that ends with the newest job and render: rows are only added, so what was in range when
a call was sent is in range when its answer comes, however late.

### Only model-checked

`EveryJobEnds`, `EveryCallEnds`, `ShownComesTrue` and `FinishedShowsLinks`: they are liveness properties
under fairness, whose proof needs `ENABLED` and is out of the prover's reach. The four violations
(section 4, finding 4) are counterexamples and need no proof.

## 11. Not modelled

- *Authentication and client isolation*: checks of a request against tables one administrator edits;
  each is one read, and nothing is kept between requests. Permissions enter as `MayIssue`.
- *HTML rendering and composition*: layout arithmetic and text, without state. For the queue it is a
  step that may throw.
- *Schemas and prompt engine*: types and texts; the enumerations are the modules' types.
- *HTTP shell, migrations, scripts, worker stubs*: routing, DDL, seeds and placeholders. Constraints
  of the schema are used where a module relies on them.
- *Workflow catalog*: parsing and validation happen once, before anything runs; the shapes that
  result are the constant `Catalog`.
- *Analytics*: events never fail their caller and are only summed up.
- *The rest of the dashboard*: pages that load once or submit a form.

## 12. Running

    tlc -workers 2 -config WorkflowReviewers.cfg MCWorkflowEngine.tla
    tlc -workers 2 -config CreativePipeline.cfg MCCreativePipeline.tla
    tlc -workers 2 -config Production.cfg MCProduction.tla
    tlc -workers 2 -config RenderQueue.cfg MCRenderQueue.tla
    tlc -workers 2 -config ProviderCalls.cfg MCProviderCalls.tla
    tlc -workers 2 -config RunPage.cfg MCRunPage.tla
    tlc -workers 2 -config OutputCard.cfg MCOutputCard.tla
    tlapm WorkflowOrderProofs.tla

and likewise the other `Workflow*.cfg`, `RenderOverlap.cfg` and `*Proofs.tla`. The longest run takes
two to three minutes, all proofs together a few minutes.

Operators named `Mutant...` are deliberately broken versions of the definition that follows them.
Putting one in its place must make the property named in `PROJECT.json` fail.
