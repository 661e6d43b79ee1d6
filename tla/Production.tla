------------------------------ MODULE Production ------------------------------
(***************************************************************************)
(* From a cleared layout plan to files: visual generation, the review of   *)
(* generated outputs, production packages and their review, the creation   *)
(* of render jobs, the upload of brand assets and design references, and   *)
(* the object storage they all write to.  Composed with CreativePipeline:  *)
(* reports are judged and plans decided while images are made.             *)
(*                                                                         *)
(* A row is written only after its file (storage/file-service.ts), and     *)
(* keeps the name of the provider the file went to: STORAGE_PROVIDER may   *)
(* change between two deployments.  The contents of images and packages    *)
(* are left out.                                                           *)
(***************************************************************************)
EXTENDS CreativePipeline, FiniteSets

CONSTANTS
    MadeBefore,         \* the outputs and objects that exist at first, a set of records
    Makers,             \* slots of requests that make files
    Providers,          \* the storage providers, local disk and S3
    MaxImages,          \* images a provider returns at most
    MaxMakes,           \* bound: requests that make files
    MaxUploads,         \* bound: uploads that succeed
    MaxSwitches         \* bound: changes of STORAGE_PROVIDER

ASSUME ProductionAssumption ==
    MaxImages \in Nat \ {0} /\ MaxMakes \in Nat /\ MaxUploads \in Nat /\ MaxSwitches \in Nat

VARIABLES
    uploads,    \* brand_assets and design_references
    outputs,    \* generated_outputs
    jobs,       \* production_jobs
    renders,    \* render_jobs: the production job of each
    objects,    \* the objects in storage
    active,     \* STORAGE_PROVIDER
    switches,   \* how often it changed
    maker,      \* control point and local variables of every maker
    makes,      \* how many requests to make files came
    overlapped  \* two visual generation runs were under way at once

products == <<uploads, outputs, jobs, renders, objects>>
bounds == <<active, switches, makes, overlapped>>
productionVars == <<products, bounds, maker>>
allVars == <<vars, productionVars>>

\* A stored object: provider and key.  Keys are fresh uuids, except a package's, which
\* is the job's.
File == [provider : Providers, kind : {"upload", "image", "package"}, key : Nat]
NoFile == [provider |-> "none", kind |-> "none", key |-> 0]

JobStatuses == {"pending", "packaging", "package_ready", "failed", "approved", "rejected"}
Output == [plan : Nat, index : Nat, status : {"generated", "failed"},
           approval : {"pending", "approved", "revision_requested", "rejected"},
           file : File \cup {NoFile}]
Upload == File \cup {NoFile}
Job == [output : Nat, status : JobStatuses, file : File \cup {NoFile}]

\* The outputs a run starts from are of approved plans, numbered plan by plan, and have
\* their files.
ASSUME MadeBeforeAssumption ==
    \A made \in MadeBefore :
       /\ made.outputs \in Seq(Output)
       /\ made.objects \subseteq File /\ IsFiniteSet(made.objects)
       /\ \A o \in DOMAIN made.outputs :
             /\ made.outputs[o].status = "generated" => made.outputs[o].file \in made.objects
             /\ made.outputs[o].index =
                   Cardinality({n \in 1 .. o : made.outputs[n].plan = made.outputs[o].plan})
             /\ \A s \in Starts : /\ made.outputs[o].plan \in DOMAIN s.plans
                                  /\ s.plans[made.outputs[o].plan].status = "approved"

\* row: the plan, output or job worked on.  base, nth: prior outputs counted, and the
\* image worked on.  left: images still to come.  file: what putObject returned.
IdleMaker == [pc |-> "idle", row |-> 0, base |-> 0, nth |-> 0, left |-> 0, file |-> NoFile]
MakerPCs == {"idle", "put_upload", "insert_upload", "count", "image_ai", "run_failed",
             "image", "image_row", "image_failed", "find_active", "create_job",
             "mark_packaging", "put_package", "mark_ready", "mark_failed", "create_render"}

InitProduction ==
    /\ Init
    /\ uploads = << >> /\ jobs = << >> /\ renders = << >>
    /\ \E made \in MadeBefore : outputs = made.outputs /\ objects = made.objects
    /\ active \in Providers
    /\ switches = 0
    /\ maker = [m \in Makers |-> IdleMaker]
    /\ makes = 0
    /\ overlapped = FALSE

MakerAt(m, label) == maker[m].pc = label
MakerGoto(m, local) == maker' = [maker EXCEPT ![m] = local]
Answer(m) == MakerGoto(m, IdleMaker)
AdmitMaker(m, local) ==
    /\ maker[m].pc = "idle"
    /\ makes < MaxMakes
    /\ makes' = makes + 1
    /\ MakerGoto(m, local)
    /\ UNCHANGED <<vars, products, active, switches>>
\* A fresh key: no object of this kind has it.
FreshKey(kind) == CHOOSE k \in 1 .. Cardinality(objects) + 1 :
                     \A f \in objects : f.kind = kind => f.key # k
\* putObject of the provider configured now: on disk, or in the bucket.
StoredAs(kind, key) == [provider |-> active, kind |-> kind, key |-> key]

(***************************************************************************)
(* Uploads: routes/brand-assets.ts and design-references.ts, after multer  *)
(* has buffered the file                                                   *)
(***************************************************************************)
UploadPCs == {"put_upload", "insert_upload"}
\* The file is optional: without one only the metadata is stored.
StartUpload(m) ==
    /\ Len(uploads) + Cardinality({n \in Makers : maker[n].pc \in UploadPCs}) < MaxUploads
    /\ \E pc \in UploadPCs : AdmitMaker(m, [IdleMaker EXCEPT !.pc = pc])
    /\ UNCHANGED overlapped
\* storeUploadedFile: a failing write is the answer, and no row is written.
PutUpload(m) ==
    /\ MakerAt(m, "put_upload")
    /\ \/ Answer(m) /\ UNCHANGED objects
       \/ LET file == StoredAs("upload", FreshKey("upload"))
          IN  /\ objects' = objects \cup {file}
              /\ MakerGoto(m, [maker[m] EXCEPT !.pc = "insert_upload", !.file = file])
    /\ UNCHANGED <<vars, uploads, outputs, jobs, renders, bounds>>
InsertUpload(m) ==
    /\ MakerAt(m, "insert_upload")
    /\ uploads' = Append(uploads, maker[m].file)
    /\ Answer(m)
    /\ UNCHANGED <<vars, outputs, jobs, renders, objects, bounds>>

(***************************************************************************)
(* Visual generation: services/visual-generation.ts                        *)
(***************************************************************************)
VisualPCs == {"count", "image_ai", "run_failed", "image", "image_row", "image_failed"}
Cleared(p) == \E q \in DOMAIN reports :
                 reports[q].plan = p /\ reports[q].status \in {"approved", "passed"}

\* assertReadyForVisualProduction comes before anything else.
StartVisuals(m) ==
    \E p \in DOMAIN plans :
       /\ Cleared(p)
       /\ AdmitMaker(m, [IdleMaker EXCEPT !.pc = "count", !.row = p])
       /\ overlapped' = (overlapped \/ \E n \in Makers : maker[n].pc \in VisualPCs
                                                      /\ maker[n].row = p)

OutputsOf(p) == {o \in DOMAIN outputs : outputs[o].plan = p}
\* Mutant: only the outputs that have a file are counted.
MutantCountOutputs(m) ==
    /\ MakerAt(m, "count")
    /\ MakerGoto(m, [maker[m] EXCEPT !.pc = "image_ai",
                        !.base = Cardinality({o \in OutputsOf(maker[m].row) :
                                                 outputs[o].status = "generated"})])
    /\ UNCHANGED <<vars, products, bounds>>
\* alternativeIndexBase: failed rows count too.
CountOutputs(m) ==
    /\ MakerAt(m, "count")
    /\ MakerGoto(m, [maker[m] EXCEPT !.pc = "image_ai",
                                     !.base = Cardinality(OutputsOf(maker[m].row))])
    /\ UNCHANGED <<vars, products, bounds>>

AskImages(m) ==
    /\ MakerAt(m, "image_ai")
    /\ \/ MakerGoto(m, [maker[m] EXCEPT !.pc = "run_failed", !.nth = 1])
       \/ \E n \in 1 .. MaxImages :
             MakerGoto(m, [maker[m] EXCEPT !.pc = "image", !.nth = 1, !.left = n])
    /\ UNCHANGED <<vars, products, bounds>>

NewOutput(m, status, file) ==
    outputs' = Append(outputs, [plan |-> maker[m].row, index |-> maker[m].base + maker[m].nth,
                                status |-> status, approval |-> "pending", file |-> file])
NextImage(m) ==
    IF maker[m].left > 1
    THEN MakerGoto(m, [maker[m] EXCEPT !.pc = "image", !.nth = @ + 1, !.left = @ - 1])
    ELSE Answer(m)

\* Mutant: the row of a failed run keeps the default status of the table.
MutantRecordRunFailure(m) ==
    /\ MakerAt(m, "run_failed")
    /\ NewOutput(m, "pending", NoFile)
    /\ Answer(m)
    /\ UNCHANGED <<vars, uploads, jobs, renders, objects, bounds>>
\* recordRunFailure: the whole run failed, one row says so.
RecordRunFailure(m) ==
    /\ MakerAt(m, "run_failed")
    /\ NewOutput(m, "failed", NoFile)
    /\ Answer(m)
    /\ UNCHANGED <<vars, uploads, jobs, renders, objects, bounds>>

\* resolveImageBytes and putObject, then the row, or a failed row for this image only.
PutImage(m) ==
    /\ MakerAt(m, "image")
    /\ \/ /\ MakerGoto(m, [maker[m] EXCEPT !.pc = "image_failed"])
          /\ UNCHANGED objects
       \/ LET file == StoredAs("image", FreshKey("image"))
          IN  /\ objects' = objects \cup {file}
              /\ MakerGoto(m, [maker[m] EXCEPT !.pc = "image_row", !.file = file])
    /\ UNCHANGED <<vars, uploads, outputs, jobs, renders, bounds>>
\* Mutant: the row names the provider configured when it is written.
MutantInsertOutput(m) ==
    /\ MakerAt(m, "image_row")
    /\ NewOutput(m, "generated", [maker[m].file EXCEPT !.provider = active])
    /\ NextImage(m)
    /\ UNCHANGED <<vars, uploads, jobs, renders, objects, bounds>>
InsertOutput(m) ==
    /\ MakerAt(m, "image_row")
    /\ \/ /\ NewOutput(m, "generated", maker[m].file)
          /\ NextImage(m)
       \/ /\ MakerGoto(m, [maker[m] EXCEPT !.pc = "image_failed"])
          /\ UNCHANGED outputs
    /\ UNCHANGED <<vars, uploads, jobs, renders, objects, bounds>>
InsertFailedImage(m) ==
    /\ MakerAt(m, "image_failed")
    /\ NewOutput(m, "failed", NoFile)
    /\ NextImage(m)
    /\ UNCHANGED <<vars, uploads, jobs, renders, objects, bounds>>

\* A review that is one guarded UPDATE counts among the requests.
Review == /\ requests < MaxRequests
          /\ requests' = requests + 1
          /\ UNCHANGED <<work, entries, req, failures, uploads, renders, objects, bounds, maker>>

\* POST /visual-outputs/:id/approve and /reject
ApproveOutput(o) ==
    /\ outputs[o].status = "generated"
    /\ outputs[o].approval \in {"pending", "revision_requested"}
    /\ outputs' = [outputs EXCEPT ![o].approval = "approved"]
    /\ Review /\ UNCHANGED jobs
RejectOutput(o) ==
    /\ outputs[o].approval = "pending"
    /\ \E new \in {"revision_requested", "rejected"} :
          outputs' = [outputs EXCEPT ![o].approval = new]
    /\ Review /\ UNCHANGED jobs

(***************************************************************************)
(* Production packages: services/production-package-builder.ts             *)
(***************************************************************************)
ActiveJobs(o) == {j \in DOMAIN jobs : /\ jobs[j].output = o
                                      /\ jobs[j].status \notin {"failed", "rejected"}}

\* assertGeneratedOutputReadyForProduction; the review of the output is not asked for.
StartPackage(m) ==
    /\ \E o \in DOMAIN outputs :
          /\ outputs[o].status = "generated"
          /\ AdmitMaker(m, [IdleMaker EXCEPT !.pc = "find_active", !.row = o])
    /\ UNCHANGED overlapped
\* An active job is returned as it is, whether or not anybody works on it.
FindActive(m) ==
    /\ MakerAt(m, "find_active")
    /\ IF ActiveJobs(maker[m].row) # {}
       THEN Answer(m)
       ELSE MakerGoto(m, [maker[m] EXCEPT !.pc = "create_job"])
    /\ UNCHANGED <<vars, products, bounds>>

NewJob(o) == Append(jobs, [output |-> o, status |-> "pending", file |-> NoFile])
\* uniq_production_jobs_active_output refuses a second active job.
CreateJob(m) ==
    /\ MakerAt(m, "create_job")
    /\ IF ActiveJobs(maker[m].row) # {}
       THEN Answer(m) /\ UNCHANGED jobs
       ELSE /\ jobs' = NewJob(maker[m].row)
            /\ MakerGoto(m, [maker[m] EXCEPT !.pc = "mark_packaging", !.row = Len(jobs')])
    /\ UNCHANGED <<vars, uploads, outputs, renders, objects, bounds>>

\* updateStatus has no guard; the package's coordinates are kept unless given.
UpdateStatus(j, status, file) ==
    jobs' = [jobs EXCEPT ![j] = [output |-> jobs[j].output, status |-> status,
                                 file |-> IF file = NoFile THEN jobs[j].file ELSE file]]

MarkPackaging(m) ==
    /\ MakerAt(m, "mark_packaging")
    /\ UpdateStatus(maker[m].row, "packaging", NoFile)
    /\ MakerGoto(m, [maker[m] EXCEPT !.pc = "put_package"])
    /\ UNCHANGED <<vars, uploads, outputs, renders, objects, bounds>>
\* Mutant: a failing write of the package is answered without marking the job.
MutantPutPackage(m) ==
    /\ MakerAt(m, "put_package")
    /\ Answer(m)
    /\ UNCHANGED <<vars, products, bounds>>
\* The manifest is built and stored under a key made of the job's id.
PutPackage(m) ==
    /\ MakerAt(m, "put_package")
    /\ \/ /\ MakerGoto(m, [maker[m] EXCEPT !.pc = "mark_failed"])
          /\ UNCHANGED objects
       \/ LET file == StoredAs("package", maker[m].row)
          IN  /\ objects' = objects \cup {file}
              /\ MakerGoto(m, [maker[m] EXCEPT !.pc = "mark_ready", !.file = file])
    /\ UNCHANGED <<vars, uploads, outputs, jobs, renders, bounds>>
\* Mutant: what follows the update inside the try block may throw.
MutantMarkReady(m) ==
    /\ MakerAt(m, "mark_ready")
    /\ UpdateStatus(maker[m].row, "package_ready", maker[m].file)
    /\ Answer(m) \/ MakerGoto(m, [maker[m] EXCEPT !.pc = "mark_failed"])
    /\ UNCHANGED <<vars, uploads, outputs, renders, objects, bounds>>
\* The analytics event after it never throws, so a ready job is left alone.
MarkReady(m) ==
    /\ MakerAt(m, "mark_ready")
    /\ \/ /\ UpdateStatus(maker[m].row, "package_ready", maker[m].file)
          /\ Answer(m)
       \/ /\ MakerGoto(m, [maker[m] EXCEPT !.pc = "mark_failed"])
          /\ UNCHANGED jobs
    /\ UNCHANGED <<vars, uploads, outputs, renders, objects, bounds>>
MarkFailed(m) ==
    /\ MakerAt(m, "mark_failed")
    /\ UpdateStatus(maker[m].row, "failed", NoFile)
    /\ Answer(m)
    /\ UNCHANGED <<vars, uploads, outputs, renders, objects, bounds>>

\* POST /production-jobs/:id/approve and /reject
DecideJob(j) ==
    /\ jobs[j].status = "package_ready"
    /\ \E new \in {"approved", "rejected"} : jobs' = [jobs EXCEPT ![j].status = new]
    /\ Review /\ UNCHANGED outputs

\* assertProductionJobReadyForRender
RenderReady(j) == /\ jobs[j].status \in {"package_ready", "approved"}
                  /\ jobs[j].file # NoFile
\* renderProductionJob up to the row: the gate, then the INSERT.
StartRender(m) ==
    /\ \E j \in DOMAIN jobs :
          /\ RenderReady(j)
          /\ AdmitMaker(m, [IdleMaker EXCEPT !.pc = "create_render", !.row = j])
    /\ UNCHANGED overlapped
CreateRender(m) ==
    /\ MakerAt(m, "create_render")
    /\ renders' = Append(renders, maker[m].row)
    /\ Answer(m)
    /\ UNCHANGED <<vars, uploads, outputs, jobs, objects, bounds>>

(***************************************************************************)
(* The process or the connection of a maker dies, also when a statement    *)
(* outside any try block fails.  STORAGE_PROVIDER is read at every call.   *)
(***************************************************************************)
InterruptMaker(m) ==
    /\ maker[m].pc # "idle"
    /\ failures < MaxFailures
    /\ failures' = failures + 1
    /\ Answer(m)
    /\ UNCHANGED <<work, entries, req, requests, products, bounds>>
SwitchStorage ==
    /\ switches < MaxSwitches
    /\ switches' = switches + 1
    /\ active' \in Providers \ {active}
    /\ UNCHANGED <<vars, products, maker, makes, overlapped>>

Make(m) ==
    \/ StartUpload(m) \/ PutUpload(m) \/ InsertUpload(m)
    \/ StartVisuals(m) \/ CountOutputs(m) \/ AskImages(m) \/ RecordRunFailure(m)
    \/ PutImage(m) \/ InsertOutput(m) \/ InsertFailedImage(m)
    \/ StartPackage(m) \/ FindActive(m) \/ CreateJob(m) \/ MarkPackaging(m)
    \/ PutPackage(m) \/ MarkReady(m) \/ MarkFailed(m)
    \/ StartRender(m) \/ CreateRender(m) \/ InterruptMaker(m)

\* The requests of the pipeline that read or write what makers look at; the others
\* change nothing that Production reads.
Judge(r) ==
    /\ \/ StartQa(r) \/ ReadQaBrief(r) \/ ReadQaDna(r) \/ SaveReport(r)
       \/ ReadReviewed(r) \/ ApproveReviewed(r) \/ RejectReviewed(r) \/ RecordEntry(r)
       \/ Interrupt(r)
    /\ UNCHANGED productionVars

NextProduction ==
    \/ \E m \in Makers : Make(m)
    \/ \E o \in DOMAIN outputs : ApproveOutput(o) \/ RejectOutput(o)
    \/ \E j \in DOMAIN jobs : DecideJob(j)
    \/ SwitchStorage
    \/ \E r \in Requests : Judge(r)

ProductionSpec == InitProduction /\ [][NextProduction]_allVars

(***************************************************************************)
(* Properties                                                              *)
(***************************************************************************)
\* Every variable has its type.
ProductionTypeOK ==
    /\ TypeOK
    /\ uploads \in Seq(Upload) /\ outputs \in Seq(Output) /\ jobs \in Seq(Job)
    /\ renders \in Seq(DOMAIN jobs)
    /\ objects \subseteq File
    /\ active \in Providers /\ switches \in Nat /\ makes \in Nat
    /\ overlapped \in BOOLEAN
    /\ maker \in [Makers -> [pc : MakerPCs, row : Nat, base : Nat, nth : Nat, left : Nat,
                             file : File \cup {NoFile}]]

\* alternative_index continues over all runs of a plan without a gap or a repetition,
\* whatever fails on the way, as long as no two runs of one plan overlap.
IndexesContinue ==
    ~overlapped => \A o \in DOMAIN outputs :
                      outputs[o].index = Cardinality({n \in OutputsOf(outputs[o].plan) : n <= o})

\* The coordinates on a row lead to its file, also after STORAGE_PROVIDER changed; a
\* 'generated' output and a job past packaging have some, and no two uploads share one.
FilesAreThere ==
    /\ \A u \in DOMAIN uploads :
          \/ uploads[u] = NoFile
          \/ /\ uploads[u] \in objects
             /\ \A v \in DOMAIN uploads : uploads[v] = uploads[u] => v = u
    /\ \A o \in DOMAIN outputs :
          outputs[o].status = "generated" => outputs[o].file \in objects
    /\ \A j \in DOMAIN jobs :
          \/ jobs[j].status \in {"pending", "packaging", "failed"} /\ jobs[j].file = NoFile
          \/ jobs[j].file \in objects

\* Visual generation looks at QA reports only, and yet every image belongs to a layout
\* plan that is approved: reports are made of approved plans and plans stay approved.
OutputsOfApprovedPlans ==
    \A o \in DOMAIN outputs : plans[outputs[o].plan].status = "approved"

\* A job that is being packaged has a request that packages it, unless that request
\* died; each such death leaves at most one job that blocks its output for good.
AbandonedJobsBounded ==
    Cardinality({j \in DOMAIN jobs :
                    /\ jobs[j].status \in {"pending", "packaging"}
                    /\ \A m \in Makers : \/ maker[m].row # j
                                          \/ maker[m].pc \notin {"mark_packaging", "put_package",
                                                               "mark_ready", "mark_failed"}})
       <= failures

\* A decision on a package is final, although the builder updates jobs without a guard.
DecidedJobsStay ==
    [][\A j \in DOMAIN jobs :
          jobs[j].status \in {"approved", "rejected"} => jobs'[j].status = jobs[j].status]_allVars
=============================================================================
