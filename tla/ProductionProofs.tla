--------------------------- MODULE ProductionProofs ---------------------------
(***************************************************************************)
(* Proofs about Production composed with CreativePipeline, for any number  *)
(* of requests and makers, any providers and any bounds.  The pipeline's   *)
(* own invariant Inv (CreativePipelineProofs) is used as it stands: what   *)
(* makers do leaves the pipeline's tables alone, and a pipeline step       *)
(* leaves approved plans approved, which is all that makers rely on.       *)
(***************************************************************************)
EXTENDS Production, CreativePipelineProofs, FiniteSetTheorems

-----------------------------------------------------------------------------
(***************************************************************************)
(* The inductive invariant                                                 *)
(***************************************************************************)
Maker == [pc : MakerPCs, row : Nat, base : Nat, nth : Nat, left : Nat,
          file : File \cup {NoFile}]
Packaging == {"mark_packaging", "put_package", "mark_ready", "mark_failed"}

PlanApproved(p) == p \in DOMAIN plans /\ plans[p].status = "approved"
\* The job of a builder that is past its INSERT is its own, and not decided.
OpenJob(j) == /\ j \in DOMAIN jobs
              /\ jobs[j].status \in {"pending", "packaging"} /\ jobs[j].file = NoFile

ProductsTyped ==
    /\ uploads \in Seq(Upload) /\ outputs \in Seq(Output) /\ jobs \in Seq(Job)
    /\ renders \in Seq(DOMAIN jobs)
    /\ objects \subseteq File /\ IsFiniteSet(objects)
BoundsTyped ==
    active \in Providers /\ switches \in Nat /\ makes \in Nat /\ overlapped \in BOOLEAN
OutputsDone == \A o \in DOMAIN outputs : PlanApproved(outputs[o].plan)

\* What a maker relies on between two of its steps.
VisualsOK(m) ==
    /\ maker[m].pc \in VisualPCs => PlanApproved(maker[m].row)
    /\ MakerAt(m, "image_row") => maker[m].file \in objects
UploadOK(m) ==
    MakerAt(m, "insert_upload") =>
       \/ maker[m].file = NoFile
       \/ /\ maker[m].file \in objects /\ maker[m].file.kind = "upload"
          /\ \A u \in DOMAIN uploads : uploads[u] # maker[m].file
PackageOK(m) ==
    /\ maker[m].pc \in Packaging => OpenJob(maker[m].row)
    /\ MakerAt(m, "mark_ready") => maker[m].file \in objects
RenderOK(m) == MakerAt(m, "create_render") => maker[m].row \in DOMAIN jobs
MakerOK(m) == VisualsOK(m) /\ UploadOK(m) /\ PackageOK(m) /\ RenderOK(m)

\* Two makers never have the same upload or package the same job.
Apart(m, n) ==
    /\ maker[m].pc \in Packaging /\ maker[n].pc \in Packaging => maker[m].row # maker[n].row
    /\ MakerAt(m, "insert_upload") /\ MakerAt(n, "insert_upload") /\ maker[m].file # NoFile
          => maker[m].file # maker[n].file

ProductionInv ==
    /\ Inv
    /\ ProductsTyped /\ BoundsTyped /\ maker \in [Makers -> Maker]
    /\ FilesAreThere /\ OutputsDone
    /\ \A m \in Makers : MakerOK(m)
    /\ \A m, n \in Makers : m # n => Apart(m, n)

-----------------------------------------------------------------------------
(***************************************************************************)
(* What a step has to show                                                 *)
(***************************************************************************)
\* What another maker relies on survives this step.
PlansStay == \A p : PlanApproved(p) => PlanApproved(p)'
Kept(n) ==
    /\ maker[n].pc \in Packaging => jobs'[maker[n].row] = jobs[maker[n].row]
    /\ MakerAt(n, "insert_upload") /\ maker[n].file # NoFile
          => \A u \in DOMAIN uploads' : uploads'[u] # maker[n].file

LEMMA OtherMaker ==
    ASSUME ProductionInv, NEW n \in Makers, maker'[n] = maker[n],
           objects \subseteq objects', DOMAIN jobs \subseteq DOMAIN jobs',
           PlansStay, Kept(n)
    PROVE  MakerOK(n)'
<1> USE DEF MakerAt
<1>1. MakerOK(n)
  BY DEF ProductionInv
<1>2. VisualsOK(n)'
  BY <1>1 DEF MakerOK, VisualsOK, PlansStay, PlanApproved
<1>3. UploadOK(n)'
  BY <1>1 DEF MakerOK, UploadOK, Kept
<1>4. PackageOK(n)'
  BY <1>1 DEF MakerOK, PackageOK, OpenJob, Kept
<1>5. RenderOK(n)'
  BY <1>1 DEF MakerOK, RenderOK
<1> QED
  BY <1>2, <1>3, <1>4, <1>5 DEF MakerOK

\* A step of maker m.
LEMMA MakerMoves ==
    ASSUME ProductionInv, NEW m \in Makers, NEW q \in Maker,
           maker' = [maker EXCEPT ![m] = q],
           Inv', ProductsTyped', BoundsTyped', FilesAreThere', OutputsDone',
           objects \subseteq objects', DOMAIN jobs \subseteq DOMAIN jobs', PlansStay,
           \A n \in Makers : n # m => Kept(n) /\ Apart(m, n)',
           MakerOK(m)'
    PROVE  ProductionInv'
<1>1. maker' \in [Makers -> Maker]
  BY DEF ProductionInv
<1>2. \A n \in Makers : n # m => maker'[n] = maker[n]
  BY DEF ProductionInv
<1>3. ASSUME NEW n \in Makers PROVE MakerOK(n)'
  BY <1>2, OtherMaker
<1>4. ASSUME NEW n \in Makers, NEW o \in Makers, n # o PROVE Apart(n, o)'
  <2>1. CASE n = m
    BY <1>4, <2>1
  <2>2. CASE o = m
    <3>1. Apart(m, n)'
      BY <1>4, <2>2
    <3> QED
      BY <2>2, <3>1 DEF Apart, MakerAt
  <2>3. CASE n # m /\ o # m
    <3>1. Apart(n, o) /\ maker'[n] = maker[n] /\ maker'[o] = maker[o]
      BY <1>2, <1>4, <2>3 DEF ProductionInv
    <3> QED
      BY <3>1 DEF Apart, MakerAt
  <2> QED
    BY <2>1, <2>2, <2>3
<1> QED
  BY <1>1, <1>3, <1>4 DEF ProductionInv

\* A step of nobody's request: every maker stays where it is.
LEMMA MakersStay ==
    ASSUME ProductionInv, UNCHANGED maker,
           Inv', ProductsTyped', BoundsTyped', FilesAreThere', OutputsDone',
           objects \subseteq objects', DOMAIN jobs \subseteq DOMAIN jobs', PlansStay,
           \A n \in Makers : Kept(n)
    PROVE  ProductionInv'
<1>1. ASSUME NEW n \in Makers PROVE MakerOK(n)'
  BY OtherMaker
<1>2. ASSUME NEW n \in Makers, NEW o \in Makers, n # o PROVE Apart(n, o)'
  BY <1>2 DEF ProductionInv, Apart, MakerAt
<1> QED
  BY <1>1, <1>2 DEF ProductionInv

\* The pipeline's invariant does not look at what the two modules share but count.
LEMMA PipelineStays ==
    ASSUME Inv, UNCHANGED <<work, entries, req>>, requests' \in Nat, failures' \in Nat
    PROVE  Inv' /\ PlansStay
<1>1. TypeOK'
  BY DEF Inv, TypeOK, work
<1>2. KeysOK'
  BY DEF Inv, KeysOK, DnaOK, IdeasOK, BriefsOK, PlansOK, ReportsOK, IsApproval, UsedDna, work
<1>3. EntriesOK'
  BY DEF Inv, EntriesOK, Agreed, TableOf, StatusOf, work
<1>4. ASSUME NEW r \in Requests PROVE LocalOK(r)'
  BY SameTables, OthersKeep
<1>5. PlansStay
  BY DEF PlansStay, PlanApproved, work
<1> QED
  BY <1>1, <1>2, <1>3, <1>4, <1>5 DEF Inv

\* Steps that only move a maker.
LEMMA ProductsSame ==
    ASSUME ProductionInv, UNCHANGED products, PlansStay
    PROVE  /\ ProductsTyped' /\ FilesAreThere' /\ OutputsDone'
           /\ objects \subseteq objects' /\ DOMAIN jobs \subseteq DOMAIN jobs'
           /\ \A n \in Makers : Kept(n)
<1> USE DEF products
<1>1. ProductsTyped'
  BY DEF ProductionInv, ProductsTyped
<1>2. FilesAreThere'
  BY DEF ProductionInv, FilesAreThere
<1>3. OutputsDone'
  BY DEF ProductionInv, OutputsDone, PlansStay
<1>4. ASSUME NEW n \in Makers PROVE Kept(n)
  BY DEF ProductionInv, MakerOK, UploadOK, Kept, MakerAt
<1> QED
  BY <1>1, <1>2, <1>3, <1>4

LEMMA MakerReads ==
    ASSUME ProductionInv, NEW m \in Makers, NEW q \in Maker,
           maker' = [maker EXCEPT ![m] = q],
           Inv', PlansStay, BoundsTyped', UNCHANGED products,
           \A n \in Makers : n # m => Apart(m, n)',
           MakerOK(m)'
    PROVE  ProductionInv'
  BY ProductsSame, MakerMoves

LEMMA MakerSlot ==
    ASSUME ProductionInv, NEW m \in Makers, NEW q, maker' = [maker EXCEPT ![m] = q]
    PROVE  maker'[m] = q /\ \A n \in Makers : n # m => maker'[n] = maker[n]
  BY DEF ProductionInv

\* A maker that neither packages nor has an upload in its hands is apart from all.
LEMMA ApartByLabel ==
    ASSUME NEW m \in Makers,
           maker'[m].pc \notin Packaging \cup {"insert_upload"}
    PROVE  \A n \in Makers : Apart(m, n)'
  BY DEF Apart, MakerAt

LEMMA AnswerIsIdle ==
    ASSUME ProductionInv, NEW m \in Makers, Answer(m)
    PROVE  /\ IdleMaker \in Maker /\ maker' = [maker EXCEPT ![m] = IdleMaker]
           /\ MakerOK(m)' /\ \A n \in Makers : Apart(m, n)'
<1>1. maker' = [maker EXCEPT ![m] = IdleMaker]
  BY DEF Answer, MakerGoto
<1>2. IdleMaker \in Maker
  BY DEF IdleMaker, Maker, MakerPCs
<1>3. maker'[m].pc = "idle"
  <2>1. maker'[m] = IdleMaker
    BY <1>1, MakerSlot
  <2> QED
    BY <2>1 DEF IdleMaker
<1>4. MakerOK(m)'
  BY <1>3 DEF MakerOK, VisualsOK, UploadOK, PackageOK, RenderOK, MakerAt, VisualPCs, Packaging
<1>5. \A n \in Makers : Apart(m, n)'
  BY <1>3, ApartByLabel DEF Packaging
<1> QED
  BY <1>1, <1>2, <1>4, <1>5

LEMMA VarsSame ==
    ASSUME Inv, UNCHANGED vars
    PROVE  Inv' /\ PlansStay
<1>1. requests' \in Nat /\ failures' \in Nat
  BY DEF Inv, TypeOK, vars
<1> QED
  BY <1>1, PipelineStays DEF vars

LEMMA MakerFields ==
    ASSUME ProductionInv, NEW m \in Makers
    PROVE  /\ maker[m] \in Maker /\ maker[m].pc \in MakerPCs
           /\ maker[m].row \in Nat /\ maker[m].base \in Nat /\ maker[m].nth \in Nat
           /\ maker[m].left \in Nat /\ maker[m].file \in File \cup {NoFile}
<1>1. maker[m] \in Maker
  BY DEF ProductionInv
<1> QED
  BY <1>1 DEF Maker

LEMMA MakerUpdates ==
    ASSUME NEW q \in Maker, NEW pc \in MakerPCs, NEW n \in Nat, NEW k \in Nat,
           NEW file \in File \cup {NoFile}
    PROVE  /\ [q EXCEPT !.pc = pc] \in Maker
           /\ [q EXCEPT !.pc = pc, !.file = file] \in Maker
           /\ [q EXCEPT !.pc = pc, !.row = n] \in Maker
           /\ [q EXCEPT !.pc = pc, !.base = n] \in Maker
           /\ [q EXCEPT !.pc = pc, !.nth = n] \in Maker
           /\ [q EXCEPT !.pc = pc, !.nth = n, !.left = k] \in Maker
  BY DEF Maker

-----------------------------------------------------------------------------
(***************************************************************************)
(* Requests that arrive, reads, answers, and calls that fail               *)
(***************************************************************************)
LEMMA IdleIsMaker == IdleMaker \in Maker /\ IdleMaker.file = NoFile
  BY DEF IdleMaker, Maker, MakerPCs

LEMMA AdmitBounds ==
    ASSUME ProductionInv, NEW m \in Makers, NEW q, AdmitMaker(m, q), overlapped' \in BOOLEAN
    PROVE  /\ BoundsTyped' /\ Inv' /\ PlansStay
           /\ UNCHANGED products /\ maker' = [maker EXCEPT ![m] = q]
<1>1. /\ UNCHANGED vars /\ UNCHANGED products /\ UNCHANGED active /\ UNCHANGED switches
      /\ makes' = makes + 1 /\ maker' = [maker EXCEPT ![m] = q]
  BY DEF AdmitMaker, MakerGoto
<1>2. Inv' /\ PlansStay
  BY <1>1, VarsSame DEF ProductionInv
<1> QED
  BY <1>1, <1>2 DEF ProductionInv, BoundsTyped

LEMMA StartUploadStep ==
    ASSUME ProductionInv, NEW m \in Makers, StartUpload(m)
    PROVE  ProductionInv'
<1>1. PICK pc \in UploadPCs : AdmitMaker(m, [IdleMaker EXCEPT !.pc = pc])
  BY DEF StartUpload
<1> DEFINE q == [IdleMaker EXCEPT !.pc = pc]
<1>2. pc \in MakerPCs /\ q \in Maker
  BY DEF UploadPCs, MakerPCs, IdleMaker, Maker
<1>3. overlapped' \in BOOLEAN
  BY DEF StartUpload, ProductionInv, BoundsTyped
<1>4. maker'[m].pc = pc /\ maker'[m].file = NoFile
  <2>1. maker'[m] = q
    BY <1>1, MakerSlot DEF AdmitMaker, MakerGoto
  <2> QED
    BY <2>1 DEF IdleMaker
<1>5. MakerOK(m)'
  BY <1>4 DEF MakerOK, VisualsOK, UploadOK, PackageOK, RenderOK, MakerAt, VisualPCs,
             Packaging, UploadPCs
<1>6. \A n \in Makers : Apart(m, n)'
  BY <1>4 DEF Apart, MakerAt, Packaging, UploadPCs
<1> QED
  BY <1>1, <1>2, <1>3, <1>5, <1>6, AdmitBounds, MakerReads

LEMMA StartVisualsStep ==
    ASSUME ProductionInv, NEW m \in Makers, StartVisuals(m)
    PROVE  ProductionInv'
<1>1. PICK p \in DOMAIN plans :
         /\ Cleared(p) /\ AdmitMaker(m, [IdleMaker EXCEPT !.pc = "count", !.row = p])
         /\ overlapped' = (overlapped \/ \E n \in Makers : maker[n].pc \in VisualPCs
                                                        /\ maker[n].row = p)
  BY DEF StartVisuals
<1> DEFINE q == [IdleMaker EXCEPT !.pc = "count", !.row = p]
<1>2. p \in Nat /\ q \in Maker
  <2>1. p \in Nat
    BY DEF ProductionInv, Inv, TypeOK
  <2> QED
    BY <2>1 DEF MakerPCs, IdleMaker, Maker
<1>3. overlapped' \in BOOLEAN
  BY <1>1 DEF ProductionInv, BoundsTyped
<1>4. PlanApproved(p)
  BY <1>1 DEF Cleared, PlanApproved, ProductionInv, Inv, KeysOK, ReportsOK
<1>5. Inv' /\ PlansStay
  BY <1>1, <1>3, AdmitBounds
<1>6. maker'[m].pc = "count" /\ maker'[m].row = p
  <2>1. maker'[m] = q
    BY <1>1, MakerSlot DEF AdmitMaker, MakerGoto
  <2> QED
    BY <2>1 DEF IdleMaker
<1>7. MakerOK(m)'
  <2>1. PlanApproved(p)'
    BY <1>4, <1>5 DEF PlansStay
  <2> QED
    BY <1>6, <2>1 DEF MakerOK, VisualsOK, UploadOK, PackageOK, RenderOK, MakerAt, Packaging,
                      PlanApproved
<1>8. \A n \in Makers : Apart(m, n)'
  BY <1>6, ApartByLabel DEF Packaging
<1> QED
  BY <1>1, <1>2, <1>3, <1>7, <1>8, AdmitBounds, MakerReads

LEMMA StartPackageStep ==
    ASSUME ProductionInv, NEW m \in Makers, StartPackage(m)
    PROVE  ProductionInv'
<1>1. PICK o \in DOMAIN outputs :
         AdmitMaker(m, [IdleMaker EXCEPT !.pc = "find_active", !.row = o])
  BY DEF StartPackage
<1> DEFINE q == [IdleMaker EXCEPT !.pc = "find_active", !.row = o]
<1>2. q \in Maker
  <2>1. o \in Nat
    BY DEF ProductionInv, ProductsTyped
  <2> QED
    BY <2>1 DEF MakerPCs, IdleMaker, Maker
<1>3. overlapped' \in BOOLEAN
  BY DEF StartPackage, ProductionInv, BoundsTyped
<1>4. maker'[m].pc = "find_active"
  <2>1. maker'[m] = q
    BY <1>1, MakerSlot DEF AdmitMaker, MakerGoto
  <2> QED
    BY <2>1 DEF IdleMaker
<1>5. MakerOK(m)'
  BY <1>4 DEF MakerOK, VisualsOK, UploadOK, PackageOK, RenderOK, MakerAt, VisualPCs, Packaging
<1>6. \A n \in Makers : Apart(m, n)'
  BY <1>4, ApartByLabel DEF Packaging
<1> QED
  BY <1>1, <1>2, <1>3, <1>5, <1>6, AdmitBounds, MakerReads

LEMMA StartRenderStep ==
    ASSUME ProductionInv, NEW m \in Makers, StartRender(m)
    PROVE  ProductionInv'
<1>1. PICK j \in DOMAIN jobs :
         AdmitMaker(m, [IdleMaker EXCEPT !.pc = "create_render", !.row = j])
  BY DEF StartRender
<1> DEFINE q == [IdleMaker EXCEPT !.pc = "create_render", !.row = j]
<1>2. q \in Maker
  <2>1. j \in Nat
    BY DEF ProductionInv, ProductsTyped
  <2> QED
    BY <2>1 DEF MakerPCs, IdleMaker, Maker
<1>3. overlapped' \in BOOLEAN
  BY DEF StartRender, ProductionInv, BoundsTyped
<1>4. maker'[m].pc = "create_render" /\ maker'[m].row = j
  <2>1. maker'[m] = q
    BY <1>1, MakerSlot DEF AdmitMaker, MakerGoto
  <2> QED
    BY <2>1 DEF IdleMaker
<1>5. MakerOK(m)'
  <2>1. jobs' = jobs
    BY <1>1 DEF AdmitMaker, products
  <2> QED
    BY <1>4, <2>1 DEF MakerOK, VisualsOK, UploadOK, PackageOK, RenderOK, MakerAt, VisualPCs,
                      Packaging
<1>6. \A n \in Makers : Apart(m, n)'
  BY <1>4, ApartByLabel DEF Packaging
<1> QED
  BY <1>1, <1>2, <1>3, <1>5, <1>6, AdmitBounds, MakerReads

LEMMA BoundsSame ==
    ASSUME ProductionInv, UNCHANGED bounds
    PROVE  BoundsTyped'
  BY DEF ProductionInv, BoundsTyped, bounds

LEMMA AnswerReads ==
    ASSUME ProductionInv, NEW m \in Makers, Answer(m), UNCHANGED <<products, bounds>>,
           UNCHANGED <<work, entries, req>>, requests' \in Nat, failures' \in Nat
    PROVE  ProductionInv'
<1>1. Inv' /\ PlansStay
  BY PipelineStays DEF ProductionInv
<1> QED
  BY <1>1, AnswerIsIdle, BoundsSame, MakerReads

LEMMA AnswerOnly ==
    ASSUME ProductionInv, NEW m \in Makers, Answer(m), UNCHANGED <<vars, products, bounds>>
    PROVE  ProductionInv'
<1>1. requests' \in Nat /\ failures' \in Nat
  BY DEF ProductionInv, Inv, TypeOK, vars
<1> QED
  BY <1>1, AnswerReads DEF vars

\* A run of visual generation goes on with its plan, with no image in its hands.
LEMMA VisualGoesOn ==
    ASSUME ProductionInv, NEW m \in Makers, NEW q \in Maker,
           maker[m].pc \in VisualPCs, q.row = maker[m].row,
           q.pc \in VisualPCs \ {"image_row"}, maker' = [maker EXCEPT ![m] = q],
           UNCHANGED <<vars, products, bounds>>
    PROVE  ProductionInv'
<1>1. Inv' /\ PlansStay
  BY VarsSame DEF ProductionInv
<1>2. maker'[m] = q
  BY MakerSlot
<1>3. PlanApproved(q.row)
  BY DEF ProductionInv, MakerOK, VisualsOK
<1>4. MakerOK(m)'
  <2>1. plans' = plans
    BY DEF vars, work
  <2> QED
    BY <1>2, <1>3, <2>1 DEF MakerOK, VisualsOK, UploadOK, PackageOK, RenderOK, MakerAt,
                            VisualPCs, Packaging, PlanApproved
<1>5. \A n \in Makers : Apart(m, n)'
  BY <1>2, ApartByLabel DEF Packaging, VisualPCs
<1> QED
  BY <1>1, <1>4, <1>5, BoundsSame, MakerReads

LEMMA CountOutputsStep ==
    ASSUME ProductionInv, NEW m \in Makers, CountOutputs(m)
    PROVE  ProductionInv'
<1>1. Cardinality(OutputsOf(maker[m].row)) \in Nat
  <2>1. /\ DOMAIN outputs = 1 .. Len(outputs) /\ Len(outputs) \in Nat
    BY DEF ProductionInv, ProductsTyped
  <2>2. IsFiniteSet(1 .. Len(outputs))
    BY <2>1, FS_Interval
  <2>3. OutputsOf(maker[m].row) \in SUBSET (1 .. Len(outputs))
    BY <2>1 DEF OutputsOf
  <2> QED
    BY <2>2, <2>3, FS_Subset, FS_CardinalityType
<1> DEFINE n == Cardinality(OutputsOf(maker[m].row))
           q == [maker[m] EXCEPT !.pc = "image_ai", !.base = n]
<1>2. maker' = [maker EXCEPT ![m] = q] /\ UNCHANGED <<vars, products, bounds>>
  BY DEF CountOutputs, MakerGoto
<1>3. maker[m].pc = "count" /\ maker[m] \in Maker /\ "image_ai" \in MakerPCs
  BY MakerFields DEF CountOutputs, MakerAt, MakerPCs
<1> HIDE DEF n
<1>4. q \in Maker /\ q.row = maker[m].row /\ q.pc = "image_ai"
  <2>1. q \in Maker
    BY <1>1, <1>3, MakerFields, MakerUpdates DEF n
  <2> QED
    BY <1>3, <2>1 DEF Maker
<1>5. maker[m].pc \in VisualPCs /\ q.pc \in VisualPCs \ {"image_row"}
  BY <1>3, <1>4 DEF VisualPCs
<1> HIDE DEF q
<1> QED
  BY <1>2, <1>4, <1>5, VisualGoesOn

LEMMA AskImagesStep ==
    ASSUME ProductionInv, NEW m \in Makers, AskImages(m)
    PROVE  ProductionInv'
<1>1. /\ maker[m].pc = "image_ai" /\ maker[m] \in Maker
      /\ "run_failed" \in MakerPCs /\ "image" \in MakerPCs
      /\ UNCHANGED <<vars, products, bounds>>
  BY MakerFields DEF AskImages, MakerAt, MakerPCs
<1>2. ASSUME NEW q \in Maker, q.row = maker[m].row, q.pc \in {"run_failed", "image"},
             MakerGoto(m, q)
      PROVE  ProductionInv'
  BY <1>1, <1>2, VisualGoesOn DEF MakerGoto, VisualPCs
<1>3. CASE MakerGoto(m, [maker[m] EXCEPT !.pc = "run_failed", !.nth = 1])
  <2> DEFINE q == [maker[m] EXCEPT !.pc = "run_failed", !.nth = 1]
  <2>1. q \in Maker
    BY <1>1 DEF Maker
  <2>2. q.row = maker[m].row /\ q.pc = "run_failed"
    BY <1>1 DEF Maker
  <2> QED
    BY <1>2, <1>3, <2>1, <2>2
<1>4. ASSUME NEW n \in 1 .. MaxImages,
             MakerGoto(m, [maker[m] EXCEPT !.pc = "image", !.nth = 1, !.left = n])
      PROVE  ProductionInv'
  <2> DEFINE q == [maker[m] EXCEPT !.pc = "image", !.nth = 1, !.left = n]
  <2>0. n \in Nat
    BY ProductionAssumption
  <2>1. q \in Maker
    BY <1>1, <2>0 DEF Maker
  <2>2. q.row = maker[m].row /\ q.pc = "image"
    BY <1>1 DEF Maker
  <2> QED
    BY <1>2, <1>4, <2>1, <2>2
<1> QED
  BY <1>3, <1>4 DEF AskImages

\* An image that could not be stored, or whose row could not be written.
LEMMA ImageFails ==
    ASSUME ProductionInv, NEW m \in Makers, maker[m].pc \in {"image", "image_row"},
           MakerGoto(m, [maker[m] EXCEPT !.pc = "image_failed"]),
           UNCHANGED <<vars, products, bounds>>
    PROVE  ProductionInv'
<1> DEFINE q == [maker[m] EXCEPT !.pc = "image_failed"]
<1>1. maker[m] \in Maker /\ "image_failed" \in MakerPCs
  BY MakerFields DEF MakerPCs
<1>2. q \in Maker /\ q.row = maker[m].row /\ q.pc = "image_failed"
  BY <1>1 DEF Maker
<1>3. maker[m].pc \in VisualPCs /\ q.pc \in VisualPCs \ {"image_row"}
  BY <1>2 DEF VisualPCs
<1> QED
  BY <1>2, <1>3, VisualGoesOn DEF MakerGoto

LEMMA FindActiveStep ==
    ASSUME ProductionInv, NEW m \in Makers, FindActive(m)
    PROVE  ProductionInv'
<1>1. UNCHANGED <<vars, products, bounds>>
  BY DEF FindActive
<1>2. CASE Answer(m)
  BY <1>1, <1>2, AnswerOnly
<1>3. CASE ~Answer(m)
  <2> DEFINE q == [maker[m] EXCEPT !.pc = "create_job"]
  <2>1. maker' = [maker EXCEPT ![m] = q]
    BY <1>3 DEF FindActive, MakerGoto
  <2>2. q \in Maker /\ q.pc = "create_job"
    <3>1. maker[m] \in Maker /\ "create_job" \in MakerPCs
      BY MakerFields DEF MakerPCs
    <3> QED
      BY <3>1 DEF Maker
  <2>3. maker'[m].pc = "create_job"
    BY <2>1, <2>2, MakerSlot
  <2>4. MakerOK(m)'
    BY <2>3 DEF MakerOK, VisualsOK, UploadOK, PackageOK, RenderOK, MakerAt, VisualPCs, Packaging
  <2>5. \A n \in Makers : Apart(m, n)'
    BY <2>3, ApartByLabel DEF Packaging
  <2>6. Inv' /\ PlansStay
    BY <1>1, VarsSame DEF ProductionInv
  <2> QED
    BY <1>1, <2>1, <2>2, <2>4, <2>5, <2>6, BoundsSame, MakerReads
<1> QED
  BY <1>2, <1>3

\* A builder whose storage call or statement failed keeps its job, to mark it failed.
LEMMA PackageFails ==
    ASSUME ProductionInv, NEW m \in Makers, maker[m].pc \in Packaging,
           MakerGoto(m, [maker[m] EXCEPT !.pc = "mark_failed"]),
           UNCHANGED <<vars, products, bounds>>
    PROVE  ProductionInv'
<1> DEFINE q == [maker[m] EXCEPT !.pc = "mark_failed"]
<1>1. maker[m] \in Maker /\ "mark_failed" \in MakerPCs
  BY MakerFields DEF MakerPCs
<1>2. q \in Maker /\ q.row = maker[m].row /\ q.pc = "mark_failed"
  BY <1>1 DEF Maker
<1>3. maker' = [maker EXCEPT ![m] = q]
  BY DEF MakerGoto
<1>4. /\ maker'[m].pc = "mark_failed" /\ maker'[m].row = maker[m].row
      /\ \A n \in Makers : n # m => maker'[n] = maker[n]
  BY <1>2, <1>3, MakerSlot
<1>5. MakerOK(m)'
  <2>1. OpenJob(maker[m].row) /\ jobs' = jobs
    BY DEF ProductionInv, MakerOK, PackageOK, products
  <2> QED
    BY <1>4, <2>1 DEF MakerOK, VisualsOK, UploadOK, PackageOK, RenderOK, MakerAt, VisualPCs,
                      Packaging, OpenJob
<1>6. \A n \in Makers : n # m => Apart(m, n)'
  BY <1>4 DEF ProductionInv, Apart, MakerAt
<1>7. Inv' /\ PlansStay
  BY VarsSame DEF ProductionInv
<1> QED
  BY <1>2, <1>3, <1>5, <1>6, <1>7, BoundsSame, MakerReads

LEMMA InterruptMakerStep ==
    ASSUME ProductionInv, NEW m \in Makers, InterruptMaker(m)
    PROVE  ProductionInv'
<1>1. requests' \in Nat /\ failures' \in Nat
  BY DEF InterruptMaker, ProductionInv, Inv, TypeOK
<1> QED
  BY <1>1, AnswerReads DEF InterruptMaker

-----------------------------------------------------------------------------
(***************************************************************************)
(* Storage                                                                 *)
(***************************************************************************)
\* There are more numbers up to Cardinality(objects) + 1 than objects, so one is fresh.
LEMMA KeyIsFresh ==
    ASSUME ProductionInv, NEW kind
    PROVE  /\ FreshKey(kind) \in Nat
           /\ \A f \in objects : f.kind = kind => f.key # FreshKey(kind)
<1> DEFINE n == Cardinality(objects) + 1
           Free(k) == \A f \in objects : f.kind = kind => f.key # k
<1>1. Cardinality(objects) \in Nat /\ n \in Nat
  BY FS_CardinalityType DEF ProductionInv, ProductsTyped
<1>2. \E k \in 1 .. n : Free(k)
  <2>1. SUFFICES ASSUME \A k \in 1 .. n : ~Free(k) PROVE FALSE
    OBVIOUS
  <2> DEFINE holder == [k \in 1 .. n |-> CHOOSE f \in objects : f.kind = kind /\ f.key = k]
  <2>2. ASSUME NEW k \in 1 .. n
        PROVE  holder[k] \in objects /\ holder[k].key = k
    <3>1. \E f \in objects : f.kind = kind /\ f.key = k
      BY <2>1
    <3> QED
      BY <3>1
  <2>3. holder \in [1 .. n -> objects]
    BY <2>2
  <2>4. IsFiniteSet(1 .. n) /\ Cardinality(1 .. n) = n
    BY <1>1, FS_Interval
  <2>5. Cardinality(objects) < Cardinality(1 .. n)
    BY <1>1, <2>4
  <2>6. \E i, j \in 1 .. n : i # j /\ holder[i] = holder[j]
    <3> HIDE DEF holder
    <3> QED
      BY <2>3, <2>4, <2>5, FS_PigeonHole DEF ProductionInv, ProductsTyped
  <2> HIDE DEF holder
  <2> QED
    BY <2>2, <2>6
<1>3. FreshKey(kind) \in 1 .. n /\ Free(FreshKey(kind))
  BY <1>2 DEF FreshKey
<1> QED
  BY <1>1, <1>3

LEMMA StoredFile ==
    ASSUME ProductionInv, NEW kind \in {"upload", "image", "package"}, NEW key \in Nat
    PROVE  /\ StoredAs(kind, key) \in File /\ StoredAs(kind, key) # NoFile
           /\ StoredAs(kind, key).kind = kind /\ StoredAs(kind, key).key = key
<1>1. active \in Providers
  BY DEF ProductionInv, BoundsTyped
<1>2. /\ StoredAs(kind, key) \in File
      /\ StoredAs(kind, key).kind = kind /\ StoredAs(kind, key).key = key
  BY <1>1 DEF StoredAs, File
<1>3. NoFile.kind = "none"
  BY DEF NoFile
<1> QED
  BY <1>2, <1>3

LEMMA ObjectAdded ==
    ASSUME ProductionInv, NEW file \in File, objects' = objects \cup {file},
           UNCHANGED <<uploads, outputs, jobs, renders>>, PlansStay
    PROVE  /\ ProductsTyped' /\ FilesAreThere' /\ OutputsDone'
           /\ objects \subseteq objects' /\ DOMAIN jobs \subseteq DOMAIN jobs'
           /\ \A n \in Makers : Kept(n)
<1>1. ProductsTyped'
  BY FS_AddElement DEF ProductionInv, ProductsTyped
<1>2. FilesAreThere'
  BY DEF ProductionInv, FilesAreThere
<1>3. OutputsDone'
  BY DEF ProductionInv, OutputsDone, PlansStay
<1>4. ASSUME NEW n \in Makers PROVE Kept(n)
  BY DEF ProductionInv, MakerOK, UploadOK, Kept, MakerAt
<1> QED
  BY <1>1, <1>2, <1>3, <1>4

\* A file is put and its maker goes on with the coordinates.
LEMMA FilePut ==
    ASSUME ProductionInv, NEW m \in Makers, NEW file \in File, NEW pc \in MakerPCs,
           objects' = objects \cup {file},
           MakerGoto(m, [maker[m] EXCEPT !.pc = pc, !.file = file]),
           UNCHANGED <<vars, uploads, outputs, jobs, renders, bounds>>,
           MakerOK(m)', \A n \in Makers : n # m => Apart(m, n)'
    PROVE  ProductionInv'
<1> DEFINE q == [maker[m] EXCEPT !.pc = pc, !.file = file]
<1>1. q \in Maker
  BY MakerFields DEF Maker
<1>2. maker' = [maker EXCEPT ![m] = q]
  BY DEF MakerGoto
<1>3. Inv' /\ PlansStay
  BY VarsSame DEF ProductionInv
<1> QED
  BY <1>1, <1>2, <1>3, BoundsSame, ObjectAdded, MakerMoves

LEMMA FileSlot ==
    ASSUME ProductionInv, NEW m \in Makers, NEW file \in File, NEW pc \in MakerPCs,
           MakerGoto(m, [maker[m] EXCEPT !.pc = pc, !.file = file])
    PROVE  /\ maker'[m].pc = pc /\ maker'[m].file = file /\ maker'[m].row = maker[m].row
           /\ \A n \in Makers : n # m => maker'[n] = maker[n]
<1> DEFINE q == [maker[m] EXCEPT !.pc = pc, !.file = file]
<1>1. maker'[m] = q /\ \A n \in Makers : n # m => maker'[n] = maker[n]
  BY MakerSlot DEF MakerGoto
<1>2. q.pc = pc /\ q.file = file /\ q.row = maker[m].row
  BY MakerFields DEF Maker
<1> QED
  BY <1>1, <1>2

\* The key of an upload is fresh, so no row and no other request has the file.
LEMMA PutUploadStep ==
    ASSUME ProductionInv, NEW m \in Makers, PutUpload(m)
    PROVE  ProductionInv'
<1>1. CASE Answer(m) /\ UNCHANGED objects
  BY <1>1, AnswerOnly DEF PutUpload, products
<1>2. CASE ~(Answer(m) /\ UNCHANGED objects)
  <2>0. "insert_upload" \in MakerPCs
    BY DEF MakerPCs
  <2>1. PICK file : /\ file = StoredAs("upload", FreshKey("upload"))
                    /\ objects' = objects \cup {file}
                    /\ MakerGoto(m, [maker[m] EXCEPT !.pc = "insert_upload", !.file = file])
    BY <1>2 DEF PutUpload
  <2>2. /\ file \in File /\ file # NoFile /\ file.kind = "upload"
        /\ \A f \in objects : f.kind = "upload" => f # file
    BY <2>1, KeyIsFresh, StoredFile
  <2>3. /\ maker'[m].pc = "insert_upload" /\ maker'[m].file = file
        /\ \A n \in Makers : n # m => maker'[n] = maker[n]
    <3>1. MakerGoto(m, [maker[m] EXCEPT !.pc = "insert_upload", !.file = file])
      BY <2>1
    <3> QED
      BY <2>0, <2>2, <3>1, FileSlot
  <2>4. UNCHANGED <<vars, uploads, outputs, jobs, renders, bounds>>
    BY DEF PutUpload
  <2>5. \A u \in DOMAIN uploads : uploads[u] # file
    <3> SUFFICES ASSUME NEW u \in DOMAIN uploads, uploads[u] = file PROVE FALSE
      OBVIOUS
    <3>1. uploads[u] \in objects
      BY <2>2 DEF ProductionInv, FilesAreThere
    <3> QED
      BY <2>2, <3>1
  <2>6. MakerOK(m)'
    BY <2>1, <2>2, <2>3, <2>4, <2>5
       DEF MakerOK, VisualsOK, UploadOK, PackageOK, RenderOK, MakerAt, VisualPCs, Packaging
  <2>7. ASSUME NEW n \in Makers, n # m PROVE Apart(m, n)'
    <3>1. MakerAt(n, "insert_upload") => maker[n].file # file
      BY <2>2 DEF ProductionInv, MakerOK, UploadOK
    <3> QED
      BY <2>3, <2>7, <3>1 DEF Apart, MakerAt, Packaging
  <2> QED
    BY <2>1, <2>2, <2>4, <2>6, <2>7, <2>0, FilePut
<1> QED
  BY <1>1, <1>2

LEMMA PutImageStep ==
    ASSUME ProductionInv, NEW m \in Makers, PutImage(m)
    PROVE  ProductionInv'
<1>0. /\ maker[m].pc = "image"
      /\ UNCHANGED <<vars, uploads, outputs, jobs, renders, bounds>>
  BY DEF PutImage, MakerAt
<1>1. CASE MakerGoto(m, [maker[m] EXCEPT !.pc = "image_failed"]) /\ UNCHANGED objects
  BY <1>0, <1>1, ImageFails DEF products
<1>2. CASE ~(MakerGoto(m, [maker[m] EXCEPT !.pc = "image_failed"]) /\ UNCHANGED objects)
  <2>0. "image_row" \in MakerPCs
    BY DEF MakerPCs
  <2>1. PICK file : /\ file = StoredAs("image", FreshKey("image"))
                    /\ objects' = objects \cup {file}
                    /\ MakerGoto(m, [maker[m] EXCEPT !.pc = "image_row", !.file = file])
    BY <1>2 DEF PutImage
  <2>2. file \in File
    BY <2>1, KeyIsFresh, StoredFile
  <2>3. maker'[m].pc = "image_row" /\ maker'[m].file = file /\ maker'[m].row = maker[m].row
    <3>1. MakerGoto(m, [maker[m] EXCEPT !.pc = "image_row", !.file = file])
      BY <2>1
    <3> QED
      BY <2>0, <2>2, <3>1, FileSlot
  <2>4. PlanApproved(maker[m].row) /\ plans' = plans
    BY <1>0 DEF ProductionInv, MakerOK, VisualsOK, VisualPCs, vars, work
  <2>5. MakerOK(m)'
    BY <2>1, <2>3, <2>4
       DEF MakerOK, VisualsOK, UploadOK, PackageOK, RenderOK, MakerAt, Packaging, PlanApproved
  <2>6. \A n \in Makers : Apart(m, n)'
    BY <2>3, ApartByLabel DEF Packaging
  <2> QED
    BY <1>0, <2>1, <2>2, <2>5, <2>6, <2>0, FilePut
<1> QED
  BY <1>1, <1>2

LEMMA PutPackageStep ==
    ASSUME ProductionInv, NEW m \in Makers, PutPackage(m)
    PROVE  ProductionInv'
<1>0. /\ maker[m].pc = "put_package"
      /\ UNCHANGED <<vars, uploads, outputs, jobs, renders, bounds>>
  BY DEF PutPackage, MakerAt
<1>1. CASE MakerGoto(m, [maker[m] EXCEPT !.pc = "mark_failed"]) /\ UNCHANGED objects
  BY <1>0, <1>1, PackageFails DEF products, Packaging
<1>2. CASE ~(MakerGoto(m, [maker[m] EXCEPT !.pc = "mark_failed"]) /\ UNCHANGED objects)
  <2>0. "mark_ready" \in MakerPCs
    BY DEF MakerPCs
  <2>1. PICK file : /\ file = StoredAs("package", maker[m].row)
                    /\ objects' = objects \cup {file}
                    /\ MakerGoto(m, [maker[m] EXCEPT !.pc = "mark_ready", !.file = file])
    BY <1>2 DEF PutPackage
  <2>2. file \in File
    BY <2>1, MakerFields, StoredFile
  <2>3. /\ maker'[m].pc = "mark_ready" /\ maker'[m].file = file /\ maker'[m].row = maker[m].row
        /\ \A n \in Makers : n # m => maker'[n] = maker[n]
    <3>1. MakerGoto(m, [maker[m] EXCEPT !.pc = "mark_ready", !.file = file])
      BY <2>1
    <3> QED
      BY <2>0, <2>2, <3>1, FileSlot
  <2>4. OpenJob(maker[m].row) /\ jobs' = jobs
    BY <1>0 DEF ProductionInv, MakerOK, PackageOK, Packaging
  <2>5. MakerOK(m)'
    BY <2>1, <2>3, <2>4
       DEF MakerOK, VisualsOK, UploadOK, PackageOK, RenderOK, MakerAt, VisualPCs, OpenJob
  <2>6. ASSUME NEW n \in Makers, n # m PROVE Apart(m, n)'
    <3>1. maker[n].pc \in Packaging => maker[m].row # maker[n].row
      BY <1>0, <2>6 DEF ProductionInv, Apart, Packaging
    <3> QED
      BY <2>3, <2>6, <3>1 DEF Apart, MakerAt
  <2> QED
    BY <1>0, <2>1, <2>2, <2>5, <2>6, <2>0, FilePut
<1> QED
  BY <1>1, <1>2

-----------------------------------------------------------------------------
(***************************************************************************)
(* Rows                                                                    *)
(***************************************************************************)
LEMMA AnswerMoves ==
    ASSUME ProductionInv, NEW m \in Makers, Answer(m), UNCHANGED <<vars, bounds>>,
           ProductsTyped', FilesAreThere', OutputsDone',
           objects \subseteq objects', DOMAIN jobs \subseteq DOMAIN jobs',
           \A n \in Makers : n # m => Kept(n)
    PROVE  ProductionInv'
<1>1. Inv' /\ PlansStay
  BY VarsSame DEF ProductionInv
<1> QED
  BY <1>1, AnswerIsIdle, BoundsSame, MakerMoves

\* The row of an upload names a file that no other row or request has.
LEMMA InsertUploadStep ==
    ASSUME ProductionInv, NEW m \in Makers, InsertUpload(m)
    PROVE  ProductionInv'
<1>1. /\ maker[m].pc = "insert_upload" /\ uploads' = Append(uploads, maker[m].file)
      /\ Answer(m) /\ UNCHANGED <<vars, outputs, jobs, renders, objects, bounds>>
  BY DEF InsertUpload, MakerAt
<1>2. PICK file : file = maker[m].file
  OBVIOUS
<1>3. file \in Upload /\ uploads \in Seq(Upload)
  BY <1>2, MakerFields DEF ProductionInv, ProductsTyped, Upload
<1>4. /\ uploads' \in Seq(Upload)
      /\ \A u \in DOMAIN uploads' : u \in DOMAIN uploads \/ u = Len(uploads) + 1
      /\ \A u \in DOMAIN uploads : uploads'[u] = uploads[u]
      /\ uploads'[Len(uploads) + 1] = file
  BY <1>1, <1>2, <1>3, AppendFacts
<1>5. file = NoFile \/ (file \in objects /\ \A u \in DOMAIN uploads : uploads[u] # file)
  BY <1>1, <1>2 DEF ProductionInv, MakerOK, UploadOK, MakerAt
<1>6. ProductsTyped'
  BY <1>1, <1>4 DEF ProductionInv, ProductsTyped
<1>7. FilesAreThere'
  <2>1. ASSUME NEW u \in DOMAIN uploads', uploads'[u] # NoFile
        PROVE  /\ uploads'[u] \in objects
               /\ \A v \in DOMAIN uploads' : uploads'[v] = uploads'[u] => v = u
    <3>1. CASE u \in DOMAIN uploads
      <4>1. /\ uploads[u] \in objects
            /\ \A v \in DOMAIN uploads : uploads[v] = uploads[u] => v = u
        BY <1>4, <2>1, <3>1 DEF ProductionInv, FilesAreThere
      <4> QED
        BY <1>4, <1>5, <2>1, <3>1, <4>1
    <3>2. CASE u = Len(uploads) + 1
      BY <1>4, <1>5, <2>1, <3>2
    <3> QED
      BY <1>4, <3>1, <3>2
  <2> QED
    BY <1>1, <2>1 DEF ProductionInv, FilesAreThere
<1>8. OutputsDone'
  BY <1>1 DEF ProductionInv, OutputsDone, PlanApproved, vars, work
<1>9. ASSUME NEW n \in Makers, n # m PROVE Kept(n)
  <2>1. ASSUME MakerAt(n, "insert_upload"), maker[n].file # NoFile,
               NEW u \in DOMAIN uploads'
        PROVE  uploads'[u] # maker[n].file
    <3>1. maker[n].file # file
      BY <1>1, <1>2, <1>9, <2>1 DEF ProductionInv, Apart, MakerAt
    <3>2. \A v \in DOMAIN uploads : uploads[v] # maker[n].file
      BY <2>1 DEF ProductionInv, MakerOK, UploadOK
    <3> QED
      BY <1>4, <3>1, <3>2
  <2> QED
    BY <1>1, <2>1 DEF Kept
<1> QED
  BY <1>1, <1>6, <1>7, <1>8, <1>9, AnswerMoves

\* A row of generated_outputs is added, of the plan the run is for.
LEMMA OutputAdded ==
    ASSUME ProductionInv, NEW m \in Makers, NEW status \in {"generated", "failed"},
           NEW file \in File \cup {NoFile}, maker[m].pc \in VisualPCs,
           status = "generated" => file \in objects,
           NewOutput(m, status, file),
           UNCHANGED <<vars, uploads, jobs, renders, objects>>
    PROVE  ProductsTyped' /\ FilesAreThere' /\ OutputsDone'
<1> DEFINE row == [plan |-> maker[m].row, index |-> maker[m].base + maker[m].nth,
                   status |-> status, approval |-> "pending", file |-> file]
<1>1. outputs' = Append(outputs, row) /\ outputs \in Seq(Output)
  BY DEF NewOutput, ProductionInv, ProductsTyped
<1>2. row \in Output
  <2>1. maker[m].row \in Nat /\ maker[m].base + maker[m].nth \in Nat
    BY MakerFields
  <2> QED
    BY <2>1 DEF Output
<1>3. row.plan = maker[m].row /\ row.status = status /\ row.file = file
  OBVIOUS
<1>4. /\ outputs' \in Seq(Output)
      /\ \A o \in DOMAIN outputs' : o \in DOMAIN outputs \/ o = Len(outputs) + 1
      /\ \A o \in DOMAIN outputs : outputs'[o] = outputs[o]
      /\ outputs'[Len(outputs) + 1] = row
  <2> HIDE DEF row
  <2> QED
    BY <1>1, <1>2, AppendFacts
<1>5. ProductsTyped'
  BY <1>4 DEF ProductionInv, ProductsTyped
<1>6. FilesAreThere'
  <2>1. ASSUME NEW o \in DOMAIN outputs', outputs'[o].status = "generated"
        PROVE  outputs'[o].file \in objects
    <3>1. CASE o \in DOMAIN outputs
      BY <1>4, <2>1, <3>1 DEF ProductionInv, FilesAreThere
    <3>2. CASE o = Len(outputs) + 1
      BY <1>3, <1>4, <2>1, <3>2
    <3> QED
      BY <1>4, <3>1, <3>2
  <2> QED
    BY <2>1 DEF ProductionInv, FilesAreThere
<1>7. OutputsDone'
  <2>1. PlanApproved(maker[m].row)
    BY DEF ProductionInv, MakerOK, VisualsOK
  <2>2. ASSUME NEW o \in DOMAIN outputs' PROVE PlanApproved(outputs'[o].plan)
    <3>1. CASE o \in DOMAIN outputs
      BY <1>4, <3>1 DEF ProductionInv, OutputsDone
    <3>2. CASE o = Len(outputs) + 1
      BY <1>3, <1>4, <2>1, <3>2
    <3> QED
      BY <1>4, <3>1, <3>2
  <2> QED
    BY <2>2 DEF OutputsDone, PlanApproved, vars, work
<1> QED
  BY <1>5, <1>6, <1>7

LEMMA KeptByRows ==
    ASSUME ProductionInv, UNCHANGED <<uploads, jobs>>
    PROVE  \A n \in Makers : Kept(n)
  BY DEF ProductionInv, MakerOK, UploadOK, Kept, MakerAt

\* The run answers after its last image, or takes the next one.
LEMMA OutputMoves ==
    ASSUME ProductionInv, NEW m \in Makers, maker[m].pc \in VisualPCs,
           Answer(m) \/ NextImage(m),
           ProductsTyped', FilesAreThere', OutputsDone',
           UNCHANGED <<vars, uploads, jobs, renders, objects, bounds>>
    PROVE  ProductionInv'
<1>0. \A n \in Makers : Kept(n)
  BY KeptByRows
<1>1. CASE Answer(m)
  BY <1>0, <1>1, AnswerMoves
<1>2. CASE ~Answer(m)
  <2> DEFINE q == [maker[m] EXCEPT !.pc = "image", !.nth = @ + 1, !.left = @ - 1]
  <2>1. maker' = [maker EXCEPT ![m] = q] /\ maker[m].left > 1
    BY <1>2 DEF NextImage, MakerGoto
  <2>2. q \in Maker /\ q.pc = "image" /\ q.row = maker[m].row
    <3>1. /\ maker[m] \in Maker /\ maker[m].nth + 1 \in Nat /\ maker[m].left - 1 \in Nat
          /\ "image" \in MakerPCs
      BY <2>1, MakerFields DEF MakerPCs
    <3> QED
      BY <3>1 DEF Maker
  <2>3. maker'[m] = q
    BY <2>1, MakerSlot
  <2>4. PlanApproved(maker[m].row)
    BY DEF ProductionInv, MakerOK, VisualsOK
  <2>5. MakerOK(m)'
    <3>1. maker'[m].pc = "image" /\ maker'[m].row = maker[m].row
      BY <2>2, <2>3
    <3> QED
      BY <2>4, <3>1 DEF MakerOK, VisualsOK, UploadOK, PackageOK, RenderOK, MakerAt,
                        Packaging, PlanApproved, vars, work
  <2>6. \A n \in Makers : Apart(m, n)'
    <3>1. maker'[m].pc = "image"
      BY <2>2, <2>3
    <3> QED
      BY <3>1, ApartByLabel DEF Packaging
  <2>7. Inv' /\ PlansStay
    BY VarsSame DEF ProductionInv
  <2> HIDE DEF q
  <2> QED
    BY <1>0, <2>1, <2>2, <2>5, <2>6, <2>7, BoundsSame, MakerMoves
<1> QED
  BY <1>1, <1>2

LEMMA OutputRows ==
    ASSUME ProductionInv, NEW m \in Makers,
           RecordRunFailure(m) \/ InsertOutput(m) \/ InsertFailedImage(m)
    PROVE  ProductionInv'
<1>0. UNCHANGED <<vars, uploads, jobs, renders, objects, bounds>>
  BY DEF RecordRunFailure, InsertOutput, InsertFailedImage
<1>1. CASE RecordRunFailure(m)
  <2>1. maker[m].pc \in VisualPCs /\ NewOutput(m, "failed", NoFile) /\ Answer(m)
    BY <1>1 DEF RecordRunFailure, MakerAt, VisualPCs
  <2>2. ProductsTyped' /\ FilesAreThere' /\ OutputsDone'
    BY <1>0, <2>1, OutputAdded
  <2> QED
    BY <1>0, <2>1, <2>2, OutputMoves
<1>2. CASE InsertFailedImage(m)
  <2>1. maker[m].pc \in VisualPCs /\ NewOutput(m, "failed", NoFile) /\ NextImage(m)
    BY <1>2 DEF InsertFailedImage, MakerAt, VisualPCs
  <2>2. ProductsTyped' /\ FilesAreThere' /\ OutputsDone'
    BY <1>0, <2>1, OutputAdded
  <2> QED
    BY <1>0, <2>1, <2>2, OutputMoves
<1>3. CASE InsertOutput(m)
  <2>0. maker[m].pc = "image_row" /\ maker[m].pc \in VisualPCs
    BY <1>3 DEF InsertOutput, MakerAt, VisualPCs
  <2>1. CASE MakerGoto(m, [maker[m] EXCEPT !.pc = "image_failed"]) /\ UNCHANGED outputs
    BY <1>0, <2>0, <2>1, ImageFails DEF products
  <2>2. CASE NewOutput(m, "generated", maker[m].file) /\ NextImage(m)
    <3>1. maker[m].file \in objects /\ maker[m].file \in File \cup {NoFile}
      BY <2>0, MakerFields DEF ProductionInv, MakerOK, VisualsOK, MakerAt
    <3>2. ProductsTyped' /\ FilesAreThere' /\ OutputsDone'
      BY <1>0, <2>0, <2>2, <3>1, OutputAdded
    <3> QED
      BY <1>0, <2>0, <2>2, <3>2, OutputMoves
  <2> QED
    BY <1>3, <2>1, <2>2 DEF InsertOutput
<1> QED
  BY <1>1, <1>2, <1>3

\* A guarded UPDATE of a review.
LEMMA ReviewStep ==
    ASSUME ProductionInv, Review, ProductsTyped', FilesAreThere', OutputsDone',
           DOMAIN jobs \subseteq DOMAIN jobs', \A n \in Makers : Kept(n)
    PROVE  ProductionInv'
<1>1. requests' \in Nat /\ failures' \in Nat
  BY DEF Review, ProductionInv, Inv, TypeOK
<1>2. Inv' /\ PlansStay
  BY <1>1, PipelineStays DEF Review, ProductionInv
<1>3. BoundsTyped'
  BY BoundsSame DEF Review
<1> QED
  BY <1>2, <1>3, MakersStay DEF Review

LEMMA ReviewOutputStep ==
    ASSUME ProductionInv, NEW o \in DOMAIN outputs, ApproveOutput(o) \/ RejectOutput(o)
    PROVE  ProductionInv'
<1>1. PICK new \in {"approved", "revision_requested", "rejected"} :
         outputs' = [outputs EXCEPT ![o].approval = new]
  BY DEF ApproveOutput, RejectOutput
<1>2. Review /\ UNCHANGED jobs
  BY DEF ApproveOutput, RejectOutput
<1>3. UNCHANGED <<plans, uploads, renders, objects>>
  BY <1>2 DEF Review, work
<1> DEFINE row == [outputs[o] EXCEPT !.approval = new]
<1>4. outputs \in Seq(Output) /\ outputs[o] \in Output
  BY DEF ProductionInv, ProductsTyped
<1>5. /\ row \in Output /\ row.plan = outputs[o].plan
      /\ row.status = outputs[o].status /\ row.file = outputs[o].file
  BY <1>4 DEF Output
<1>6. /\ outputs' \in Seq(Output) /\ DOMAIN outputs' = DOMAIN outputs /\ outputs'[o] = row
      /\ \A k \in DOMAIN outputs : k # o => outputs'[k] = outputs[k]
  <2>1. outputs' = [outputs EXCEPT ![o] = row]
    BY <1>1
  <2> HIDE DEF row
  <2> QED
    BY <1>4, <1>5, <2>1, ExceptFacts
<1>7. \A k \in DOMAIN outputs : /\ outputs'[k].plan = outputs[k].plan
                                /\ outputs'[k].status = outputs[k].status
                                /\ outputs'[k].file = outputs[k].file
  BY <1>5, <1>6
<1>8. ProductsTyped'
  BY <1>2, <1>3, <1>6 DEF ProductionInv, ProductsTyped
<1>9. FilesAreThere'
  BY <1>2, <1>3, <1>6, <1>7 DEF ProductionInv, FilesAreThere
<1>10. OutputsDone'
  BY <1>3, <1>6, <1>7 DEF ProductionInv, OutputsDone, PlanApproved
<1>11. \A n \in Makers : Kept(n)
  BY <1>2, <1>3, KeptByRows
<1> QED
  BY <1>2, <1>8, <1>9, <1>10, <1>11, ReviewStep

\* Decisions on packages are never changed.
JobsStay == \A j \in DOMAIN jobs :
               jobs[j].status \in {"approved", "rejected"} => jobs'[j].status = jobs[j].status

LEMMA JobWritten ==
    ASSUME ProductionInv, NEW j \in DOMAIN jobs, NEW row \in Job,
           jobs[j].status \notin {"approved", "rejected"},
           jobs' = [jobs EXCEPT ![j] = row],
           \/ row.status \in {"pending", "packaging", "failed"} /\ row.file = NoFile
           \/ row.file \in objects,
           UNCHANGED <<plans, uploads, outputs, renders, objects>>
    PROVE  /\ ProductsTyped' /\ FilesAreThere' /\ OutputsDone' /\ JobsStay
           /\ DOMAIN jobs' = DOMAIN jobs /\ jobs'[j] = row
           /\ \A k \in DOMAIN jobs : k # j => jobs'[k] = jobs[k]
<1>1. /\ jobs' \in Seq(Job) /\ DOMAIN jobs' = DOMAIN jobs /\ jobs'[j] = row
      /\ \A k \in DOMAIN jobs : k # j => jobs'[k] = jobs[k]
  BY ExceptFacts DEF ProductionInv, ProductsTyped
<1>2. ProductsTyped'
  BY <1>1 DEF ProductionInv, ProductsTyped
<1>3. FilesAreThere'
  BY <1>1 DEF ProductionInv, FilesAreThere
<1>4. OutputsDone'
  BY DEF ProductionInv, OutputsDone, PlanApproved
<1>5. JobsStay
  BY <1>1 DEF JobsStay
<1> QED
  BY <1>1, <1>2, <1>3, <1>4, <1>5

LEMMA JobFields ==
    ASSUME ProductionInv, NEW j \in DOMAIN jobs
    PROVE  /\ j \in Nat /\ jobs[j] \in Job /\ jobs[j].output \in Nat
           /\ jobs[j].file \in File \cup {NoFile}
<1>1. j \in Nat /\ jobs[j] \in Job
  BY DEF ProductionInv, ProductsTyped
<1> QED
  BY <1>1 DEF Job

LEMMA DecideJobStep ==
    ASSUME ProductionInv, NEW j \in DOMAIN jobs, DecideJob(j)
    PROVE  ProductionInv' /\ JobsStay
<1>1. PICK new \in {"approved", "rejected"} : jobs' = [jobs EXCEPT ![j].status = new]
  BY DEF DecideJob
<1>2. Review /\ UNCHANGED outputs /\ jobs[j].status = "package_ready"
  BY DEF DecideJob
<1>3. UNCHANGED <<plans, uploads, outputs, renders, objects>>
  BY <1>2 DEF Review, work
<1> DEFINE row == [jobs[j] EXCEPT !.status = new]
<1>4. row \in Job /\ row.file = jobs[j].file
  BY JobFields DEF Job, JobStatuses
<1>5. row.file \in objects
  BY <1>2, <1>4 DEF ProductionInv, FilesAreThere
<1>6. /\ ProductsTyped' /\ FilesAreThere' /\ OutputsDone' /\ JobsStay
      /\ DOMAIN jobs' = DOMAIN jobs
      /\ \A k \in DOMAIN jobs : k # j => jobs'[k] = jobs[k]
  <2>1. jobs' = [jobs EXCEPT ![j] = row]
    BY <1>1
  <2> HIDE DEF row
  <2> QED
    BY <1>2, <1>3, <1>4, <1>5, <2>1, JobWritten
<1>7. ASSUME NEW n \in Makers PROVE Kept(n)
  <2>1. maker[n].pc \in Packaging => maker[n].row \in DOMAIN jobs /\ maker[n].row # j
    BY <1>2 DEF ProductionInv, MakerOK, PackageOK, OpenJob
  <2> QED
    BY <1>3, <1>6, <2>1 DEF ProductionInv, MakerOK, UploadOK, Kept, MakerAt
<1> QED
  BY <1>2, <1>6, <1>7, ReviewStep

\* A builder writes the job it holds: nobody else works on it, and it is not decided.
LEMMA OwnJobWritten ==
    ASSUME ProductionInv, NEW m \in Makers, maker[m].pc \in Packaging,
           NEW status \in {"packaging", "package_ready", "failed"},
           NEW file \in File \cup {NoFile},
           UpdateStatus(maker[m].row, status, file),
           IF status = "package_ready" THEN file \in objects /\ file # NoFile ELSE file = NoFile,
           UNCHANGED <<vars, uploads, outputs, renders, objects, bounds>>
    PROVE  /\ ProductsTyped' /\ FilesAreThere' /\ OutputsDone' /\ JobsStay
           /\ DOMAIN jobs' = DOMAIN jobs
           /\ jobs'[maker[m].row].status = status
           /\ status # "package_ready" => jobs'[maker[m].row].file = NoFile
           /\ \A n \in Makers : n # m => Kept(n)
<1>1. PICK j : j = maker[m].row
  OBVIOUS
<1>2. j \in DOMAIN jobs /\ jobs[j].status \in {"pending", "packaging"} /\ jobs[j].file = NoFile
  BY <1>1 DEF ProductionInv, MakerOK, PackageOK, OpenJob
<1> DEFINE new == IF file = NoFile THEN jobs[j].file ELSE file
           row == [output |-> jobs[j].output, status |-> status, file |-> new]
<1>3. new = file /\ new \in File \cup {NoFile}
  BY <1>2
<1>4. row \in Job
  BY <1>2, <1>3, JobFields DEF Job, JobStatuses
<1>5. row.status = status /\ row.file = file
  BY <1>3
<1>6. jobs' = [jobs EXCEPT ![j] = row]
  BY <1>1 DEF UpdateStatus
<1>7. UNCHANGED <<plans, uploads, outputs, renders, objects>>
  BY DEF vars, work
<1> HIDE DEF row
<1>8. /\ ProductsTyped' /\ FilesAreThere' /\ OutputsDone' /\ JobsStay
      /\ DOMAIN jobs' = DOMAIN jobs /\ jobs'[j] = row
      /\ \A k \in DOMAIN jobs : k # j => jobs'[k] = jobs[k]
  BY <1>2, <1>4, <1>5, <1>6, <1>7, JobWritten
<1>9. ASSUME NEW n \in Makers, n # m PROVE Kept(n)
  <2>1. maker[n].pc \in Packaging => maker[n].row \in DOMAIN jobs /\ maker[n].row # j
    BY <1>1, <1>9 DEF ProductionInv, MakerOK, PackageOK, OpenJob, Apart
  <2> QED
    BY <1>7, <1>8, <2>1 DEF ProductionInv, MakerOK, UploadOK, Kept, MakerAt
<1> QED
  BY <1>1, <1>5, <1>8, <1>9

LEMMA JobMarks ==
    ASSUME ProductionInv, NEW m \in Makers, MarkPackaging(m) \/ MarkReady(m) \/ MarkFailed(m)
    PROVE  ProductionInv' /\ JobsStay
<1>1. UNCHANGED <<vars, uploads, outputs, renders, objects, bounds>>
  BY DEF MarkPackaging, MarkReady, MarkFailed
<1>2. NoFile \in File \cup {NoFile}
  OBVIOUS
<1>3. CASE MarkPackaging(m)
  <2>1. /\ maker[m].pc = "mark_packaging" /\ maker[m].pc \in Packaging
        /\ UpdateStatus(maker[m].row, "packaging", NoFile)
    BY <1>3 DEF MarkPackaging, MakerAt, Packaging
  <2> DEFINE q == [maker[m] EXCEPT !.pc = "put_package"]
  <2>2. maker' = [maker EXCEPT ![m] = q]
    BY <1>3 DEF MarkPackaging, MakerGoto
  <2>3. q \in Maker /\ q.pc = "put_package" /\ q.row = maker[m].row
    <3>1. maker[m] \in Maker /\ "put_package" \in MakerPCs
      BY MakerFields DEF MakerPCs
    <3> QED
      BY <3>1 DEF Maker
  <2>4. /\ ProductsTyped' /\ FilesAreThere' /\ OutputsDone' /\ JobsStay
        /\ DOMAIN jobs' = DOMAIN jobs
        /\ jobs'[maker[m].row].status = "packaging" /\ jobs'[maker[m].row].file = NoFile
        /\ \A n \in Makers : n # m => Kept(n)
    BY <1>1, <1>2, <2>1, OwnJobWritten
  <2>5. /\ maker'[m].pc = "put_package" /\ maker'[m].row = maker[m].row
        /\ \A n \in Makers : n # m => maker'[n] = maker[n]
    BY <2>2, <2>3, MakerSlot
  <2>6. maker[m].row \in DOMAIN jobs
    BY <2>1 DEF ProductionInv, MakerOK, PackageOK, OpenJob
  <2>7. MakerOK(m)'
    BY <2>4, <2>5, <2>6 DEF MakerOK, VisualsOK, UploadOK, PackageOK, RenderOK, MakerAt,
                            VisualPCs, OpenJob
  <2>8. ASSUME NEW n \in Makers, n # m PROVE Apart(m, n)'
    <3>1. maker[n].pc \in Packaging => maker[m].row # maker[n].row
      BY <2>1, <2>8 DEF ProductionInv, Apart
    <3> QED
      BY <2>5, <2>8, <3>1 DEF Apart, MakerAt
  <2>9. Inv' /\ PlansStay
    BY <1>1, VarsSame DEF ProductionInv
  <2> HIDE DEF q
  <2> QED
    BY <1>1, <2>2, <2>3, <2>4, <2>7, <2>8, <2>9, BoundsSame, MakerMoves
<1>4. CASE MarkFailed(m)
  <2>1. /\ maker[m].pc \in Packaging /\ UpdateStatus(maker[m].row, "failed", NoFile)
        /\ Answer(m)
    BY <1>4 DEF MarkFailed, MakerAt, Packaging
  <2>2. /\ ProductsTyped' /\ FilesAreThere' /\ OutputsDone' /\ JobsStay
        /\ DOMAIN jobs' = DOMAIN jobs /\ \A n \in Makers : n # m => Kept(n)
    BY <1>1, <1>2, <2>1, OwnJobWritten
  <2> QED
    BY <1>1, <2>1, <2>2, AnswerMoves
<1>5. CASE MarkReady(m)
  <2>0. maker[m].pc = "mark_ready" /\ maker[m].pc \in Packaging
    BY <1>5 DEF MarkReady, MakerAt, Packaging
  <2>1. CASE MakerGoto(m, [maker[m] EXCEPT !.pc = "mark_failed"]) /\ UNCHANGED jobs
    BY <1>1, <2>0, <2>1, PackageFails DEF products, JobsStay
  <2>2. CASE UpdateStatus(maker[m].row, "package_ready", maker[m].file) /\ Answer(m)
    <3>1. maker[m].file \in objects /\ maker[m].file # NoFile
      <4>1. maker[m].file \in objects
        BY <2>0 DEF ProductionInv, MakerOK, PackageOK, MakerAt
      <4>2. maker[m].file \in File
        BY <4>1 DEF ProductionInv, ProductsTyped
      <4> QED
        BY <4>1, <4>2 DEF File, NoFile
    <3>2. maker[m].file \in File \cup {NoFile}
      BY MakerFields
    <3>3. /\ ProductsTyped' /\ FilesAreThere' /\ OutputsDone' /\ JobsStay
          /\ DOMAIN jobs' = DOMAIN jobs /\ \A n \in Makers : n # m => Kept(n)
      BY <1>1, <2>0, <2>2, <3>1, <3>2, OwnJobWritten
    <3> QED
      BY <1>1, <2>2, <3>3, AnswerMoves
  <2> QED
    BY <1>5, <2>1, <2>2 DEF MarkReady
<1> QED
  BY <1>3, <1>4, <1>5

LEMMA CreateJobStep ==
    ASSUME ProductionInv, NEW m \in Makers, CreateJob(m)
    PROVE  ProductionInv' /\ JobsStay
<1>1. UNCHANGED <<vars, uploads, outputs, renders, objects, bounds>>
  BY DEF CreateJob
<1>2. CASE Answer(m) /\ UNCHANGED jobs
  BY <1>1, <1>2, AnswerOnly DEF products, JobsStay
<1>3. CASE ~(Answer(m) /\ UNCHANGED jobs)
  <2>1. /\ jobs' = NewJob(maker[m].row)
        /\ MakerGoto(m, [maker[m] EXCEPT !.pc = "mark_packaging", !.row = Len(jobs')])
    BY <1>3 DEF CreateJob
  <2> DEFINE row == [output |-> maker[m].row, status |-> "pending", file |-> NoFile]
             q == [maker[m] EXCEPT !.pc = "mark_packaging", !.row = Len(jobs')]
  <2>2. jobs' = Append(jobs, row) /\ jobs \in Seq(Job)
    BY <2>1 DEF NewJob, ProductionInv, ProductsTyped
  <2>3. row \in Job /\ row.status = "pending" /\ row.file = NoFile
    BY MakerFields DEF Job, JobStatuses
  <2>4. /\ jobs' \in Seq(Job) /\ Len(jobs) \in Nat /\ Len(jobs') = Len(jobs) + 1
        /\ DOMAIN jobs \subseteq DOMAIN jobs' /\ Len(jobs') \in DOMAIN jobs'
        /\ \A j \in DOMAIN jobs' : j \in DOMAIN jobs \/ j = Len(jobs) + 1
        /\ \A j \in DOMAIN jobs : jobs'[j] = jobs[j] /\ j # Len(jobs')
        /\ jobs'[Len(jobs')] = row
    <3> HIDE DEF row
    <3> QED
      BY <2>2, <2>3, AppendFacts
  <2>5. ProductsTyped'
    BY <1>1, <2>4 DEF ProductionInv, ProductsTyped
  <2>6. FilesAreThere'
    <3>1. ASSUME NEW j \in DOMAIN jobs'
          PROVE  \/ jobs'[j].status \in {"pending", "packaging", "failed"} /\ jobs'[j].file = NoFile
                 \/ jobs'[j].file \in objects
      <4>1. CASE j \in DOMAIN jobs
        BY <2>4, <4>1 DEF ProductionInv, FilesAreThere
      <4>2. CASE j = Len(jobs) + 1
        BY <2>3, <2>4, <4>2
      <4> QED
        BY <2>4, <4>1, <4>2
    <3> QED
      BY <1>1, <3>1 DEF ProductionInv, FilesAreThere
  <2>7. OutputsDone' /\ JobsStay
    BY <1>1, <2>4 DEF ProductionInv, OutputsDone, PlanApproved, JobsStay, vars, work
  <2>8. \A n \in Makers : /\ Kept(n)
                          /\ maker[n].pc \in Packaging => maker[n].row # Len(jobs')
    <3>1. ASSUME NEW n \in Makers, maker[n].pc \in Packaging
          PROVE  maker[n].row \in DOMAIN jobs
      BY <3>1 DEF ProductionInv, MakerOK, PackageOK, OpenJob
    <3> QED
      BY <1>1, <2>4, <3>1 DEF ProductionInv, MakerOK, UploadOK, Kept, MakerAt
  <2>9. q \in Maker /\ q.pc = "mark_packaging" /\ q.row = Len(jobs')
    <3>1. maker[m] \in Maker /\ "mark_packaging" \in MakerPCs /\ Len(jobs') \in Nat
      BY <2>4, MakerFields DEF MakerPCs
    <3> HIDE DEF row
    <3> QED
      BY <3>1 DEF Maker
  <2>10. maker' = [maker EXCEPT ![m] = q]
    BY <2>1 DEF MakerGoto
  <2> HIDE DEF row, q
  <2>11. /\ maker'[m].pc = "mark_packaging" /\ maker'[m].row = Len(jobs')
         /\ \A n \in Makers : n # m => maker'[n] = maker[n]
    BY <2>9, <2>10, MakerSlot
  <2>12. MakerOK(m)'
    BY <2>3, <2>4, <2>11 DEF MakerOK, VisualsOK, UploadOK, PackageOK, RenderOK, MakerAt,
                             VisualPCs, OpenJob
  <2>13. ASSUME NEW n \in Makers, n # m PROVE Apart(m, n)'
    BY <2>8, <2>11, <2>13 DEF Apart, MakerAt
  <2>14. Inv' /\ PlansStay /\ BoundsTyped' /\ objects \subseteq objects'
    BY <1>1, VarsSame, BoundsSame DEF ProductionInv
  <2> QED
    BY <2>4, <2>5, <2>6, <2>7, <2>8, <2>9, <2>10, <2>12, <2>13, <2>14, MakerMoves
<1> QED
  BY <1>2, <1>3

LEMMA CreateRenderStep ==
    ASSUME ProductionInv, NEW m \in Makers, CreateRender(m)
    PROVE  ProductionInv'
<1>1. /\ renders' = Append(renders, maker[m].row) /\ Answer(m)
      /\ UNCHANGED <<vars, uploads, outputs, jobs, objects, bounds>>
  BY DEF CreateRender
<1>2. maker[m].row \in DOMAIN jobs
  BY DEF CreateRender, ProductionInv, MakerOK, RenderOK
<1>3. ProductsTyped'
  <2>1. renders' \in Seq(DOMAIN jobs)
    BY <1>1, <1>2, AppendFacts DEF ProductionInv, ProductsTyped
  <2> QED
    BY <1>1, <2>1 DEF ProductionInv, ProductsTyped
<1>4. FilesAreThere' /\ OutputsDone'
  BY <1>1 DEF ProductionInv, FilesAreThere, OutputsDone, PlanApproved, vars, work
<1>5. \A n \in Makers : Kept(n)
  BY <1>1, KeptByRows
<1> QED
  BY <1>1, <1>3, <1>4, <1>5, AnswerMoves

-----------------------------------------------------------------------------
(***************************************************************************)
(* Steps of nobody's maker, and the whole next-state relation              *)
(***************************************************************************)
LEMMA SwitchStorageStep ==
    ASSUME ProductionInv, SwitchStorage
    PROVE  ProductionInv'
<1>1. Inv' /\ PlansStay
  BY VarsSame DEF ProductionInv, SwitchStorage
<1>2. BoundsTyped'
  BY DEF ProductionInv, BoundsTyped, SwitchStorage
<1> QED
  BY <1>1, <1>2, ProductsSame, MakersStay DEF SwitchStorage

\* A request of the pipeline leaves every approved plan approved.
LEMMA JudgeStep ==
    ASSUME ProductionInv, NEW r \in Requests, Judge(r)
    PROVE  ProductionInv'
<1>1. Inv
  BY DEF ProductionInv
<1>2. Inv'
  BY <1>1, NextInv DEF Judge, Next, Handle
<1>3. PlansStay
  <2>1. CASE ApproveReviewed(r) \/ RejectReviewed(r)
    BY <1>1, <2>1, ReviewedStep DEF Grows, PlansStay, PlanApproved, Decided
  <2>2. CASE ~(ApproveReviewed(r) \/ RejectReviewed(r))
    <3>1. UNCHANGED plans
      BY <2>2 DEF Judge, StartQa, ReadQaBrief, ReadQaDna, SaveReport, ReadReviewed,
                  RecordEntry, Interrupt, Refused, work
    <3> QED
      BY <3>1 DEF PlansStay, PlanApproved
  <2> QED
    BY <2>1, <2>2
<1>4. UNCHANGED <<products, bounds, maker>>
  BY DEF Judge, productionVars
<1> QED
  BY <1>2, <1>3, <1>4, ProductsSame, BoundsSame, MakersStay

LEMMA InitProductionInv == InitProduction => ProductionInv
<1> SUFFICES ASSUME InitProduction PROVE ProductionInv
  OBVIOUS
<1>1. Inv
  BY InitInv DEF InitProduction
<1>2. PICK made \in MadeBefore : outputs = made.outputs /\ objects = made.objects
  BY DEF InitProduction
<1>3. PICK s \in Starts : plans = s.plans
  BY DEF InitProduction, Init
<1>4. /\ uploads = << >> /\ jobs = << >> /\ renders = << >> /\ active \in Providers
      /\ switches = 0 /\ maker = [m \in Makers |-> IdleMaker] /\ makes = 0
      /\ overlapped = FALSE
  BY DEF InitProduction
<1>5. ProductsTyped
  BY <1>2, <1>4, MadeBeforeAssumption DEF ProductsTyped
<1>6. BoundsTyped /\ maker \in [Makers -> Maker]
  BY <1>4, IdleIsMaker DEF BoundsTyped
<1>7. FilesAreThere
  <2>1. \A o \in DOMAIN made.outputs :
           made.outputs[o].status = "generated" => made.outputs[o].file \in made.objects
    BY MadeBeforeAssumption
  <2> QED
    BY <1>2, <1>4, <2>1 DEF FilesAreThere
<1>8. OutputsDone
  BY <1>2, <1>3, MadeBeforeAssumption DEF OutputsDone, PlanApproved
<1>9. \A m \in Makers : maker[m].pc = "idle"
  BY <1>4 DEF IdleMaker
<1>10. \A m \in Makers : MakerOK(m)
  BY <1>9 DEF MakerOK, VisualsOK, UploadOK, PackageOK, RenderOK, MakerAt, VisualPCs, Packaging
<1>11. \A m, n \in Makers : m # n => Apart(m, n)
  BY <1>9 DEF Apart, MakerAt, Packaging
<1> QED
  BY <1>1, <1>5, <1>6, <1>7, <1>8, <1>10, <1>11 DEF ProductionInv

LEMMA StutterProduction ==
    ASSUME ProductionInv, UNCHANGED allVars
    PROVE  ProductionInv' /\ JobsStay
<1>1. Inv' /\ PlansStay
  BY VarsSame DEF ProductionInv, allVars
<1>2. UNCHANGED <<products, bounds, maker>>
  BY DEF allVars, productionVars
<1> QED
  BY <1>1, <1>2, ProductsSame, BoundsSame, MakersStay DEF JobsStay, products

LEMMA NextProductionInv ==
    ASSUME ProductionInv, [NextProduction]_allVars
    PROVE  ProductionInv' /\ JobsStay
<1>1. ASSUME UNCHANGED jobs PROVE JobsStay
  BY <1>1 DEF JobsStay
<1>2. ASSUME NEW m \in Makers, Make(m) PROVE ProductionInv' /\ JobsStay
  <2>1. CASE StartUpload(m) \/ StartVisuals(m) \/ StartPackage(m) \/ StartRender(m)
    <3>1. UNCHANGED jobs
      BY <2>1 DEF StartUpload, StartVisuals, StartPackage, StartRender, AdmitMaker, products
    <3> QED
      BY <1>1, <2>1, <3>1, StartUploadStep, StartVisualsStep, StartPackageStep, StartRenderStep
  <2>2. CASE PutUpload(m) \/ InsertUpload(m)
    BY <1>1, <2>2, PutUploadStep, InsertUploadStep DEF PutUpload, InsertUpload
  <2>3. CASE CountOutputs(m) \/ AskImages(m) \/ FindActive(m) \/ InterruptMaker(m)
    <3>1. UNCHANGED jobs
      BY <2>3 DEF CountOutputs, AskImages, FindActive, InterruptMaker, products
    <3> QED
      BY <1>1, <2>3, <3>1, CountOutputsStep, AskImagesStep, FindActiveStep, InterruptMakerStep
  <2>4. CASE PutImage(m) \/ PutPackage(m)
    BY <1>1, <2>4, PutImageStep, PutPackageStep DEF PutImage, PutPackage
  <2>5. CASE RecordRunFailure(m) \/ InsertOutput(m) \/ InsertFailedImage(m)
    BY <1>1, <2>5, OutputRows DEF RecordRunFailure, InsertOutput, InsertFailedImage
  <2>6. CASE CreateJob(m) \/ MarkPackaging(m) \/ MarkReady(m) \/ MarkFailed(m)
    BY <2>6, CreateJobStep, JobMarks
  <2>7. CASE CreateRender(m)
    BY <1>1, <2>7, CreateRenderStep DEF CreateRender
  <2> QED
    BY <1>2, <2>1, <2>2, <2>3, <2>4, <2>5, <2>6, <2>7 DEF Make
<1>3. ASSUME NEW o \in DOMAIN outputs, ApproveOutput(o) \/ RejectOutput(o)
      PROVE  ProductionInv' /\ JobsStay
  BY <1>1, <1>3, ReviewOutputStep DEF ApproveOutput, RejectOutput
<1>4. ASSUME NEW j \in DOMAIN jobs, DecideJob(j) PROVE ProductionInv' /\ JobsStay
  BY <1>4, DecideJobStep
<1>5. CASE SwitchStorage
  BY <1>1, <1>5, SwitchStorageStep DEF SwitchStorage, products
<1>6. ASSUME NEW r \in Requests, Judge(r) PROVE ProductionInv' /\ JobsStay
  BY <1>1, <1>6, JudgeStep DEF Judge, productionVars, products
<1>7. CASE UNCHANGED allVars
  BY <1>7, StutterProduction
<1> QED
  BY <1>2, <1>3, <1>4, <1>5, <1>6, <1>7 DEF NextProduction

-----------------------------------------------------------------------------
(***************************************************************************)
(* The theorems                                                            *)
(***************************************************************************)
\* The invariant holds whatever makers, reviewers and the pipeline do in between.
THEOREM ProductionInvariance == ProductionSpec => []ProductionInv
<1>1. ProductionInv /\ [NextProduction]_allVars => ProductionInv'
  BY NextProductionInv
<1> QED
  BY <1>1, InitProductionInv, PTL DEF ProductionSpec

\* Every variable has its type.
THEOREM ProductionTyped == ProductionSpec => []ProductionTypeOK
<1>1. ProductionInv => ProductionTypeOK
  BY DEF ProductionInv, Inv, ProductsTyped, BoundsTyped, Maker, ProductionTypeOK
<1> QED
  BY <1>1, ProductionInvariance, PTL

\* The coordinates on a row lead to its file, whatever the storage provider is by now,
\* however many requests store files at once and wherever one of them dies.
THEOREM FilesAreAlwaysThere == ProductionSpec => []FilesAreThere
<1>1. ProductionInv => FilesAreThere
  BY DEF ProductionInv
<1> QED
  BY <1>1, ProductionInvariance, PTL

\* Every output belongs to a layout plan that is approved, for ever.
THEOREM OutputsAreOfApprovedPlans == ProductionSpec => []OutputsOfApprovedPlans
<1>1. ProductionInv => OutputsOfApprovedPlans
  BY DEF ProductionInv, OutputsDone, PlanApproved, OutputsOfApprovedPlans
<1> QED
  BY <1>1, ProductionInvariance, PTL

\* A decision on a package is final: a builder's unguarded updates only ever meet the
\* job it created and nobody has decided.
THEOREM DecisionsAreFinal == ProductionSpec => DecidedJobsStay
<1>1. ProductionInv /\ [NextProduction]_allVars
        => [\A j \in DOMAIN jobs :
              jobs[j].status \in {"approved", "rejected"} => jobs'[j].status = jobs[j].status]_allVars
  BY NextProductionInv DEF JobsStay
<1> QED
  BY <1>1, ProductionInvariance, PTL DEF ProductionSpec, DecidedJobsStay

-----------------------------------------------------------------------------
(***************************************************************************)
(* AbandonedJobsBounded.  Each step abandons no job, but for the death of  *)
(* a maker, which abandons the one job it may hold and is counted.         *)
(***************************************************************************)
HalfDone(j) == jobs[j].status \in {"pending", "packaging"}
Owned(j) == \E m \in Makers : maker[m].row = j /\ maker[m].pc \in Packaging
Abandoned == {j \in DOMAIN jobs : HalfDone(j) /\ ~Owned(j)}
AbandonedInv == Cardinality(Abandoned) <= failures

\* A step of m leaves the local variables of the others alone.
OthersStay(m) == \A n \in Makers : n # m => maker'[n] = maker[n]
\* m does not let go of a job.
HoldsOn(m) ==
    maker[m].pc \in Packaging => maker'[m].pc \in Packaging /\ maker'[m].row = maker[m].row

LEMMA MakeLeavesOthers ==
    ASSUME ProductionInv, NEW m \in Makers, Make(m)
    PROVE  OthersStay(m)
<1> USE DEF OthersStay, MakerGoto, Answer
<1>0. ASSUME NEW q, maker' = [maker EXCEPT ![m] = q] PROVE OthersStay(m)
  BY <1>0, MakerSlot
<1>1. CASE StartUpload(m) \/ StartVisuals(m) \/ StartPackage(m) \/ StartRender(m)
  BY <1>0, <1>1 DEF StartUpload, StartVisuals, StartPackage, StartRender, AdmitMaker
<1>2. CASE PutUpload(m) \/ InsertUpload(m) \/ CountOutputs(m) \/ AskImages(m)
  BY <1>0, <1>2 DEF PutUpload, InsertUpload, CountOutputs, AskImages
<1>3. CASE RecordRunFailure(m) \/ PutImage(m) \/ InsertOutput(m) \/ InsertFailedImage(m)
  BY <1>0, <1>3 DEF RecordRunFailure, PutImage, InsertOutput, InsertFailedImage, NextImage
<1>4. CASE FindActive(m) \/ CreateJob(m) \/ MarkPackaging(m) \/ PutPackage(m)
  BY <1>0, <1>4 DEF FindActive, CreateJob, MarkPackaging, PutPackage
<1>5. CASE MarkReady(m) \/ MarkFailed(m) \/ CreateRender(m) \/ InterruptMaker(m)
  BY <1>0, <1>5 DEF MarkReady, MarkFailed, CreateRender, InterruptMaker
<1> QED
  BY <1>1, <1>2, <1>3, <1>4, <1>5 DEF Make

LEMMA AbandonedIsFinite ==
    ASSUME ProductionInv
    PROVE  /\ IsFiniteSet(Abandoned) /\ Cardinality(Abandoned) \in Nat
           /\ \A j : IsFiniteSet(Abandoned \cup {j})
                     /\ Cardinality(Abandoned \cup {j}) <= Cardinality(Abandoned) + 1
<1>1. Abandoned \in SUBSET (1 .. Len(jobs)) /\ Len(jobs) \in Nat
  BY DEF Abandoned, ProductionInv, ProductsTyped
<1>2. IsFiniteSet(1 .. Len(jobs))
  BY <1>1, FS_Interval
<1>3. IsFiniteSet(Abandoned) /\ Cardinality(Abandoned) \in Nat
  BY <1>1, <1>2, FS_Subset, FS_CardinalityType
<1> QED
  BY <1>3, FS_AddElement

LEMMA JobsAlone ==
    ASSUME ProductionInv, NEW m \in Makers, OthersStay(m), HoldsOn(m), UNCHANGED jobs
    PROVE  Abandoned' \subseteq Abandoned
<1>1. ASSUME NEW j \in DOMAIN jobs, Owned(j) PROVE Owned(j)'
  <2>1. PICK n \in Makers : maker[n].row = j /\ maker[n].pc \in Packaging
    BY <1>1 DEF Owned
  <2>2. maker'[n].row = j /\ maker'[n].pc \in Packaging
    BY <2>1 DEF OthersStay, HoldsOn
  <2> QED
    BY <2>2 DEF Owned
<1> QED
  BY <1>1 DEF Abandoned, HalfDone

LEMMA NoJobInHand ==
    ASSUME ProductionInv, NEW m \in Makers,
           \/ StartUpload(m) \/ StartVisuals(m) \/ StartPackage(m) \/ StartRender(m)
           \/ PutUpload(m) \/ InsertUpload(m) \/ CountOutputs(m) \/ AskImages(m)
           \/ RecordRunFailure(m) \/ PutImage(m) \/ InsertOutput(m) \/ InsertFailedImage(m)
           \/ FindActive(m) \/ CreateRender(m)
    PROVE  Abandoned' \subseteq Abandoned
<1>1. maker[m].pc \notin Packaging
  BY DEF StartUpload, StartVisuals, StartPackage, StartRender, AdmitMaker, PutUpload,
         InsertUpload, CountOutputs, AskImages, RecordRunFailure, PutImage, InsertOutput,
         InsertFailedImage, FindActive, CreateRender, MakerAt, Packaging
<1>2. UNCHANGED jobs
  BY DEF StartUpload, StartVisuals, StartPackage, StartRender, AdmitMaker, PutUpload,
         InsertUpload, CountOutputs, AskImages, RecordRunFailure, PutImage, InsertOutput,
         InsertFailedImage, FindActive, CreateRender, products
<1>3. OthersStay(m)
  BY MakeLeavesOthers DEF Make
<1> QED
  BY <1>1, <1>2, <1>3, JobsAlone DEF HoldsOn

\* The builder of a job writes it: it stays the owner, or the job is done with.
LEMMA OwnerWrites ==
    ASSUME ProductionInv, NEW m \in Makers, OthersStay(m), maker[m].pc \in Packaging,
           NEW status, NEW file, UpdateStatus(maker[m].row, status, file),
           status \in {"pending", "packaging"} => HoldsOn(m)
    PROVE  Abandoned' \subseteq Abandoned
<1>1. PICK i : i = maker[m].row
  OBVIOUS
<1>2. i \in DOMAIN jobs
  BY <1>1 DEF ProductionInv, MakerOK, PackageOK, OpenJob
<1>3. /\ DOMAIN jobs' = DOMAIN jobs /\ jobs'[i].status = status
      /\ \A j \in DOMAIN jobs : j # i => jobs'[j] = jobs[j]
  BY <1>1, <1>2 DEF UpdateStatus
<1>4. ASSUME NEW j \in DOMAIN jobs, HalfDone(j)', ~Owned(j)'
      PROVE  j \in Abandoned
  <2>1. j # i
    <3> SUFFICES ASSUME j = i PROVE FALSE
      OBVIOUS
    <3>1. status \in {"pending", "packaging"}
      BY <1>3, <1>4 DEF HalfDone
    <3>2. maker'[m].pc \in Packaging /\ maker'[m].row = j
      BY <1>1, <3>1 DEF HoldsOn
    <3> QED
      BY <1>4, <3>2 DEF Owned
  <2>2. ~Owned(j)
    <3> SUFFICES ASSUME NEW n \in Makers, maker[n].row = j, maker[n].pc \in Packaging
                 PROVE  FALSE
      BY DEF Owned
    <3>1. n # m
      BY <1>1, <2>1
    <3>2. maker'[n].row = j /\ maker'[n].pc \in Packaging
      BY <3>1 DEF OthersStay
    <3> QED
      BY <1>4, <3>2 DEF Owned
  <2> QED
    BY <1>3, <1>4, <2>1, <2>2 DEF Abandoned, HalfDone
<1> QED
  BY <1>3, <1>4 DEF Abandoned

LEMMA BuilderKeepsJob ==
    ASSUME ProductionInv, NEW m \in Makers,
           PutPackage(m) \/ MarkPackaging(m) \/ MarkReady(m) \/ MarkFailed(m)
    PROVE  Abandoned' \subseteq Abandoned
<1>1. OthersStay(m)
  BY MakeLeavesOthers DEF Make
<1>2. ASSUME NEW pc \in Packaging, MakerGoto(m, [maker[m] EXCEPT !.pc = pc])
      PROVE  HoldsOn(m)
  <2>1. maker'[m] = [maker[m] EXCEPT !.pc = pc] /\ maker[m] \in Maker
    BY <1>2, MakerSlot, MakerFields DEF MakerGoto
  <2>2. maker'[m].pc = pc /\ maker'[m].row = maker[m].row
    BY <2>1 DEF Maker
  <2> QED
    BY <1>2, <2>2 DEF HoldsOn
<1>3. CASE PutPackage(m)
  <2>0. UNCHANGED jobs /\ "mark_failed" \in Packaging /\ "mark_ready" \in Packaging
    BY <1>3 DEF PutPackage, Packaging
  <2>1. CASE MakerGoto(m, [maker[m] EXCEPT !.pc = "mark_failed"])
    BY <1>1, <1>2, <2>0, <2>1, JobsAlone
  <2>2. CASE ~MakerGoto(m, [maker[m] EXCEPT !.pc = "mark_failed"])
    <3>1. PICK file : MakerGoto(m, [maker[m] EXCEPT !.pc = "mark_ready", !.file = file])
      BY <1>3, <2>2 DEF PutPackage
    <3>2. /\ maker'[m] = [maker[m] EXCEPT !.pc = "mark_ready", !.file = file]
          /\ maker[m] \in Maker
      BY <3>1, MakerSlot, MakerFields DEF MakerGoto
    <3>3. maker'[m].pc = "mark_ready" /\ maker'[m].row = maker[m].row
      BY <3>2 DEF Maker
    <3> QED
      BY <1>1, <2>0, <3>3, JobsAlone DEF HoldsOn
  <2> QED
    BY <2>1, <2>2
<1>4. CASE MarkPackaging(m)
  <2>1. /\ maker[m].pc \in Packaging /\ UpdateStatus(maker[m].row, "packaging", NoFile)
        /\ MakerGoto(m, [maker[m] EXCEPT !.pc = "put_package"]) /\ "put_package" \in Packaging
    BY <1>4 DEF MarkPackaging, MakerAt, Packaging
  <2> QED
    BY <1>1, <1>2, <2>1, OwnerWrites
<1>5. CASE MarkReady(m)
  <2>0. maker[m].pc \in Packaging /\ "mark_failed" \in Packaging
    BY <1>5 DEF MarkReady, MakerAt, Packaging
  <2>1. CASE MakerGoto(m, [maker[m] EXCEPT !.pc = "mark_failed"]) /\ UNCHANGED jobs
    BY <1>1, <1>2, <2>0, <2>1, JobsAlone
  <2>2. CASE UpdateStatus(maker[m].row, "package_ready", maker[m].file)
    <3>1. "package_ready" \notin {"pending", "packaging"}
      OBVIOUS
    <3> QED
      BY <1>1, <2>0, <2>2, <3>1, OwnerWrites
  <2> QED
    BY <1>5, <2>1, <2>2 DEF MarkReady
<1>6. CASE MarkFailed(m)
  <2>1. maker[m].pc \in Packaging /\ UpdateStatus(maker[m].row, "failed", NoFile)
    BY <1>6 DEF MarkFailed, MakerAt, Packaging
  <2> QED
    BY <1>1, <2>1, OwnerWrites
<1> QED
  BY <1>3, <1>4, <1>5, <1>6

\* A new job belongs to the maker that inserted it.
LEMMA NewJobIsOwned ==
    ASSUME ProductionInv, NEW m \in Makers, CreateJob(m)
    PROVE  Abandoned' \subseteq Abandoned
<1>0. OthersStay(m) /\ maker[m].pc \notin Packaging
  BY MakeLeavesOthers DEF Make, CreateJob, MakerAt, Packaging
<1>1. CASE UNCHANGED jobs
  BY <1>0, <1>1, JobsAlone DEF HoldsOn
<1>2. CASE ~UNCHANGED jobs
  <2> DEFINE q == [maker[m] EXCEPT !.pc = "mark_packaging", !.row = Len(jobs')]
  <2>1. jobs' = NewJob(maker[m].row) /\ maker' = [maker EXCEPT ![m] = q]
    BY <1>2 DEF CreateJob, MakerGoto
  <2>2. maker'[m].pc = "mark_packaging" /\ maker'[m].row = Len(jobs')
    <3>1. maker'[m] = q /\ maker[m] \in Maker
      BY <2>1, MakerSlot, MakerFields
    <3> QED
      BY <3>1 DEF Maker
  <2>3. /\ Len(jobs') = Len(jobs) + 1 /\ Len(jobs) \in Nat
        /\ DOMAIN jobs = 1 .. Len(jobs) /\ DOMAIN jobs' = 1 .. Len(jobs')
        /\ \A j \in DOMAIN jobs : jobs'[j] = jobs[j]
    BY <2>1 DEF NewJob, ProductionInv, ProductsTyped
  <2>4. ASSUME NEW j \in DOMAIN jobs', HalfDone(j)', ~Owned(j)'
        PROVE  j \in Abandoned
    <3>1. j # Len(jobs')
      BY <2>2, <2>4 DEF Owned, Packaging
    <3>2. j \in DOMAIN jobs
      BY <2>3, <3>1
    <3>3. ~Owned(j)
      <4> SUFFICES ASSUME NEW n \in Makers, maker[n].row = j, maker[n].pc \in Packaging
                   PROVE  FALSE
        BY DEF Owned
      <4>1. maker'[n].row = j /\ maker'[n].pc \in Packaging
        BY <1>0 DEF OthersStay
      <4> QED
        BY <2>4, <4>1 DEF Owned
    <3> QED
      BY <2>3, <2>4, <3>2, <3>3 DEF Abandoned, HalfDone
  <2> QED
    BY <2>4 DEF Abandoned
<1> QED
  BY <1>1, <1>2

LEMMA DeathAbandonsOne ==
    ASSUME ProductionInv, NEW m \in Makers, InterruptMaker(m)
    PROVE  Abandoned' \subseteq Abandoned \cup {maker[m].row} /\ failures' = failures + 1
<1>1. OthersStay(m) /\ UNCHANGED jobs /\ failures' = failures + 1
  BY MakeLeavesOthers DEF Make, InterruptMaker, products
<1>2. ASSUME NEW j \in DOMAIN jobs, j # maker[m].row, Owned(j) PROVE Owned(j)'
  <2>1. PICK n \in Makers : maker[n].row = j /\ maker[n].pc \in Packaging
    BY <1>2 DEF Owned
  <2>2. maker'[n].row = j /\ maker'[n].pc \in Packaging
    BY <1>1, <1>2, <2>1 DEF OthersStay
  <2> QED
    BY <2>2 DEF Owned
<1> QED
  BY <1>1, <1>2 DEF Abandoned, HalfDone

LEMMA ReviewsAbandonNone ==
    ASSUME ProductionInv, UNCHANGED maker,
           \/ UNCHANGED jobs
           \/ \E j \in DOMAIN jobs : DecideJob(j)
    PROVE  Abandoned' \subseteq Abandoned
<1>1. CASE UNCHANGED jobs
  BY <1>1 DEF Abandoned, HalfDone, Owned
<1>2. ASSUME NEW j \in DOMAIN jobs, DecideJob(j) PROVE Abandoned' \subseteq Abandoned
  <2>1. PICK new \in {"approved", "rejected"} : jobs' = [jobs EXCEPT ![j].status = new]
    BY <1>2 DEF DecideJob
  <2>2. /\ DOMAIN jobs' = DOMAIN jobs /\ jobs'[j].status = new
        /\ \A k \in DOMAIN jobs : k # j => jobs'[k] = jobs[k]
    <3>1. jobs[j] \in Job
      BY JobFields
    <3> QED
      BY <2>1, <3>1 DEF Job
  <2>3. ~HalfDone(j)'
    BY <2>2 DEF HalfDone
  <2> QED
    BY <2>2, <2>3 DEF Abandoned, HalfDone, Owned
<1> QED
  BY <1>1, <1>2

LEMMA AbandonedStep ==
    ASSUME ProductionInv, AbandonedInv, [NextProduction]_allVars
    PROVE  AbandonedInv'
<1>0. ProductionInv' /\ failures \in Nat /\ failures' \in Nat
  BY NextProductionInv DEF ProductionInv, Inv, TypeOK
<1>1. ASSUME Abandoned' \subseteq Abandoned, failures <= failures'
      PROVE  AbandonedInv'
  <2>1. Cardinality(Abandoned') <= Cardinality(Abandoned) /\ Cardinality(Abandoned) \in Nat
    BY <1>1, AbandonedIsFinite, FS_Subset
  <2>2. Cardinality(Abandoned') \in Nat
    BY <1>1, AbandonedIsFinite, FS_Subset, FS_CardinalityType
  <2> QED
    BY <1>0, <1>1, <2>1, <2>2 DEF AbandonedInv
<1>2. ASSUME NEW m \in Makers, Make(m), ~InterruptMaker(m) PROVE AbandonedInv'
  <2>1. Abandoned' \subseteq Abandoned
    BY <1>2, NoJobInHand, BuilderKeepsJob, NewJobIsOwned DEF Make
  <2>2. failures' = failures
    BY <1>2 DEF Make, StartUpload, StartVisuals, StartPackage, StartRender, AdmitMaker,
       PutUpload, InsertUpload, CountOutputs, AskImages, RecordRunFailure, PutImage,
       InsertOutput, InsertFailedImage, FindActive, CreateJob, MarkPackaging, PutPackage,
       MarkReady, MarkFailed, CreateRender, vars
  <2> QED
    BY <1>0, <1>1, <2>1, <2>2
<1>3. ASSUME NEW m \in Makers, InterruptMaker(m) PROVE AbandonedInv'
  <2>1. Abandoned' \subseteq Abandoned \cup {maker[m].row} /\ failures' = failures + 1
    BY <1>3, DeathAbandonsOne
  <2>2. PICK S : S = Abandoned \cup {maker[m].row}
    OBVIOUS
  <2>3. /\ IsFiniteSet(S) /\ Cardinality(S) <= Cardinality(Abandoned) + 1
        /\ Cardinality(S) \in Nat /\ Cardinality(Abandoned) \in Nat
    BY <2>2, AbandonedIsFinite, FS_CardinalityType
  <2>4. Cardinality(Abandoned') <= Cardinality(S) /\ Cardinality(Abandoned') \in Nat
    BY <2>1, <2>2, <2>3, FS_Subset, FS_CardinalityType
  <2> QED
    BY <1>0, <2>1, <2>3, <2>4 DEF AbandonedInv
<1>4. ASSUME \/ \E o \in DOMAIN outputs : ApproveOutput(o) \/ RejectOutput(o)
             \/ \E j \in DOMAIN jobs : DecideJob(j)
      PROVE  AbandonedInv'
  <2>1. UNCHANGED maker /\ UNCHANGED failures
    BY <1>4 DEF ApproveOutput, RejectOutput, DecideJob, Review
  <2>2. UNCHANGED jobs \/ \E j \in DOMAIN jobs : DecideJob(j)
    BY <1>4 DEF ApproveOutput, RejectOutput
  <2>3. Abandoned' \subseteq Abandoned
    BY <2>1, <2>2, ReviewsAbandonNone
  <2> QED
    BY <1>0, <1>1, <2>1, <2>3
<1>5. ASSUME SwitchStorage \/ (\E r \in Requests : Judge(r)) \/ UNCHANGED allVars
      PROVE  AbandonedInv'
  <2>1. UNCHANGED maker /\ UNCHANGED jobs
    BY <1>5 DEF SwitchStorage, Judge, allVars, productionVars, products
  <2>2. failures <= failures'
    <3>1. failures' = failures \/ failures' = failures + 1
      BY <1>5 DEF SwitchStorage, Judge, allVars, vars, StartQa, ReadQaBrief, ReadQaDna,
         SaveReport, ReadReviewed, ApproveReviewed, RejectReviewed, Decide, RecordEntry,
         Interrupt, Admit, Goto, Reply, Refused
    <3> QED
      BY <1>0, <3>1
  <2>3. Abandoned' \subseteq Abandoned
    BY <2>1, ReviewsAbandonNone
  <2> QED
    BY <1>1, <2>2, <2>3
<1> QED
  BY <1>2, <1>3, <1>4, <1>5 DEF NextProduction

\* For any number of builders, at most as many jobs are stuck in packaging, each blocking
\* its output for good, as requests died.
THEOREM AbandonedJobsAreBounded == ProductionSpec => []AbandonedJobsBounded
<1>1. InitProduction => AbandonedInv
  <2> SUFFICES ASSUME InitProduction PROVE AbandonedInv
    OBVIOUS
  <2>1. jobs = << >> /\ failures = 0
    BY DEF InitProduction, Init
  <2>2. Abandoned = {}
    BY <2>1 DEF Abandoned
  <2> QED
    BY <2>1, <2>2, FS_EmptySet DEF AbandonedInv
<1>2. AbandonedInv => AbandonedJobsBounded
  <2>1. Abandoned =
          {j \in DOMAIN jobs :
              /\ jobs[j].status \in {"pending", "packaging"}
              /\ \A m \in Makers : \/ maker[m].row # j
                                    \/ maker[m].pc \notin {"mark_packaging", "put_package",
                                                           "mark_ready", "mark_failed"}}
    BY DEF Abandoned, HalfDone, Owned, Packaging
  <2> QED
    BY <2>1 DEF AbandonedInv, AbandonedJobsBounded
<1>3. ProductionInv /\ AbandonedInv /\ [NextProduction]_allVars => AbandonedInv'
  BY AbandonedStep
<1> QED
  BY <1>1, <1>2, <1>3, ProductionInvariance, PTL DEF ProductionSpec

-----------------------------------------------------------------------------
(***************************************************************************)
(* IndexesContinue.  As long as no two runs of a plan overlapped, the run  *)
(* under way is the only writer of its plan's outputs: what it counted     *)
(* before it asked the provider, and the images since, still number them.  *)
(***************************************************************************)
Counted(p) == Cardinality(OutputsOf(p))
Drawing == {"run_failed", "image", "image_row", "image_failed"}
BaseOK(m) ==
    /\ MakerAt(m, "image_ai") => maker[m].base = Counted(maker[m].row)
    /\ maker[m].pc \in Drawing => maker[m].base + maker[m].nth = Counted(maker[m].row) + 1
Continued ==
    \A o \in DOMAIN outputs :
       outputs[o].index = Cardinality({n \in OutputsOf(outputs[o].plan) : n <= o})
OneRunPerPlan ==
    \A m, n \in Makers : m # n /\ maker[m].pc \in VisualPCs /\ maker[n].pc \in VisualPCs
                            => maker[m].row # maker[n].row
IndexInv == ~overlapped => Continued /\ OneRunPerPlan /\ \A m \in Makers : BaseOK(m)

\* No output is added, and none changes its plan or index.
SameOutputs ==
    /\ DOMAIN outputs' = DOMAIN outputs
    /\ \A o \in DOMAIN outputs :
          outputs'[o].plan = outputs[o].plan /\ outputs'[o].index = outputs[o].index

LEMMA SameCounts ==
    ASSUME SameOutputs
    PROVE  /\ \A p : OutputsOf(p)' = OutputsOf(p) /\ Counted(p)' = Counted(p)
           /\ Continued => Continued'
<1>1. \A p : OutputsOf(p)' = OutputsOf(p)
  BY DEF SameOutputs, OutputsOf
<1>2. \A p : Counted(p)' = Counted(p)
  BY <1>1 DEF Counted
<1>3. ASSUME Continued PROVE Continued'
  <2> SUFFICES ASSUME NEW o \in DOMAIN outputs
               PROVE  (outputs[o].index = Cardinality({n \in OutputsOf(outputs[o].plan) : n <= o}))'
    BY DEF Continued, SameOutputs
  <2>1. outputs'[o].index = outputs[o].index /\ outputs'[o].plan = outputs[o].plan
    BY DEF SameOutputs
  <2>2. PICK p : p = outputs[o].plan
    OBVIOUS
  <2>3. outputs[o].index = Cardinality({n \in OutputsOf(p) : n <= o})
    BY <1>3, <2>2 DEF Continued
  <2>4. OutputsOf(outputs[o].plan)' = OutputsOf(p)
    BY <2>1, <2>2 DEF SameOutputs, OutputsOf
  <2> QED
    BY <2>1, <2>3, <2>4
<1> QED
  BY <1>1, <1>2, <1>3

\* A step of m that adds no output, and after which m goes on with its run or has none.
LEMMA RunGoesOn ==
    ASSUME ProductionInv, IndexInv, NEW m \in Makers, OthersStay(m), SameOutputs,
           UNCHANGED overlapped, BaseOK(m)',
           maker'[m].pc \in VisualPCs =>
              maker[m].pc \in VisualPCs /\ maker'[m].row = maker[m].row
    PROVE  IndexInv'
<1> SUFFICES ASSUME ~overlapped
             PROVE  (Continued /\ OneRunPerPlan /\ \A n \in Makers : BaseOK(n))'
  BY DEF IndexInv
<1>1. Continued /\ OneRunPerPlan /\ \A n \in Makers : BaseOK(n)
  BY DEF IndexInv
<1>2. Continued'
  BY <1>1, SameCounts
<1>3. OneRunPerPlan'
  BY <1>1 DEF OneRunPerPlan, OthersStay
<1>4. ASSUME NEW n \in Makers PROVE BaseOK(n)'
  <2>1. CASE n = m
    BY <2>1
  <2>2. CASE n # m
    BY <1>1, <2>2, SameCounts DEF BaseOK, OthersStay, MakerAt
  <2> QED
    BY <2>1, <2>2
<1> QED
  BY <1>2, <1>3, <1>4

LEMMA NoRun ==
    ASSUME NEW m \in Makers, maker'[m].pc \notin VisualPCs
    PROVE  BaseOK(m)'
  BY DEF BaseOK, MakerAt, VisualPCs, Drawing

\* Steps of requests that make no image, and runs that answer or die.
LEMMA OtherRequests ==
    ASSUME ProductionInv, IndexInv, NEW m \in Makers,
           \/ StartUpload(m) \/ PutUpload(m) \/ InsertUpload(m) \/ StartPackage(m)
           \/ FindActive(m) \/ CreateJob(m) \/ MarkPackaging(m) \/ PutPackage(m)
           \/ MarkReady(m) \/ MarkFailed(m) \/ StartRender(m) \/ CreateRender(m)
           \/ InterruptMaker(m)
    PROVE  IndexInv'
<1>1. OthersStay(m)
  BY MakeLeavesOthers DEF Make
<1>2. UNCHANGED outputs
  BY DEF StartUpload, PutUpload, InsertUpload, StartPackage, FindActive, CreateJob,
         MarkPackaging, PutPackage, MarkReady, MarkFailed, StartRender, CreateRender,
         InterruptMaker, AdmitMaker, products
<1>3. UNCHANGED overlapped
  BY DEF StartUpload, PutUpload, InsertUpload, StartPackage, FindActive, CreateJob,
         MarkPackaging, PutPackage, MarkReady, MarkFailed, StartRender, CreateRender,
         InterruptMaker, bounds
<1>4. maker'[m].pc \notin VisualPCs
  <2> USE DEF MakerGoto, VisualPCs
  <2>0. maker[m] \in Maker
    BY MakerFields
  <2>1. CASE Answer(m)
    <3>1. maker'[m] = IdleMaker
      BY <2>1, MakerSlot DEF Answer
    <3> QED
      BY <3>1 DEF IdleMaker
  <2>2. CASE StartUpload(m)
    <3>1. PICK pc \in UploadPCs : maker' = [maker EXCEPT ![m] = [IdleMaker EXCEPT !.pc = pc]]
      BY <2>2 DEF StartUpload, AdmitMaker
    <3>2. maker'[m] = [IdleMaker EXCEPT !.pc = pc]
      BY <3>1, MakerSlot
    <3> QED
      BY <3>2 DEF UploadPCs, IdleMaker
  <2>3. ASSUME NEW k, NEW pc \in {"find_active", "create_render"},
               AdmitMaker(m, [IdleMaker EXCEPT !.pc = pc, !.row = k])
        PROVE  maker'[m].pc \notin VisualPCs
    <3>1. maker'[m] = [IdleMaker EXCEPT !.pc = pc, !.row = k]
      BY <2>3, MakerSlot DEF AdmitMaker
    <3> QED
      BY <3>1 DEF IdleMaker
  <2>4. ASSUME NEW file, NEW pc \in {"insert_upload", "mark_ready"},
               MakerGoto(m, [maker[m] EXCEPT !.pc = pc, !.file = file])
        PROVE  maker'[m].pc \notin VisualPCs
    <3>1. maker'[m] = [maker[m] EXCEPT !.pc = pc, !.file = file]
      BY <2>4, MakerSlot
    <3> QED
      BY <2>0, <3>1 DEF Maker
  <2>5. CASE ~Answer(m) /\ CreateJob(m)
    <3>1. maker' = [maker EXCEPT ![m] = [maker[m] EXCEPT !.pc = "mark_packaging",
                                                        !.row = Len(jobs')]]
      BY <2>5 DEF CreateJob
    <3>2. maker'[m] = [maker[m] EXCEPT !.pc = "mark_packaging", !.row = Len(jobs')]
      BY <3>1, MakerSlot
    <3> QED
      BY <2>0, <3>2 DEF Maker
  <2>6. ASSUME NEW pc \in {"create_job", "put_package", "mark_failed"},
               MakerGoto(m, [maker[m] EXCEPT !.pc = pc])
        PROVE  maker'[m].pc \notin VisualPCs
    <3>1. maker'[m] = [maker[m] EXCEPT !.pc = pc]
      BY <2>6, MakerSlot
    <3> QED
      BY <2>0, <3>1 DEF Maker
  <2>7. CASE InsertUpload(m) \/ MarkFailed(m) \/ CreateRender(m) \/ InterruptMaker(m)
    BY <2>1, <2>7 DEF InsertUpload, MarkFailed, CreateRender, InterruptMaker
  <2> HIDE DEF MakerGoto, VisualPCs
  <2>8. CASE StartPackage(m) \/ StartRender(m)
    BY <2>3, <2>8 DEF StartPackage, StartRender
  <2>9. CASE PutUpload(m) \/ PutPackage(m)
    BY <2>1, <2>4, <2>6, <2>9 DEF PutUpload, PutPackage
  <2>10. CASE FindActive(m) \/ MarkPackaging(m) \/ MarkReady(m)
    BY <2>1, <2>6, <2>10 DEF FindActive, MarkPackaging, MarkReady
  <2>11. CASE CreateJob(m)
    BY <2>1, <2>5, <2>11
  <2> QED
    BY <2>2, <2>7, <2>8, <2>9, <2>10, <2>11
<1> QED
  BY <1>1, <1>2, <1>3, <1>4, NoRun, RunGoesOn DEF SameOutputs

\* A run that starts while another of its plan is under way sets overlapped.
LEMMA RunStarts ==
    ASSUME ProductionInv, IndexInv, NEW m \in Makers, StartVisuals(m)
    PROVE  IndexInv'
<1>1. PICK p \in DOMAIN plans :
         /\ maker' = [maker EXCEPT ![m] = [IdleMaker EXCEPT !.pc = "count", !.row = p]]
         /\ overlapped' = (overlapped \/ \E n \in Makers : maker[n].pc \in VisualPCs
                                                        /\ maker[n].row = p)
         /\ UNCHANGED outputs
  BY DEF StartVisuals, AdmitMaker, MakerGoto, products
<1>2. maker'[m].pc = "count" /\ maker'[m].row = p /\ OthersStay(m)
  <2>1. maker'[m] = [IdleMaker EXCEPT !.pc = "count", !.row = p]
    BY <1>1, MakerSlot
  <2> QED
    BY <2>1, MakeLeavesOthers DEF IdleMaker, Make
<1> SUFFICES ASSUME ~overlapped'
             PROVE  (Continued /\ OneRunPerPlan /\ \A n \in Makers : BaseOK(n))'
  BY DEF IndexInv
<1>3. ~overlapped /\ \A n \in Makers : maker[n].pc \in VisualPCs => maker[n].row # p
  BY <1>1
<1>4. Continued /\ OneRunPerPlan /\ \A n \in Makers : BaseOK(n)
  BY <1>3 DEF IndexInv
<1>5. SameOutputs
  BY <1>1 DEF SameOutputs
<1>6. Continued'
  BY <1>4, <1>5, SameCounts
<1>7. OneRunPerPlan'
  BY <1>2, <1>3, <1>4 DEF OneRunPerPlan, OthersStay
<1>8. ASSUME NEW n \in Makers PROVE BaseOK(n)'
  <2>1. CASE n = m
    BY <1>2, <2>1 DEF BaseOK, MakerAt, Drawing
  <2>2. CASE n # m
    BY <1>2, <1>4, <1>5, <2>2, SameCounts DEF BaseOK, OthersStay, MakerAt
  <2> QED
    BY <2>1, <2>2
<1> QED
  BY <1>6, <1>7, <1>8

\* What a run counted, asked for and stored.
LEMMA RunReads ==
    ASSUME ProductionInv, IndexInv, NEW m \in Makers,
           CountOutputs(m) \/ AskImages(m) \/ PutImage(m)
    PROVE  IndexInv'
<1>1. OthersStay(m) /\ maker[m] \in Maker
  BY MakeLeavesOthers, MakerFields DEF Make
<1>2. UNCHANGED outputs /\ UNCHANGED overlapped
  BY DEF CountOutputs, AskImages, PutImage, products, bounds
<1>3. SameOutputs /\ \A p : Counted(p)' = Counted(p)
  <2>1. SameOutputs
    BY <1>2 DEF SameOutputs
  <2> QED
    BY <2>1, SameCounts
<1>4. CASE overlapped
  BY <1>2, <1>4 DEF IndexInv
<1>5. CASE ~overlapped
  <2>0. BaseOK(m)
    BY <1>5 DEF IndexInv
  <2> SUFFICES /\ maker[m].pc \in VisualPCs /\ maker'[m].row = maker[m].row
               /\ BaseOK(m)'
    BY <1>1, <1>2, <1>3, RunGoesOn
  <2>1. CASE CountOutputs(m)
    <3>1. PICK n : n = Counted(maker[m].row)
      OBVIOUS
    <3>2. maker' = [maker EXCEPT ![m] = [maker[m] EXCEPT !.pc = "image_ai", !.base = n]]
          /\ maker[m].pc = "count"
      BY <2>1, <3>1 DEF CountOutputs, MakerGoto, MakerAt, Counted
    <3>3. maker'[m] = [maker[m] EXCEPT !.pc = "image_ai", !.base = n]
      BY <3>2, MakerSlot
    <3>4. maker'[m].pc = "image_ai" /\ maker'[m].base = n /\ maker'[m].row = maker[m].row
      BY <1>1, <3>3 DEF Maker
    <3> QED
      BY <1>3, <3>1, <3>2, <3>4 DEF BaseOK, MakerAt, Drawing, VisualPCs
  <2>2. CASE AskImages(m)
    <3>1. maker[m].pc = "image_ai" /\ maker[m].base = Counted(maker[m].row)
      BY <2>0, <2>2 DEF AskImages, BaseOK, MakerAt
    <3>2. /\ maker'[m].pc \in {"run_failed", "image"} /\ maker'[m].nth = 1
          /\ maker'[m].base = maker[m].base /\ maker'[m].row = maker[m].row
      <4>1. CASE MakerGoto(m, [maker[m] EXCEPT !.pc = "run_failed", !.nth = 1])
        <5>1. maker'[m] = [maker[m] EXCEPT !.pc = "run_failed", !.nth = 1]
          BY <4>1, MakerSlot DEF MakerGoto
        <5> QED
          BY <1>1, <5>1 DEF Maker
      <4>2. ASSUME NEW n, MakerGoto(m, [maker[m] EXCEPT !.pc = "image", !.nth = 1, !.left = n])
            PROVE  /\ maker'[m].pc = "image" /\ maker'[m].nth = 1
                   /\ maker'[m].base = maker[m].base /\ maker'[m].row = maker[m].row
        <5>1. maker'[m] = [maker[m] EXCEPT !.pc = "image", !.nth = 1, !.left = n]
          BY <4>2, MakerSlot DEF MakerGoto
        <5> QED
          BY <1>1, <5>1 DEF Maker
      <4> QED
        BY <2>2, <4>1, <4>2 DEF AskImages
    <3> QED
      BY <1>3, <3>1, <3>2 DEF BaseOK, MakerAt, Drawing, VisualPCs
  <2>3. CASE PutImage(m)
    <3>1. /\ maker[m].pc = "image"
          /\ maker[m].base + maker[m].nth = Counted(maker[m].row) + 1
      BY <2>0, <2>3 DEF PutImage, BaseOK, MakerAt, Drawing
    <3>2. /\ maker'[m].pc \in {"image_failed", "image_row"} /\ maker'[m].nth = maker[m].nth
          /\ maker'[m].base = maker[m].base /\ maker'[m].row = maker[m].row
      <4>1. PICK file : \/ MakerGoto(m, [maker[m] EXCEPT !.pc = "image_failed"])
                        \/ MakerGoto(m, [maker[m] EXCEPT !.pc = "image_row", !.file = file])
        BY <2>3 DEF PutImage
      <4>2. \/ maker'[m] = [maker[m] EXCEPT !.pc = "image_failed"]
            \/ maker'[m] = [maker[m] EXCEPT !.pc = "image_row", !.file = file]
        BY <4>1, MakerSlot DEF MakerGoto
      <4> QED
        BY <1>1, <4>2 DEF Maker
    <3> QED
      BY <1>3, <3>1, <3>2 DEF BaseOK, MakerAt, Drawing, VisualPCs
  <2> QED
    BY <2>1, <2>2, <2>3
<1> QED
  BY <1>4, <1>5

LEMMA CountedType ==
    ASSUME ProductionInv
    PROVE  \A p : IsFiniteSet(OutputsOf(p)) /\ Counted(p) \in Nat
<1> TAKE p
<1>1. OutputsOf(p) \in SUBSET (1 .. Len(outputs)) /\ Len(outputs) \in Nat
  BY DEF OutputsOf, ProductionInv, ProductsTyped
<1>2. IsFiniteSet(1 .. Len(outputs))
  BY <1>1, FS_Interval
<1> QED
  BY <1>1, <1>2, FS_Subset, FS_CardinalityType DEF Counted

\* The new row continues the numbering of its plan, and no other plan's changes.
LEMMA RowNumbered ==
    ASSUME ProductionInv, Continued, NEW m \in Makers, NEW k, k = maker[m].row,
           NEW status, NEW file, NewOutput(m, status, file),
           maker[m].base + maker[m].nth = Counted(k) + 1
    PROVE  /\ Continued'
           /\ Counted(k)' = Counted(k) + 1
           /\ \A p : p # k => Counted(p)' = Counted(p)
<1> DEFINE row == [plan |-> maker[m].row, index |-> maker[m].base + maker[m].nth,
                   status |-> status, approval |-> "pending", file |-> file]
           new == Len(outputs) + 1
<1>2. /\ Len(outputs) \in Nat /\ DOMAIN outputs = 1 .. Len(outputs)
      /\ DOMAIN outputs' = 1 .. new
      /\ \A o \in DOMAIN outputs : outputs'[o] = outputs[o]
      /\ outputs'[new] = row
  BY DEF NewOutput, ProductionInv, ProductsTyped
<1>3. row.plan = k /\ row.index = Counted(k) + 1
  OBVIOUS
<1>4. OutputsOf(k)' = OutputsOf(k) \cup {new} /\ new \notin OutputsOf(k)
  BY <1>2, <1>3 DEF OutputsOf
<1>5. \A p : p # k => OutputsOf(p)' = OutputsOf(p)
  BY <1>2, <1>3 DEF OutputsOf
<1>6. Counted(k)' = Counted(k) + 1
  <2>1. IsFiniteSet(OutputsOf(k))
    BY CountedType
  <2> QED
    BY <1>4, <2>1, FS_AddElement DEF Counted
<1>7. ASSUME NEW o \in DOMAIN outputs'
      PROVE  (outputs[o].index = Cardinality({n \in OutputsOf(outputs[o].plan) : n <= o}))'
  <2>1. CASE o = new
    <3>1. \A n \in OutputsOf(k)' : n <= new
      BY <1>2 DEF OutputsOf
    <3>2. {n \in OutputsOf(k)' : n <= new} = OutputsOf(k)'
      BY <3>1
    <3>3. outputs'[o].plan = k /\ outputs'[o].index = Counted(k) + 1
      BY <1>2, <1>3, <2>1
    <3>4. OutputsOf(outputs[o].plan)' = OutputsOf(k)'
      BY <3>3 DEF OutputsOf
    <3> QED
      BY <1>6, <2>1, <3>2, <3>3, <3>4 DEF Counted
  <2>2. CASE o # new
    <3>1. o \in DOMAIN outputs /\ outputs'[o] = outputs[o] /\ o < new
      BY <1>2, <2>2
    <3>2. PICK p : p = outputs[o].plan
      OBVIOUS
    <3>3. {n \in OutputsOf(p)' : n <= o} = {n \in OutputsOf(p) : n <= o}
      <4>1. CASE p = k
        <5>1. ~(new <= o)
          BY <1>2, <3>1
        <5> QED
          BY <1>4, <4>1, <5>1
      <4>2. CASE p # k
        BY <1>5, <4>2
      <4> QED
        BY <4>1, <4>2
    <3>4. outputs[o].index = Cardinality({n \in OutputsOf(p) : n <= o})
      BY <3>1, <3>2 DEF Continued
    <3>5. OutputsOf(outputs[o].plan)' = OutputsOf(p)'
      BY <3>1, <3>2 DEF OutputsOf
    <3> QED
      BY <3>1, <3>3, <3>4, <3>5
  <2> QED
    BY <2>1, <2>2
<1> QED
  BY <1>5, <1>6, <1>7 DEF Continued, Counted

LEMMA RunWrites ==
    ASSUME ProductionInv, IndexInv, NEW m \in Makers,
           RecordRunFailure(m) \/ InsertOutput(m) \/ InsertFailedImage(m)
    PROVE  IndexInv'
<1>1. OthersStay(m) /\ maker[m] \in Maker
  BY MakeLeavesOthers, MakerFields DEF Make
<1>2. UNCHANGED overlapped /\ maker[m].pc \in Drawing /\ maker[m].pc \in VisualPCs
  BY DEF RecordRunFailure, InsertOutput, InsertFailedImage, bounds, MakerAt, Drawing, VisualPCs
<1> SUFFICES ASSUME ~overlapped PROVE IndexInv'
  BY <1>2 DEF IndexInv
<1>3. /\ Continued /\ OneRunPerPlan /\ \A n \in Makers : BaseOK(n)
      /\ maker[m].base + maker[m].nth = Counted(maker[m].row) + 1
  BY <1>2 DEF IndexInv, BaseOK
<1>4. CASE MakerGoto(m, [maker[m] EXCEPT !.pc = "image_failed"]) /\ UNCHANGED outputs
  <2>1. maker'[m] = [maker[m] EXCEPT !.pc = "image_failed"]
    BY <1>4, MakerSlot DEF MakerGoto
  <2>2. /\ maker'[m].pc = "image_failed" /\ maker'[m].row = maker[m].row
        /\ maker'[m].base = maker[m].base /\ maker'[m].nth = maker[m].nth
    BY <1>1, <2>1 DEF Maker
  <2>3. SameOutputs
    BY <1>4 DEF SameOutputs
  <2>4. BaseOK(m)'
    BY <1>3, <2>2, <2>3, SameCounts DEF BaseOK, MakerAt
  <2> QED
    BY <1>1, <1>2, <2>2, <2>3, <2>4, RunGoesOn
<1>5. ASSUME NEW status, NEW file, NewOutput(m, status, file), Answer(m) \/ NextImage(m)
      PROVE  IndexInv'
  <2>0. PICK k : k = maker[m].row
    OBVIOUS
  <2>1. /\ Continued' /\ Counted(k)' = Counted(k) + 1
        /\ \A p : p # k => Counted(p)' = Counted(p)
    BY <1>3, <1>5, <2>0, RowNumbered
  <2>2. \/ maker'[m].pc = "idle"
        \/ /\ maker'[m].pc = "image" /\ maker'[m].row = maker[m].row
           /\ maker'[m].base = maker[m].base /\ maker'[m].nth = maker[m].nth + 1
    <3>1. CASE Answer(m)
      <4>1. maker'[m] = IdleMaker
        BY <3>1, MakerSlot DEF Answer, MakerGoto
      <4> QED
        BY <4>1 DEF IdleMaker
    <3>2. CASE ~Answer(m)
      <4>1. maker'[m] = [maker[m] EXCEPT !.pc = "image", !.nth = @ + 1, !.left = @ - 1]
        BY <1>5, <3>2, MakerSlot DEF NextImage, MakerGoto
      <4> QED
        BY <1>1, <4>1 DEF Maker
    <3> QED
      BY <3>1, <3>2
  <2>3. OneRunPerPlan'
    BY <1>1, <1>2, <1>3, <2>2 DEF OneRunPerPlan, OthersStay, VisualPCs
  <2>4. ASSUME NEW n \in Makers PROVE BaseOK(n)'
    <3>1. CASE n = m
      <4>1. maker[m].base \in Nat /\ maker[m].nth \in Nat /\ Counted(maker[m].row) \in Nat
        BY MakerFields, CountedType
      <4>2. CASE maker'[m].pc = "idle"
        BY <3>1, <4>2 DEF BaseOK, MakerAt, Drawing
      <4>3. CASE maker'[m].pc # "idle"
        <5>1. /\ maker'[m].pc = "image"
              /\ maker'[m].base + maker'[m].nth = Counted(maker[m].row) + 2
          BY <1>3, <2>2, <4>1, <4>3
        <5>2. Counted(maker[m].row)' = Counted(maker[m].row) + 1
          <6>1. maker'[m].row = k
            BY <2>0, <2>2, <4>3
          <6>2. Counted(maker[m].row)' = Counted(k)'
            BY <6>1 DEF Counted, OutputsOf
          <6> QED
            BY <2>0, <2>1, <6>2
        <5> QED
          BY <3>1, <4>1, <5>1, <5>2 DEF BaseOK, MakerAt
      <4> QED
        BY <4>2, <4>3
    <3>2. CASE n # m
      <4>1. maker'[n] = maker[n] /\ BaseOK(n)
        BY <1>1, <1>3, <3>2 DEF OthersStay
      <4>2. CASE maker[n].pc \in VisualPCs
        <5>1. maker[n].row # maker[m].row
          BY <1>2, <1>3, <3>2, <4>2 DEF OneRunPerPlan
        <5>2. Counted(maker[n].row)' = Counted(maker[n].row)
          <6>1. PICK p : p = maker[n].row
            OBVIOUS
          <6>2. Counted(maker[n].row)' = Counted(p)'
            BY <4>1, <6>1 DEF Counted, OutputsOf
          <6> QED
            BY <2>0, <2>1, <5>1, <6>1, <6>2
        <5> QED
          BY <4>1, <5>2 DEF BaseOK, MakerAt
      <4>3. CASE maker[n].pc \notin VisualPCs
        BY <4>1, <4>3, NoRun
      <4> QED
        BY <4>2, <4>3
    <3> QED
      BY <3>1, <3>2
  <2> QED
    BY <2>1, <2>3, <2>4 DEF IndexInv
<1>6. CASE RecordRunFailure(m)
  BY <1>5, <1>6 DEF RecordRunFailure
<1>7. CASE InsertFailedImage(m)
  BY <1>5, <1>7 DEF InsertFailedImage
<1>8. CASE InsertOutput(m)
  BY <1>4, <1>5, <1>8 DEF InsertOutput
<1> QED
  BY <1>6, <1>7, <1>8

\* Steps of no maker.
LEMMA ReviewsKeepIndexes ==
    ASSUME IndexInv, SameOutputs, UNCHANGED maker, UNCHANGED overlapped
    PROVE  IndexInv'
<1> SUFFICES ASSUME ~overlapped
             PROVE  (Continued /\ OneRunPerPlan /\ \A n \in Makers : BaseOK(n))'
  BY DEF IndexInv
<1>1. Continued /\ OneRunPerPlan /\ \A n \in Makers : BaseOK(n)
  BY DEF IndexInv
<1> QED
  BY <1>1, SameCounts DEF OneRunPerPlan, BaseOK, MakerAt

LEMMA IndexStep ==
    ASSUME ProductionInv, IndexInv, [NextProduction]_allVars
    PROVE  IndexInv'
<1>1. ASSUME NEW m \in Makers, Make(m) PROVE IndexInv'
  BY <1>1, OtherRequests, RunStarts, RunReads, RunWrites DEF Make
<1>2. ASSUME NEW o \in DOMAIN outputs, ApproveOutput(o) \/ RejectOutput(o) PROVE IndexInv'
  <2>1. PICK new : outputs' = [outputs EXCEPT ![o].approval = new]
    BY <1>2 DEF ApproveOutput, RejectOutput
  <2>2. outputs[o] \in Output
    BY DEF ProductionInv, ProductsTyped
  <2>3. SameOutputs
    BY <2>1, <2>2 DEF SameOutputs, Output
  <2>4. UNCHANGED maker /\ UNCHANGED overlapped
    BY <1>2 DEF ApproveOutput, RejectOutput, Review, bounds
  <2> QED
    BY <2>3, <2>4, ReviewsKeepIndexes
<1>3. ASSUME \/ \E j \in DOMAIN jobs : DecideJob(j)
             \/ SwitchStorage
             \/ \E r \in Requests : Judge(r)
             \/ UNCHANGED allVars
      PROVE  IndexInv'
  <2>1. UNCHANGED outputs /\ UNCHANGED maker /\ UNCHANGED overlapped
    BY <1>3 DEF DecideJob, Review, SwitchStorage, Judge, allVars, productionVars, products,
                bounds
  <2> QED
    BY <2>1, ReviewsKeepIndexes DEF SameOutputs
<1> QED
  BY <1>1, <1>2, <1>3 DEF NextProduction

LEMMA IndexInit == InitProduction => IndexInv
<1> SUFFICES ASSUME InitProduction PROVE IndexInv
  OBVIOUS
<1>1. PICK made \in MadeBefore : outputs = made.outputs
  BY DEF InitProduction
<1>2. \A m \in Makers : maker[m].pc = "idle"
  BY DEF InitProduction, IdleMaker
<1>3. outputs \in Seq(Output)
  BY <1>1, MadeBeforeAssumption
<1>4. ASSUME NEW o \in DOMAIN outputs
      PROVE  outputs[o].index = Cardinality({n \in OutputsOf(outputs[o].plan) : n <= o})
  <2>1. outputs[o].index = Cardinality({n \in 1 .. o : outputs[n].plan = outputs[o].plan})
    BY <1>1, MadeBeforeAssumption
  <2>2. {n \in 1 .. o : outputs[n].plan = outputs[o].plan}
          = {n \in OutputsOf(outputs[o].plan) : n <= o}
    <3>1. /\ Len(outputs) \in Nat /\ DOMAIN outputs = 1 .. Len(outputs)
          /\ o \in Nat /\ 1 <= o /\ o <= Len(outputs)
      BY <1>3
    <3>2. \A n : n \in 1 .. o <=> n \in DOMAIN outputs /\ n <= o
      BY <3>1
    <3> QED
      BY <3>2 DEF OutputsOf
  <2> QED
    BY <2>1, <2>2
<1> QED
  BY <1>2, <1>4 DEF IndexInv, Continued, OneRunPerPlan, BaseOK, MakerAt, Drawing, VisualPCs

\* For any number of makers and plans, the outputs of a plan are numbered without a gap or
\* a repetition, unless two runs of one plan overlapped.
THEOREM IndexesAlwaysContinue == ProductionSpec => []IndexesContinue
<1>1. IndexInv => IndexesContinue
  BY DEF IndexInv, Continued, IndexesContinue
<1>2. ProductionInv /\ IndexInv /\ [NextProduction]_allVars => IndexInv'
  BY IndexStep
<1> QED
  BY <1>1, <1>2, IndexInit, ProductionInvariance, PTL DEF ProductionSpec
=============================================================================
