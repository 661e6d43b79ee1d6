------------------------ MODULE WorkflowEngineProofs ------------------------
(***************************************************************************)
(* What holds of a workflow run for every catalog of definitions, any      *)
(* number of concurrent requests and with requests dying at any statement. *)
(***************************************************************************)
EXTENDS WorkflowEngine, SequenceTheorems, TLAPS

(***************************************************************************)
(* TypeOK is not inductive: a request writes through the step it works on, *)
(* so the invariant also says that this step exists, that a decision is    *)
(* made before it is written and that a transition is chosen before it is  *)
(* applied.                                                                *)
(***************************************************************************)
WithoutStep == {"idle", "create_steps", "arm", "mark"}
Deciders == {"load_gate", "find_entity", "decide", "claim", "audit", "approved_output",
             "reset", "reopen"}
Markers == {"arm_gate", "arm_current", "mark"}

LocalOK(q, orders) ==
    /\ q \in Request
    /\ q.pc \notin WithoutStep => q.at \in orders
    /\ q.pc \in Deciders => q.decision # "none"
    /\ q.pc \in Markers => q.mark # "none"

RowsOK ==
    /\ run \in RunType
    /\ def \in Catalog \cup {<< >>}
    /\ steps \in [DOMAIN def -> StepType] \cup {<< >>}
    /\ entities \in Seq(EntityType)
    /\ outputs \in Seq(OutputType)
    /\ approvals \in Seq(ApprovalType)
    /\ run.current \in Orders \cup {0}
    /\ run.status = "none" => def = << >>

TypeInv ==
    /\ RowsOK
    /\ req \in [Requests -> Request]
    /\ \A r \in Requests : LocalOK(req[r], Orders)

LEMMA OrdersAreNumbers == RowsOK => Orders \subseteq Nat
  BY CatalogAssumption DEF RowsOK, Orders

\* Writing the status of a step keeps the rows of the run.
LEMMA SetStepTyped ==
    ASSUME RowsOK, NEW s \in Orders, NEW x \in StepStatus, SetStep(s, x) \/ UNCHANGED steps,
           UNCHANGED <<run, def, entities, outputs, approvals>>
    PROVE  RowsOK' /\ Orders' = Orders
<1>0. steps # << >> /\ steps \in [DOMAIN def -> StepType]
  BY DEF RowsOK, Orders
<1>1. /\ steps' \in [DOMAIN def -> StepType]
      /\ DOMAIN steps' = DOMAIN steps
  BY <1>0 DEF SetStep, Orders, RunType, StepType
<1>2. run' = run /\ def' = def /\ entities' = entities /\ outputs' = outputs
         /\ approvals' = approvals
  OBVIOUS
<1>3. steps' \in [DOMAIN def' -> StepType] \cup {<< >>}
  BY <1>1, <1>2
<1>4. (run.current \in Orders \cup {0})' /\ (run.status = "none" => def = << >>)'
  BY <1>0, <1>1, <1>2 DEF RowsOK, Orders
<1> QED
  BY <1>1, <1>2, <1>3, <1>4 DEF RowsOK, Orders

\* Writing the run row of a started run keeps its type.
LEMMA SetRunTyped ==
    ASSUME RowsOK, run' \in RunType,
           run'.current \in Orders \cup {0}, run'.status # "none",
           UNCHANGED <<def, steps, entities, outputs, approvals>>
    PROVE  RowsOK' /\ Orders' = Orders
  BY DEF RowsOK, Orders

\* A step of one request concerns its own local state and the rows.
LEMMA OwnStep ==
    ASSUME TypeInv, NEW r \in Requests, NEW q, RowsOK', Orders \subseteq Orders',
           req' = [req EXCEPT ![r] = q], LocalOK(q, Orders')
    PROVE  TypeInv'
<1>1. req' \in [Requests -> Request]
  BY DEF TypeInv, LocalOK
<1>2. ASSUME NEW p \in Requests PROVE LocalOK(req[p], Orders)'
  BY <1>1 DEF TypeInv, LocalOK
<1> QED
  BY <1>1, <1>2 DEF TypeInv

LEMMA OwnRead ==
    ASSUME TypeInv, NEW r \in Requests, NEW q, UNCHANGED tables,
           req' = [req EXCEPT ![r] = q], LocalOK(q, Orders)
    PROVE  TypeInv'
<1>1. RowsOK' /\ Orders' = Orders
  BY DEF TypeInv, RowsOK, Orders, tables
<1> QED
  BY <1>1, OwnStep

LEMMA IdleOK == ASSUME NEW orders PROVE LocalOK(Idle, orders)
  BY DEF LocalOK, Idle, Request, PCs, Marks, WithoutStep, Deciders, Markers

LEMMA ArmOK == ASSUME NEW orders PROVE LocalOK([Idle EXCEPT !.pc = "arm"], orders)
  BY DEF LocalOK, Idle, Request, PCs, Marks, WithoutStep, Deciders, Markers

LEMMA ArmToOK ==
    ASSUME NEW orders \in SUBSET Nat, NEW s \in Nat, NEW m \in Marks,
           NEW label \in {"arm_report", "arm_gate", "arm_current", "mark"},
           s \in orders \/ label = "mark", m # "none" \/ label = "arm_report"
    PROVE  LocalOK([Idle EXCEPT !.pc = label, !.at = s, !.mark = m], orders)
  BY DEF LocalOK, Idle, Request, PCs, WithoutStep, Deciders, Markers

LEMMA GotoOK ==
    ASSUME NEW orders, NEW q, LocalOK(q, orders), NEW label \in PCs,
           q.pc \notin WithoutStep,
           label \in Deciders => q.decision # "none",
           label \in Markers => q.mark # "none"
    PROVE  LocalOK([q EXCEPT !.pc = label], orders)
  BY DEF LocalOK, Request

\* The four ways a request goes on: to its next statement, to arming the next
\* step, to a chosen arming statement, or to its reply.
LEMMA MovesOn ==
    ASSUME TypeInv, NEW r \in Requests, RowsOK', Orders \subseteq Orders',
           \/ Reply(r)
           \/ Arm(r)
           \/ \E label \in PCs :
                /\ Goto(r, label)
                /\ req[r].pc \notin WithoutStep
                /\ label \in Deciders => req[r].decision # "none"
                /\ label \in Markers => req[r].mark # "none"
           \/ \E label \in {"arm_report", "arm_gate", "arm_current", "mark"},
                 s \in Nat, m \in Marks :
                /\ ArmTo(r, label, s, m)
                /\ s \in Orders \/ label = "mark"
                /\ m # "none" \/ label = "arm_report"
    PROVE  TypeInv'
<1>1. CASE Reply(r)
  BY <1>1, IdleOK, OwnStep DEF Reply
<1>2. CASE Arm(r)
  BY <1>2, ArmOK, OwnStep DEF Arm
<1>3. ASSUME NEW label \in PCs, Goto(r, label), req[r].pc \notin WithoutStep,
             label \in Deciders => req[r].decision # "none",
             label \in Markers => req[r].mark # "none"
      PROVE  TypeInv'
  <2>1. LocalOK(req[r], Orders')
    BY DEF TypeInv, LocalOK
  <2>2. LocalOK([req[r] EXCEPT !.pc = label], Orders')
    BY <1>3, <2>1, GotoOK
  <2>3. req' = [req EXCEPT ![r] = [req[r] EXCEPT !.pc = label]]
    BY <1>3 DEF Goto
  <2> QED
    BY <2>2, <2>3, OwnStep
<1>4. ASSUME NEW label \in {"arm_report", "arm_gate", "arm_current", "mark"},
             NEW s \in Nat, NEW m \in Marks, ArmTo(r, label, s, m),
             s \in Orders \/ label = "mark", m # "none" \/ label = "arm_report"
      PROVE  TypeInv'
  <2>1. Orders' \in SUBSET Nat
    BY CatalogAssumption DEF RowsOK, Orders
  <2>2. LocalOK([Idle EXCEPT !.pc = label, !.at = s, !.mark = m], Orders')
    BY <1>4, <2>1, ArmToOK
  <2> QED
    BY <1>4, <2>2, OwnStep DEF ArmTo
<1> QED
  BY <1>1, <1>2, <1>3, <1>4

LEMMA RowsKept == RowsOK /\ UNCHANGED tables => RowsOK' /\ Orders' = Orders
  BY DEF RowsOK, Orders, tables

(***************************************************************************)
(* Starting a run                                                          *)
(***************************************************************************)
LEMMA InitTyped == Init => TypeInv
<1> SUFFICES ASSUME Init PROVE TypeInv
  OBVIOUS
<1>1. RowsOK
  BY DEF Init, RowsOK, RunStatus, Orders, RunType, StepType
<1>2. req \in [Requests -> Request]
  BY IdleOK DEF Init, LocalOK
<1>3. \A r \in Requests : LocalOK(req[r], Orders)
  BY IdleOK DEF Init
<1> QED
  BY <1>1, <1>2, <1>3 DEF TypeInv

LEMMA StartingTyped ==
    ASSUME TypeInv, NEW r \in Requests, Starting(r)
    PROVE  TypeInv'
<1>1. CASE Start(r)
  <2>1. steps = << >> /\ Orders' = Orders
    <3>1. def = << >> /\ DOMAIN << >> = {}
      BY <1>1 DEF Start, TypeInv, RowsOK
    <3>2. steps \in [{} -> StepType] \cup {<< >>}
      BY <3>1 DEF TypeInv, RowsOK
    <3>3. \A f \in [{} -> StepType] : f = << >>
      OBVIOUS
    <3> QED
      BY <1>1, <3>2, <3>3 DEF Start, Orders
  <2>2. run' \in RunType
         /\ run'.current = run.current /\ run'.status # "none"
    BY <1>1 DEF Start, TypeInv, RowsOK, RunStatus, RunType, StepType
  <2>3. RowsOK'
    BY <1>1, <2>1, <2>2 DEF Start, TypeInv, RowsOK, Orders
  <2>4. LocalOK([req[r] EXCEPT !.pc = "create_steps"], Orders')
    BY <1>1 DEF TypeInv, LocalOK, Request, PCs, WithoutStep, Deciders, Markers
  <2> QED
    BY <1>1, <2>1, <2>3, <2>4, OwnStep DEF Start, Goto
<1>2. CASE CreateSteps(r)
  <2>1. steps' \in [DOMAIN def' -> StepType]
    BY <1>2 DEF CreateSteps, StepStatus, RunType, StepType
  <2>2. Orders \subseteq Orders'
    BY <1>2 DEF CreateSteps, TypeInv, RowsOK, Orders
  <2>3. RowsOK'
    BY <1>2, <2>1, <2>2 DEF CreateSteps, TypeInv, RowsOK
  <2> QED
    BY <1>2, <2>2, <2>3, MovesOn DEF CreateSteps
<1> QED
  BY <1>1, <1>2 DEF Starting

(***************************************************************************)
(* Advancing                                                               *)
(***************************************************************************)
\* The writing statements of the endpoints work on a step that exists.
LEMMA WorksOnStep ==
    ASSUME TypeInv, NEW r \in Requests, req[r].pc \notin WithoutStep
    PROVE  /\ req[r].at \in Orders
           /\ req[r].at \in Nat
           /\ run.status # "none"
           /\ steps[req[r].at].status \in StepStatus
           /\ steps[req[r].at].rev \in Nat
<1>1. req[r].at \in Orders
  BY DEF TypeInv, LocalOK
<1>2. steps \in [DOMAIN def -> StepType] /\ def # << >>
  BY <1>1 DEF TypeInv, RowsOK, Orders
<1> QED
  BY <1>1, <1>2, OrdersAreNumbers DEF TypeInv, RowsOK, Orders, RunType, StepType

LEMMA CandidatesAreNumbers ==
    ASSUME RowsOK, req \in [Requests -> Request], NEW r \in Requests, NEW gate
    PROVE  Candidates(gate, req[r].out) \subseteq Nat
<1>1. req[r].out \in Nat /\ Len(entities) \in Nat
  BY DEF RowsOK, Request
<1>2. \A i \in DOMAIN outputs : outputs[i].ent \in Nat
  <2>1. outputs \in [1 .. Len(outputs) -> OutputType]
    BY LenProperties DEF RowsOK
  <2> QED
    BY <2>1 DEF OutputType
<1>3. outputs # << >> => Len(outputs) \in DOMAIN outputs
  BY EmptySeq DEF RowsOK
<1>4. Linked \subseteq Nat /\ Newest \subseteq Nat
  BY <1>2, <1>3 DEF Linked, Newest
<1> QED
  BY <1>1, <1>4 DEF Candidates

LEMMA AdvancingTyped ==
    ASSUME TypeInv, NEW r \in Requests, Advancing(r)
    PROVE  TypeInv'
<1> DEFINE s == req[r].at
<1>1. CASE Advance(r)
  <2> DEFINE q == [Idle EXCEPT !.pc = "advance", !.at = run.current, !.out = run.output]
  <2>1. LocalOK(q, Orders)
    BY <1>1 DEF Advance, TypeInv, RowsOK, LocalOK, Idle, Request, PCs, Marks,
                WithoutStep, Deciders, Markers, RunType, StepType
  <2> QED
    BY <1>1, <2>1, OwnRead DEF Advance
<1>2. CASE ReadStep(r)
  <2>1. RowsOK' /\ Orders' = Orders
    BY <1>2, RowsKept DEF ReadStep, TypeInv
  <2>2. Arm(r) \/ \E label \in PCs : Goto(r, label) /\ label \notin Deciders \cup Markers
    BY <1>2 DEF ReadStep, PCs, Deciders, Markers
  <2>3. req[r].pc \notin WithoutStep
    BY <1>2 DEF ReadStep, At, WithoutStep
  <2> QED
    BY <2>1, <2>2, <2>3, MovesOn
<1>3. CASE Skip(r)
  <2>1. RowsOK' /\ Orders' = Orders
    BY <1>3, WorksOnStep, SetStepTyped DEF Skip, At, WithoutStep, StepStatus, TypeInv
  <2> QED
    BY <1>3, <2>1, MovesOn DEF Skip
<1>4. CASE Begin(r)
  <2> DEFINE q == [req[r] EXCEPT !.pc = "execute", !.rev = steps[s].rev]
  <2>1. s \in Orders /\ steps[s].rev \in Nat
    BY <1>4, WorksOnStep DEF Begin, At, WithoutStep
  <2>2. RowsOK' /\ Orders' = Orders
    BY <1>4, <2>1, SetStepTyped DEF Begin, StepStatus, TypeInv
  <2>3. LocalOK(q, Orders')
    BY <2>1, <2>2 DEF TypeInv, LocalOK, Request, PCs, WithoutStep, Deciders, Markers
  <2>4. req' = [req EXCEPT ![r] = q]
    BY <1>4 DEF Begin
  <2> QED
    BY <2>2, <2>3, <2>4, OwnStep
<1>5. CASE Execute(r)
  <2>1. req[r].pc \notin WithoutStep
    BY <1>5 DEF Execute, At, WithoutStep
  <2>2. entities' \in Seq(EntityType)
    <3> DEFINE fresh == [status : {"generated"}, low : BOOLEAN]
    <3>1. UNCHANGED entities \/ \E e \in fresh : entities' = Append(entities, e)
      BY <1>5 DEF Execute, Generate, RecordContext, ReadGenerated,
         ReadQaFact, VerifyGeneratedDna, VerifyApproved, Throw
    <3>2. fresh \subseteq EntityType
      BY DEF EntityType, EntityStatus
    <3>3. entities \in Seq(EntityType)
      BY DEF TypeInv, RowsOK
    <3> HIDE DEF fresh
    <3>4. \A e \in fresh : Append(entities, e) \in Seq(EntityType)
      BY <3>2, <3>3, AppendProperties
    <3> QED
      BY <3>1, <3>3, <3>4
  <2>3. RowsOK' /\ Orders' = Orders
    BY <1>5, <2>2 DEF Execute, TypeInv, RowsOK, Orders
  <2>4. \A e \in Candidates(GateOf(def), req[r].out) : e \in Nat
    BY CandidatesAreNumbers DEF TypeInv
  <2>5. \/ \E label \in PCs : Goto(r, label) /\ label \notin Deciders \cup Markers
        \/ \E e \in Nat : req' = [req EXCEPT ![r] = [@ EXCEPT !.pc = "complete", !.ent = e]]
    <3> DEFINE candidates == Candidates(GateOf(def), req[r].out)
    <3>1. \/ Goto(r, "complete") \/ Goto(r, "note") \/ Goto(r, "fail")
          \/ req' = [req EXCEPT ![r].pc = "complete", ![r].ent = Len(entities) + 1]
          \/ \E e \in candidates : req' = [req EXCEPT ![r].pc = "complete", ![r].ent = e]
          \/ req' = [req EXCEPT ![r].pc = "complete", ![r].ent = 0]
      BY <1>5 DEF Execute, Generate, RecordContext, ReadGenerated,
         ReadQaFact, VerifyGeneratedDna, VerifyApproved, Throw
    <3>2. Len(entities) + 1 \in Nat
      BY DEF TypeInv, RowsOK
    <3> HIDE DEF candidates
    <3> QED
      BY <3>1, <3>2, <2>4 DEF PCs, Deciders, Markers, candidates
  <2>6. ASSUME NEW e \in Nat, req' = [req EXCEPT ![r] = [@ EXCEPT !.pc = "complete", !.ent = e]]
        PROVE  TypeInv'
    <3> DEFINE q == [req[r] EXCEPT !.pc = "complete", !.ent = e]
    <3>1. LocalOK(q, Orders')
      BY <2>1, <2>3 DEF TypeInv, LocalOK, Request, PCs, WithoutStep, Deciders, Markers
    <3> QED
      BY <2>3, <2>6, <3>1, OwnStep
  <2> QED
    BY <2>1, <2>3, <2>5, <2>6, MovesOn
<1>6. CASE Complete(r)
  <2>1. RowsOK' /\ Orders' = Orders /\ req[r].pc \notin WithoutStep
    BY <1>6, WorksOnStep, SetStepTyped DEF Complete, At, WithoutStep, StepStatus, TypeInv
  <2>2. Arm(r) \/ Goto(r, "output")
    BY <1>6 DEF Complete
  <2> QED
    BY <2>1, <2>2, MovesOn DEF PCs, Deciders, Markers
<1>7. CASE SkipWithNote(r)
  <2>1. RowsOK' /\ Orders' = Orders
    BY <1>7, WorksOnStep, SetStepTyped DEF SkipWithNote, At, WithoutStep, StepStatus, TypeInv
  <2> QED
    BY <1>7, <2>1, MovesOn DEF SkipWithNote
<1>8. CASE RecordOutput(r)
  <2>1. OutputRow(r) \in OutputType /\ req[r].pc \notin WithoutStep
    BY <1>8 DEF RecordOutput, At, WithoutStep, OutputRow, OutputType, TypeInv, LocalOK, Request
  <2>2. outputs' \in Seq(OutputType)
    BY <1>8, <2>1 DEF RecordOutput, TypeInv, RowsOK
  <2>3. RowsOK' /\ Orders' = Orders
    BY <1>8, <2>2 DEF RecordOutput, TypeInv, RowsOK, Orders
  <2>4. Arm(r) \/ Goto(r, "merge")
    BY <1>8 DEF RecordOutput
  <2> QED
    BY <2>1, <2>3, <2>4, MovesOn DEF PCs, Deciders, Markers
<1>9. CASE MergeOutput(r)
  <2>1. run.status # "none" /\ req[r].ent \in Nat
    BY <1>9, WorksOnStep DEF MergeOutput, At, WithoutStep, TypeInv, LocalOK, Request
  <2>2. RowsOK' /\ Orders' = Orders
    BY <1>9, <2>1, SetRunTyped DEF MergeOutput, TypeInv, RowsOK, RunType, StepType
  <2> QED
    BY <1>9, <2>2, MovesOn DEF MergeOutput
<1>10. CASE FailStep(r)
  <2>1. RowsOK' /\ Orders' = Orders /\ s \in Nat
    BY <1>10, WorksOnStep, SetStepTyped DEF FailStep, At, WithoutStep, StepStatus, TypeInv
  <2>2. ArmTo(r, "mark", s, "failed")
    BY <1>10 DEF FailStep
  <2> QED
    BY <2>1, <2>2, MovesOn DEF Marks
<1> QED
  BY <1>1, <1>2, <1>3, <1>4, <1>5, <1>6, <1>7, <1>8, <1>9, <1>10 DEF Advancing

(***************************************************************************)
(* Arming the next step                                                    *)
(***************************************************************************)
LEMMA ArmingTyped ==
    ASSUME TypeInv, NEW r \in Requests, Arming(r)
    PROVE  TypeInv'
<1> DEFINE s == req[r].at
<1>1. CASE ArmNextStep(r)
  <2>1. RowsOK' /\ Orders' = Orders
    BY <1>1, RowsKept DEF ArmNextStep, TypeInv
  <2>2. NextPending \subseteq Orders /\ Orders \subseteq Nat
    BY OrdersAreNumbers DEF NextPending, Pending, TypeInv
  <2>3. \E label \in {"arm_report", "arm_gate", "arm_current", "mark"}, t \in Nat, m \in Marks :
           /\ ArmTo(r, label, t, m)
           /\ t \in Orders \/ label = "mark"
           /\ m # "none" \/ label = "arm_report"
    BY <1>1, <2>2 DEF ArmNextStep, Marks
  <2> QED
    BY <2>1, <2>3, MovesOn
<1>2. CASE ReadReport(r)
  <2>1. RowsOK' /\ Orders' = Orders
    BY <1>2, RowsKept DEF ReadReport, TypeInv
  <2>2. s \in Orders /\ s \in Nat
    BY <1>2, WorksOnStep DEF ReadReport, At, WithoutStep
  <2>3. ArmTo(r, "arm_current", s, "qa_failed") \/ ArmTo(r, "arm_gate", s, "waiting_for_approval")
    BY <1>2 DEF ReadReport
  <2> QED
    BY <2>1, <2>2, <2>3, MovesOn DEF Marks
<1>3. CASE OpenGate(r)
  <2>1. RowsOK' /\ Orders' = Orders /\ req[r].pc \notin WithoutStep
    BY <1>3, WorksOnStep, SetStepTyped DEF OpenGate, At, WithoutStep, StepStatus, TypeInv
  <2>2. Goto(r, "arm_current") /\ req[r].mark # "none"
    BY <1>3 DEF OpenGate, At, TypeInv, LocalOK, Markers
  <2> QED
    BY <2>1, <2>2, MovesOn DEF PCs, Deciders
<1>4. CASE SetCurrentStep(r)
  <2>1. s \in Orders /\ s \in Nat /\ run.status # "none" /\ req[r].pc \notin WithoutStep
    BY <1>4, WorksOnStep DEF SetCurrentStep, At, WithoutStep
  <2>2. RowsOK' /\ Orders' = Orders
    BY <1>4, <2>1, SetRunTyped DEF SetCurrentStep, TypeInv, RowsOK, RunType, StepType
  <2>3. Goto(r, "mark") /\ req[r].mark # "none"
    BY <1>4 DEF SetCurrentStep, At, TypeInv, LocalOK, Markers
  <2> QED
    BY <2>1, <2>2, <2>3, MovesOn DEF PCs, Deciders
<1>5. CASE MarkRun(r)
  <2>1. req[r].mark \in Marks \ {"none"}
    BY <1>5 DEF MarkRun, At, TypeInv, LocalOK, Request, Markers
  <2>2. CASE UNCHANGED run
    BY <1>5, <2>2, RowsKept, MovesOn DEF MarkRun, tables, TypeInv
  <2>3. CASE run.status \in MarkFrom(req[r].mark)
    <3>0. run' = [run EXCEPT !.status = req[r].mark, !.current = 0]
           \/ run' = [run EXCEPT !.status = req[r].mark]
      BY <1>5, <2>3 DEF MarkRun, TypeInv, RowsOK
    <3>1. run' \in RunType
           /\ run'.current \in {0, run.current} /\ run'.status # "none"
      <4>1. req[r].mark \in RunStatus \ {"none"}
        BY <2>1 DEF Marks, RunStatus
      <4>2. run \in RunType
        BY DEF TypeInv, RowsOK
      <4>3. \A m \in RunStatus, c \in Nat :
               /\ [run EXCEPT !.status = m] \in RunType
               /\ [run EXCEPT !.status = m].current = run.current
               /\ [run EXCEPT !.status = m].status = m
               /\ [run EXCEPT !.status = m, !.current = c]
                     \in RunType
               /\ [run EXCEPT !.status = m, !.current = c].current = c
               /\ [run EXCEPT !.status = m, !.current = c].status = m
        BY <4>2 DEF RunType, StepType
      <4> QED
        BY <3>0, <4>1, <4>3 DEF RunType, StepType
    <3>2. RowsOK' /\ Orders' = Orders
      BY <1>5, <3>1, SetRunTyped DEF MarkRun, TypeInv, RowsOK
    <3> QED
      BY <1>5, <3>2, MovesOn DEF MarkRun
  <2> QED
    BY <1>5, <2>2, <2>3 DEF MarkRun
<1> QED
  BY <1>1, <1>2, <1>3, <1>4, <1>5 DEF Arming

(***************************************************************************)
(* Decisions on an entity                                                  *)
(***************************************************************************)
LEMMA OutcomesAreStatuses ==
    ASSUME NEW gate, NEW status, NEW decision
    PROVE  Outcomes(gate, status, decision) \subseteq EntityStatus
  BY DEF Outcomes, RejectTo, EntityStatus

LEMMA EntityUpdateTyped ==
    ASSUME NEW rows \in Seq(EntityType),
           NEW e, NEW x \in EntityStatus
    PROVE  [rows EXCEPT ![e].status = x] \in Seq(EntityType)
<1>1. rows \in [1 .. Len(rows) -> EntityType] /\ Len(rows) \in Nat
  BY LenProperties
<1>2. [rows EXCEPT ![e].status = x] \in [1 .. Len(rows) -> EntityType]
  BY <1>1 DEF EntityType
<1> QED
  BY <1>1, <1>2, SeqDef

(***************************************************************************)
(* Deciding a gate                                                         *)
(***************************************************************************)
LEMMA DecidingTyped ==
    ASSUME TypeInv, NEW r \in Requests, Deciding(r)
    PROVE  TypeInv'
<1> DEFINE s == req[r].at
<1>1. CASE ReceiveDecision(r)
  <2> DEFINE q(decision) == [Idle EXCEPT !.pc = "load_gate", !.at = run.current,
                                         !.out = run.output, !.decision = decision]
  <2>1. \E decision \in {"approved", "rejected"} : req' = [req EXCEPT ![r] = q(decision)]
    BY <1>1 DEF ReceiveDecision
  <2>2. ASSUME NEW decision \in {"approved", "rejected"} PROVE LocalOK(q(decision), Orders)
    BY <1>1 DEF ReceiveDecision, TypeInv, RowsOK, LocalOK, Idle, Request, PCs, Marks,
                WithoutStep, Deciders, Markers, RunType, StepType
  <2> QED
    BY <1>1, <2>1, <2>2, OwnRead DEF ReceiveDecision
<1>2. CASE LoadGate(r)
  <2> DEFINE q == [req[r] EXCEPT !.pc = "find_entity", !.seen = steps[s].rev]
  <2>1. steps[s].rev \in Nat
    BY <1>2, WorksOnStep DEF LoadGate, At, WithoutStep
  <2>2. LocalOK(q, Orders)
    BY <1>2, <2>1 DEF LoadGate, At, TypeInv, LocalOK, Request, PCs, WithoutStep, Deciders, Markers
  <2>3. req' = [req EXCEPT ![r] = q]
    BY <1>2 DEF LoadGate
  <2> QED
    BY <1>2, <2>2, <2>3, OwnRead DEF LoadGate
<1>3. CASE FindEntity(r)
  <2> DEFINE q(label, e) == [req[r] EXCEPT !.pc = label, !.ent = e]
             candidates == Candidates(def[s].gate, req[r].out)
  <2>1. candidates \subseteq Nat
    BY CandidatesAreNumbers DEF TypeInv
  <2>2. \E label \in {"decide", "claim"}, e \in candidates :
           req' = [req EXCEPT ![r] = q(label, e)]
    BY <1>3 DEF FindEntity
  <2> HIDE DEF candidates
  <2>3. ASSUME NEW label \in {"decide", "claim"}, NEW e \in Nat
        PROVE  LocalOK(q(label, e), Orders)
    BY <1>3 DEF FindEntity, At, TypeInv, LocalOK, Request, PCs, WithoutStep, Deciders, Markers
  <2> QED
    BY <1>3, <2>1, <2>2, <2>3, OwnRead DEF FindEntity
<1>4. CASE DecideEntity(r)
  <2>1. entities' \in Seq(EntityType)
    <3>1. \E e : \E x \in EntityStatus : entities' = [entities EXCEPT ![e].status = x]
      BY <1>4, OutcomesAreStatuses DEF DecideEntity
    <3>2. entities \in Seq(EntityType)
      BY DEF TypeInv, RowsOK
    <3> QED
      BY <3>1, <3>2, EntityUpdateTyped
  <2>2. RowsOK' /\ Orders' = Orders
    BY <1>4, <2>1 DEF DecideEntity, TypeInv, RowsOK, Orders
  <2>3. req[r].pc \notin WithoutStep /\ req[r].decision # "none"
    BY <1>4 DEF DecideEntity, At, WithoutStep, TypeInv, LocalOK, Deciders
  <2>4. Goto(r, "claim")
    BY <1>4 DEF DecideEntity
  <2> QED
    BY <2>2, <2>3, <2>4, MovesOn DEF PCs, Markers
<1>5. CASE ClaimGate(r)
  <2> DEFINE q == [req[r] EXCEPT !.pc = "audit", !.rev = steps[s].rev]
  <2>1. s \in Orders /\ steps[s].rev \in Nat
    BY <1>5, WorksOnStep DEF ClaimGate, At, WithoutStep
  <2>2. req[r].decision \in StepStatus
    BY <1>5 DEF ClaimGate, At, TypeInv, LocalOK, Request, Deciders, StepStatus
  <2>3. RowsOK' /\ Orders' = Orders
    BY <1>5, <2>1, <2>2, SetStepTyped DEF ClaimGate, TypeInv
  <2>4. LocalOK(q, Orders')
    BY <1>5, <2>1, <2>3 DEF ClaimGate, At, TypeInv, LocalOK, Request, PCs,
                            WithoutStep, Deciders, Markers
  <2>5. req' = [req EXCEPT ![r] = q]
    BY <1>5 DEF ClaimGate
  <2> QED
    BY <2>3, <2>4, <2>5, OwnStep
<1>6. CASE RecordDecision(r)
  <2> DEFINE row == [step |-> s, rev |-> req[r].rev, seen |-> req[r].seen,
                     ent |-> req[r].ent, decision |-> req[r].decision]
  <2>1. s \in Orders /\ s \in Nat /\ req[r].pc \notin WithoutStep /\ req[r].decision # "none"
    BY <1>6, WorksOnStep DEF RecordDecision, At, WithoutStep, TypeInv, LocalOK, Deciders
  <2>2. row \in ApprovalType
    BY <2>1 DEF ApprovalType, TypeInv, LocalOK, Request
  <2>3. approvals' \in Seq(ApprovalType)
    BY <1>6, <2>2, AppendProperties DEF RecordDecision, TypeInv, RowsOK
  <2>4. RowsOK' /\ Orders' = Orders
    BY <1>6, <2>3 DEF RecordDecision, TypeInv, RowsOK, Orders
  <2>5. Goto(r, "approved_output") \/ Goto(r, "reset") \/ ArmTo(r, "mark", s, "failed")
    BY <1>6 DEF RecordDecision
  <2> QED
    BY <2>1, <2>4, <2>5, MovesOn DEF PCs, Markers, Marks
<1>7. CASE RecordApprovedOutput(r)
  <2>1. OutputRow(r) \in OutputType
    BY DEF OutputRow, OutputType, TypeInv, LocalOK, Request
  <2>2. outputs' \in Seq(OutputType)
    BY <1>7, <2>1, AppendProperties DEF RecordApprovedOutput, TypeInv, RowsOK
  <2>3. RowsOK' /\ Orders' = Orders
    BY <1>7, <2>2 DEF RecordApprovedOutput, TypeInv, RowsOK, Orders
  <2> QED
    BY <1>7, <2>3, MovesOn DEF RecordApprovedOutput
<1>8. CASE ResetForRevision(r)
  <2>1. /\ s \in Orders /\ req[r].pc \notin WithoutStep /\ req[r].decision # "none"
        /\ steps \in [DOMAIN def -> StepType]
    BY <1>8, WorksOnStep DEF ResetForRevision, At, WithoutStep, TypeInv, RowsOK, Orders,
                             LocalOK, Deciders, RunType, StepType
  <2>2. steps' \in [DOMAIN def -> StepType]
    BY <1>8, <2>1 DEF ResetForRevision, StepStatus, Orders, RunType, StepType
  <2>3. RowsOK' /\ Orders' = Orders
    BY <1>8, <2>1, <2>2 DEF ResetForRevision, TypeInv, RowsOK, Orders
  <2>4. Goto(r, "reopen")
    BY <1>8 DEF ResetForRevision
  <2> QED
    BY <2>1, <2>3, <2>4, MovesOn DEF PCs, Markers
<1>9. CASE Reopen(r)
  <2>1. /\ run' \in RunType
        /\ run'.current = run.current /\ run'.status # "none"
    BY <1>9, WorksOnStep DEF Reopen, At, WithoutStep, TypeInv, RowsOK, RunStatus, RunType, StepType
  <2>2. RowsOK' /\ Orders' = Orders
    BY <1>9, <2>1, SetRunTyped DEF Reopen, TypeInv, RowsOK
  <2> QED
    BY <1>9, <2>2, MovesOn DEF Reopen
<1> QED
  BY <1>1, <1>2, <1>3, <1>4, <1>5, <1>6, <1>7, <1>8, <1>9 DEF Deciding

(***************************************************************************)
(* The remaining actions, and the theorem                                  *)
(***************************************************************************)
LEMMA OtherStepsTyped ==
    ASSUME TypeInv, NEW r \in Requests,
           Refuse(r) \/ Cancel(r) \/ ReviewDirectly(r) \/ Interrupt(r)
    PROVE  TypeInv'
<1>1. CASE Refuse(r) \/ Interrupt(r)
  <2>1. RowsOK' /\ Orders' = Orders
    BY <1>1, RowsKept DEF Refuse, Interrupt, TypeInv
  <2> QED
    BY <1>1, <2>1, MovesOn DEF Refuse, Interrupt
<1>2. CASE Cancel(r)
  <2>1. /\ run' \in RunType
        /\ run'.current = run.current /\ run'.status # "none"
    BY <1>2 DEF Cancel, TypeInv, RowsOK, RunStatus, RunType, StepType
  <2>2. RowsOK' /\ Orders' = Orders
    BY <1>2, <2>1, SetRunTyped DEF Cancel, TypeInv, RowsOK
  <2> QED
    BY <1>2, <2>2 DEF Cancel, TypeInv
<1>3. CASE ReviewDirectly(r)
  <2>1. entities' \in Seq(EntityType)
    <3>1. \E e : \E x \in EntityStatus : entities' = [entities EXCEPT ![e].status = x]
      BY <1>3, OutcomesAreStatuses DEF ReviewDirectly
    <3>2. entities \in Seq(EntityType)
      BY DEF TypeInv, RowsOK
    <3> QED
      BY <3>1, <3>2, EntityUpdateTyped
  <2>2. RowsOK' /\ Orders' = Orders
    BY <1>3, <2>1 DEF ReviewDirectly, TypeInv, RowsOK, Orders
  <2> QED
    BY <1>3, <2>2 DEF ReviewDirectly, TypeInv
<1> QED
  BY <1>1, <1>2, <1>3

LEMMA TypeInvStep == TypeInv /\ [Next]_vars => TypeInv'
<1> SUFFICES ASSUME TypeInv, [Next]_vars PROVE TypeInv'
  OBVIOUS
<1>1. ASSUME NEW r \in Requests, Starting(r) PROVE TypeInv'
  BY <1>1, StartingTyped
<1>2. ASSUME NEW r \in Requests, Advancing(r) PROVE TypeInv'
  BY <1>2, AdvancingTyped
<1>3. ASSUME NEW r \in Requests, Arming(r) PROVE TypeInv'
  BY <1>3, ArmingTyped
<1>4. ASSUME NEW r \in Requests, Deciding(r) PROVE TypeInv'
  BY <1>4, DecidingTyped
<1>5. ASSUME NEW r \in Requests, Refuse(r) \/ Cancel(r) \/ ReviewDirectly(r) \/ Interrupt(r)
      PROVE  TypeInv'
  BY <1>5, OtherStepsTyped
<1>6. CASE UNCHANGED vars
  BY <1>6 DEF vars, TypeInv, RowsOK, Orders
<1> QED
  BY <1>1, <1>2, <1>3, <1>4, <1>5, <1>6 DEF Next

LEMMA TypeInvAlways == Spec => []TypeInv
  BY InitTyped, TypeInvStep, PTL DEF Spec

\* Whatever definitions are started, whoever calls and whichever requests die
\* between two statements, every row and every local variable of engine.ts
\* keeps its type: no request writes a step that does not exist.
THEOREM TypeCorrect == Spec => []TypeOK
<1>1. TypeInv => TypeOK
  BY DEF TypeInv, RowsOK, TypeOK
<1> QED
  BY <1>1, TypeInvAlways, PTL

(***************************************************************************)
(* A run that ended stays ended                                            *)
(***************************************************************************)
Final(before, after) ==
    /\ before \in {"completed", "failed", "cancelled"} => after = before
    /\ before \in {"qa_failed", "blocked_future_feature"} =>
          after \in {before, "failed", "cancelled"}

LEMMA StepKeepsFinal ==
    ASSUME TypeInv, [Next]_vars
    PROVE  Final(run.status, run'.status)
<1> USE DEF Final
<1>0. run \in RunType
  BY DEF TypeInv, RowsOK
<1>1. ASSUME NEW r \in Requests, Starting(r) PROVE Final(run.status, run'.status)
  BY <1>0, <1>1 DEF Starting, Start, CreateSteps
<1>2. ASSUME NEW r \in Requests, Advancing(r) PROVE run'.status = run.status
  BY <1>0, <1>2 DEF Advancing, Advance, ReadStep, Skip, Begin, Execute, Complete, SkipWithNote,
                    RecordOutput, MergeOutput, FailStep, tables, RunType
<1>3. ASSUME NEW r \in Requests, Arming(r) PROVE Final(run.status, run'.status)
  <2>1. CASE MarkRun(r)
    <3>1. CASE run.status \in MarkFrom(req[r].mark)
      <4>1. run'.status = req[r].mark
        BY <1>0, <2>1, <3>1 DEF MarkRun, RunType
      <4> QED
        BY <3>1, <4>1 DEF MarkFrom
    <3> QED
      BY <2>1, <3>1 DEF MarkRun
  <2> QED
    BY <1>0, <1>3, <2>1 DEF Arming, ArmNextStep, ReadReport, OpenGate, SetCurrentStep,
                            tables, RunType
<1>4. ASSUME NEW r \in Requests, Deciding(r) PROVE Final(run.status, run'.status)
  <2>1. CASE Reopen(r)
    BY <1>0, <2>1 DEF Reopen, MarkFrom, RunType
  <2> QED
    BY <1>0, <1>4, <2>1 DEF Deciding, ReceiveDecision, LoadGate, FindEntity, DecideEntity,
                            ClaimGate, RecordDecision, RecordApprovedOutput,
                            ResetForRevision, tables
<1>5. ASSUME NEW r \in Requests, Refuse(r) \/ Cancel(r) \/ ReviewDirectly(r) \/ Interrupt(r)
      PROVE  Final(run.status, run'.status)
  BY <1>0, <1>5 DEF Refuse, Cancel, ReviewDirectly, Interrupt, tables, RunType
<1>6. CASE UNCHANGED vars
  BY <1>6 DEF vars
<1> QED
  BY <1>1, <1>2, <1>3, <1>4, <1>5, <1>6 DEF Next

\* Nothing revives a run that ended: whatever requests were still under way
\* when it completed, failed or was cancelled, their late markInProgress,
\* markWaiting, markQaFailed and markBlockedFuture find their guards closed.
THEOREM TerminalStaysFinal == Spec => TerminalIsFinal
<1>1. TypeInv /\ [Next]_vars =>
        [/\ run.status \in {"completed", "failed", "cancelled"} => run'.status = run.status
         /\ run.status \in {"qa_failed", "blocked_future_feature"} =>
               run'.status \in {run.status, "failed", "cancelled"}]_run
  BY StepKeepsFinal DEF Final
<1> QED
  BY <1>1, TypeInvAlways, PTL DEF Spec, TerminalIsFinal

(***************************************************************************)
(* Claims.  begin(), approve() and reject() of workflow-steps.ts are       *)
(* guarded single statements, "the concurrency claim".  Here is why that   *)
(* is enough, for any number of requests: a revision of a step is free     *)
(* while its status is pending or waiting_for_approval, a claim takes it,  *)
(* and nothing makes a taken revision free again, since resetForRevision   *)
(* counts it up.                                                           *)
(***************************************************************************)
Taken(s, n) ==
    /\ s \in Orders /\ n \in Nat
    /\ \/ n < steps[s].rev
       \/ n = steps[s].rev /\ steps[s].status \notin {"pending", "waiting_for_approval"}

\* Requests that work on a revision they claimed; those among them that will
\* still write an output row, and an approval row.
Holding == {"execute", "complete", "note", "output", "merge", "fail",
            "audit", "approved_output"}
Outputting == {"execute", "complete", "output", "audit", "approved_output"}

SameKey(q, r) == req[q].at = req[r].at /\ req[q].rev = req[r].rev

\* A run is inserted by one request, and its step rows by the same one.
CreatedOnce ==
    /\ run.status = "none" => \A r \in Requests : req[r].pc = "idle"
    /\ \A r \in Requests : req[r].pc = "create_steps" =>
          /\ Orders = {}
          /\ \A q \in Requests : req[q].pc = "create_steps" => q = r

HoldersTook == \A r \in Requests : req[r].pc \in Holding => Taken(req[r].at, req[r].rev)
RowsTaken ==
    /\ \A i \in DOMAIN outputs : Taken(outputs[i].step, outputs[i].rev)
    /\ \A i \in DOMAIN approvals : Taken(approvals[i].step, approvals[i].rev)
HoldersExclusive ==
    \A q, r \in Requests : q # r /\ req[q].pc \in Holding /\ req[r].pc \in Holding =>
        ~SameKey(q, r)
OutputsAhead ==
    \A r \in Requests, i \in DOMAIN outputs : req[r].pc \in Outputting =>
        ~(outputs[i].step = req[r].at /\ outputs[i].rev = req[r].rev)
AuditsAhead ==
    \A r \in Requests, i \in DOMAIN approvals : req[r].pc = "audit" =>
        ~(approvals[i].step = req[r].at /\ approvals[i].rev = req[r].rev)
OutputsExclusive ==
    \A i, j \in DOMAIN outputs : i # j =>
        ~(outputs[i].step = outputs[j].step /\ outputs[i].rev = outputs[j].rev)
ApprovalsExclusive ==
    \A i, j \in DOMAIN approvals : i # j =>
        ~(approvals[i].step = approvals[j].step /\ approvals[i].rev = approvals[j].rev)

ClaimInv ==
    /\ TypeInv
    /\ CreatedOnce
    /\ HoldersTook
    /\ RowsTaken
    /\ HoldersExclusive
    /\ OutputsAhead
    /\ AuditsAhead
    /\ OutputsExclusive
    /\ ApprovalsExclusive

StaysTaken == \A s, n : Taken(s, n) => Taken(s, n)'
OthersKeep(r) == \A q \in Requests : q # r => req'[q] = req[q]

\* A step of r that claims nothing and writes no output or approval row.
LEMMA NoClaim ==
    ASSUME ClaimInv, TypeInv', CreatedOnce', NEW r \in Requests, OthersKeep(r), StaysTaken,
           outputs' = outputs, approvals' = approvals,
           req'[r].pc \in Holding =>
              /\ req[r].pc \in Holding /\ req'[r].at = req[r].at /\ req'[r].rev = req[r].rev
              /\ req'[r].pc \in Outputting => req[r].pc \in Outputting
              /\ req'[r].pc = "audit" => req[r].pc = "audit"
    PROVE  ClaimInv'
<1> USE DEF ClaimInv, OthersKeep, StaysTaken
<1>1. HoldersTook'
  BY DEF HoldersTook
<1>2. RowsTaken'
  BY DEF RowsTaken
<1>3. HoldersExclusive'
  BY DEF HoldersExclusive, SameKey
<1>4. OutputsAhead'
  <2> SUFFICES ASSUME NEW q \in Requests, NEW i \in DOMAIN outputs, req'[q].pc \in Outputting
               PROVE  ~(outputs[i].step = req'[q].at /\ outputs[i].rev = req'[q].rev)
    BY DEF OutputsAhead
  <2>1. Outputting \subseteq Holding
    BY DEF Outputting, Holding
  <2>2. /\ req[q].pc \in Outputting
        /\ req'[q].at = req[q].at /\ req'[q].rev = req[q].rev
    <3>1. CASE q = r
      BY <2>1, <3>1
    <3>2. CASE q # r
      BY <3>2
    <3> QED
      BY <3>1, <3>2
  <2> QED
    BY <2>2 DEF OutputsAhead
<1>5. AuditsAhead'
  BY DEF AuditsAhead, Holding
<1> QED
  BY <1>1, <1>2, <1>3, <1>4, <1>5 DEF OutputsExclusive, ApprovalsExclusive

\* A step of r that takes a free revision.
LEMMA Claims ==
    ASSUME ClaimInv, TypeInv', CreatedOnce', NEW r \in Requests, OthersKeep(r), StaysTaken,
           outputs' = outputs, approvals' = approvals,
           NEW s, NEW n, req'[r].at = s, req'[r].rev = n, ~Taken(s, n), Taken(s, n)'
    PROVE  ClaimInv'
<1> USE DEF ClaimInv, OthersKeep, StaysTaken
<1>1. HoldersTook'
  BY DEF HoldersTook
<1>2. RowsTaken'
  BY DEF RowsTaken
<1>3. HoldersExclusive'
  BY DEF HoldersExclusive, SameKey, HoldersTook
<1>4. OutputsAhead'
  BY DEF OutputsAhead, RowsTaken
<1>5. AuditsAhead'
  BY DEF AuditsAhead, RowsTaken
<1> QED
  BY <1>1, <1>2, <1>3, <1>4, <1>5 DEF OutputsExclusive, ApprovalsExclusive

LEMMA AppendRow ==
    ASSUME NEW S, NEW rows \in Seq(S), NEW row \in S
    PROVE  /\ DOMAIN Append(rows, row) = DOMAIN rows \cup {Len(rows) + 1}
           /\ Len(rows) + 1 \notin DOMAIN rows
           /\ Append(rows, row)[Len(rows) + 1] = row
           /\ \A i \in DOMAIN rows : Append(rows, row)[i] = rows[i]
<1>1. /\ DOMAIN rows = 1 .. Len(rows) /\ Len(rows) \in Nat
      /\ Append(rows, row) \in Seq(S) /\ Len(Append(rows, row)) = Len(rows) + 1
      /\ \A i \in 1 .. Len(rows) : Append(rows, row)[i] = rows[i]
      /\ Append(rows, row)[Len(rows) + 1] = row
  BY LenProperties, AppendProperties
<1>2. DOMAIN Append(rows, row) = 1 .. Len(rows) + 1
  BY <1>1, LenProperties
<1> QED
  BY <1>1, <1>2

\* A step of r that writes the output row of the revision it holds.
LEMMA WritesOutput ==
    ASSUME ClaimInv, TypeInv', CreatedOnce', NEW r \in Requests, OthersKeep(r), StaysTaken,
           req[r].pc \in Outputting, outputs' = Append(outputs, OutputRow(r)),
           approvals' = approvals, req'[r].pc \notin Outputting,
           req'[r].pc \in Holding => req'[r].at = req[r].at /\ req'[r].rev = req[r].rev
    PROVE  ClaimInv'
<1> DEFINE new == Len(outputs) + 1
<1> USE DEF ClaimInv, OthersKeep, StaysTaken
<1>1. Outputting \subseteq Holding /\ "audit" \in Outputting
  BY DEF Outputting, Holding
<1>2. OutputRow(r) \in OutputType
  BY DEF OutputRow, OutputType, TypeInv, LocalOK, Request
<1>3. /\ DOMAIN outputs' = DOMAIN outputs \cup {new} /\ new \notin DOMAIN outputs
      /\ outputs'[new] = OutputRow(r) /\ \A i \in DOMAIN outputs : outputs'[i] = outputs[i]
  BY <1>2, AppendRow DEF TypeInv, RowsOK
<1>4. outputs'[new].step = req[r].at /\ outputs'[new].rev = req[r].rev
  BY <1>3 DEF OutputRow
<1> HIDE DEF new
<1>5. HoldersTook'
  BY <1>1 DEF HoldersTook
<1>6. RowsTaken'
  BY <1>1, <1>3, <1>4 DEF RowsTaken, HoldersTook
<1>7. HoldersExclusive'
  BY <1>1 DEF HoldersExclusive, SameKey
<1>8. OutputsAhead'
  <2> SUFFICES ASSUME NEW q \in Requests, NEW i \in DOMAIN outputs', req'[q].pc \in Outputting
               PROVE  ~(outputs'[i].step = req'[q].at /\ outputs'[i].rev = req'[q].rev)
    BY DEF OutputsAhead
  <2>1. q # r /\ req'[q] = req[q]
    OBVIOUS
  <2>2. CASE i = new
    BY <1>1, <1>4, <2>1, <2>2 DEF HoldersExclusive, SameKey
  <2>3. CASE i \in DOMAIN outputs
    BY <1>3, <2>1, <2>3 DEF OutputsAhead
  <2> QED
    BY <1>3, <2>2, <2>3
<1>9. AuditsAhead'
  BY <1>1 DEF AuditsAhead
<1>10. OutputsExclusive'
  BY <1>3, <1>4 DEF OutputsExclusive, OutputsAhead
<1> QED
  BY <1>5, <1>6, <1>7, <1>8, <1>9, <1>10 DEF ApprovalsExclusive

\* The step of r that writes the approval row of the revision it decided.
LEMMA WritesApproval ==
    ASSUME ClaimInv, TypeInv', CreatedOnce', NEW r \in Requests, OthersKeep(r), StaysTaken,
           req[r].pc = "audit", NEW row \in ApprovalType, approvals' = Append(approvals, row),
           row.step = req[r].at, row.rev = req[r].rev,
           outputs' = outputs, req'[r].pc # "audit",
           req'[r].pc \in Holding => req'[r].at = req[r].at /\ req'[r].rev = req[r].rev
    PROVE  ClaimInv'
<1> DEFINE new == Len(approvals) + 1
<1> USE DEF ClaimInv, OthersKeep, StaysTaken
<1>1. Outputting \subseteq Holding /\ "audit" \in Outputting
  BY DEF Outputting, Holding
<1>3. /\ DOMAIN approvals' = DOMAIN approvals \cup {new} /\ new \notin DOMAIN approvals
      /\ approvals'[new] = row /\ \A i \in DOMAIN approvals : approvals'[i] = approvals[i]
  BY AppendRow DEF TypeInv, RowsOK
<1>4. approvals'[new].step = req[r].at /\ approvals'[new].rev = req[r].rev
  BY <1>3
<1> HIDE DEF new
<1>5. HoldersTook'
  BY <1>1 DEF HoldersTook
<1>6. RowsTaken'
  BY <1>1, <1>3, <1>4 DEF RowsTaken, HoldersTook
<1>7. HoldersExclusive'
  BY <1>1 DEF HoldersExclusive, SameKey
<1>8. OutputsAhead'
  <2> SUFFICES ASSUME NEW q \in Requests, NEW i \in DOMAIN outputs, req'[q].pc \in Outputting
               PROVE  ~(outputs[i].step = req'[q].at /\ outputs[i].rev = req'[q].rev)
    BY DEF OutputsAhead
  <2> QED
    BY <1>1 DEF OutputsAhead
<1>9. AuditsAhead'
  <2> SUFFICES ASSUME NEW q \in Requests, NEW i \in DOMAIN approvals', req'[q].pc = "audit"
               PROVE  ~(approvals'[i].step = req'[q].at /\ approvals'[i].rev = req'[q].rev)
    BY DEF AuditsAhead
  <2>1. q # r /\ req'[q] = req[q]
    OBVIOUS
  <2>2. CASE i = new
    BY <1>1, <1>4, <2>1, <2>2 DEF HoldersExclusive, SameKey
  <2>3. CASE i \in DOMAIN approvals
    BY <1>3, <2>1, <2>3 DEF AuditsAhead
  <2> QED
    BY <1>3, <2>2, <2>3
<1>10. ApprovalsExclusive'
  BY <1>3, <1>4 DEF ApprovalsExclusive, AuditsAhead
<1> QED
  BY <1>5, <1>6, <1>7, <1>8, <1>9, <1>10 DEF OutputsExclusive

(***************************************************************************)
(* How the actions move a request, and what they do to taken revisions     *)
(***************************************************************************)
LEMMA GotoEffect ==
    ASSUME TypeInv, NEW r \in Requests, NEW label, Goto(r, label)
    PROVE  /\ OthersKeep(r)
           /\ req'[r].pc = label /\ req'[r].at = req[r].at /\ req'[r].rev = req[r].rev
  BY DEF Goto, TypeInv, OthersKeep, Request

Leaves(r) ==
    \/ Reply(r)
    \/ Arm(r)
    \/ \E label \in {"arm_report", "arm_gate", "arm_current", "mark"} : \E s, m :
          ArmTo(r, label, s, m)

LEMMA LeaveEffect ==
    ASSUME TypeInv, NEW r \in Requests, Leaves(r)
    PROVE  OthersKeep(r) /\ req'[r].pc \notin Holding \cup {"create_steps"}
<1>1. CASE Reply(r)
  BY <1>1 DEF Reply, Idle, TypeInv, OthersKeep, Holding
<1>2. CASE Arm(r)
  BY <1>2 DEF Arm, Idle, TypeInv, OthersKeep, Holding
<1>3. ASSUME NEW label \in {"arm_report", "arm_gate", "arm_current", "mark"}, NEW s, NEW m,
             ArmTo(r, label, s, m)
      PROVE  OthersKeep(r) /\ req'[r].pc \notin Holding \cup {"create_steps"}
  <2>1. OthersKeep(r) /\ req'[r].pc = label
    BY <1>3 DEF ArmTo, Idle, TypeInv, OthersKeep
  <2> QED
    BY <2>1 DEF Holding
<1> QED
  BY <1>1, <1>2, <1>3 DEF Leaves

LEMMA SameRowsStayTaken == steps' = steps => StaysTaken /\ Orders' = Orders
  BY DEF StaysTaken, Taken, Orders

LEMMA SetStepStaysTaken ==
    ASSUME TypeInv, NEW s \in Orders, NEW x, SetStep(s, x),
           \/ x \notin {"pending", "waiting_for_approval"}
           \/ steps[s].status = "pending"
    PROVE  StaysTaken /\ Orders' = Orders
<1>1. steps \in [DOMAIN def -> StepType]
  BY DEF TypeInv, RowsOK, Orders
<1>2. DOMAIN steps' = DOMAIN steps /\ \A t \in Orders : steps'[t].rev = steps[t].rev
         /\ (t # s => steps'[t].status = steps[t].status)
  BY <1>1 DEF SetStep, Orders, StepType
<1>3. steps'[s].status = x
  BY <1>1 DEF SetStep, Orders, StepType
<1> QED
  BY <1>2, <1>3 DEF StaysTaken, Taken, Orders

\* A claim takes the revision the step is in.
LEMMA SetStepTakes ==
    ASSUME TypeInv, NEW s \in Orders, NEW n, n = steps[s].rev,
           NEW x, SetStep(s, x), x \notin {"pending", "waiting_for_approval"}
    PROVE  Taken(s, n)'
<1>1. steps \in [DOMAIN def -> StepType]
  BY DEF TypeInv, RowsOK, Orders
<1>2. DOMAIN steps' = DOMAIN steps /\ steps'[s].status = x /\ steps'[s].rev = n /\ n \in Nat
  BY <1>1 DEF SetStep, Orders, StepType
<1> QED
  BY <1>2 DEF Taken, Orders

\* Requests that are under way belong to a run that was inserted.
LEMMA KeepsCreated ==
    ASSUME TypeInv, CreatedOnce, NEW r \in Requests, OthersKeep(r), Orders' = Orders,
           run.status # "none", run'.status # "none", req'[r].pc # "create_steps"
    PROVE  CreatedOnce'
  BY DEF CreatedOnce, OthersKeep

\* A request that goes on without claiming anything: what it holds afterwards
\* it held before.
GoesOn(r) ==
    /\ OthersKeep(r)
    /\ req'[r].pc # "create_steps"
    /\ req'[r].pc \in Holding =>
          /\ req[r].pc \in Holding /\ req'[r].at = req[r].at /\ req'[r].rev = req[r].rev
          /\ req'[r].pc \in Outputting => req[r].pc \in Outputting
          /\ req'[r].pc = "audit" => req[r].pc = "audit"

LEMMA OrdinaryStep ==
    ASSUME ClaimInv, TypeInv', NEW r \in Requests, GoesOn(r), StaysTaken, Orders' = Orders,
           run.status # "none", run'.status # "none",
           outputs' = outputs, approvals' = approvals
    PROVE  ClaimInv'
<1>1. CreatedOnce'
  BY KeepsCreated DEF ClaimInv, GoesOn
<1> QED
  BY <1>1, NoClaim DEF GoesOn

LEMMA LeaversGoOn == ASSUME TypeInv, NEW r \in Requests, Leaves(r) PROVE GoesOn(r)
  BY LeaveEffect DEF GoesOn

LEMMA GotoGoesOn ==
    ASSUME TypeInv, NEW r \in Requests, NEW label, Goto(r, label), label # "create_steps",
           label \in Holding => req[r].pc \in Holding,
           label \in Outputting => req[r].pc \in Outputting,
           label = "audit" => req[r].pc = "audit"
    PROVE  GoesOn(r)
  BY GotoEffect DEF GoesOn

LEMMA UnderWay ==
    ASSUME ClaimInv, NEW r \in Requests, req[r].pc # "idle"
    PROVE  run.status # "none"
  BY DEF ClaimInv, CreatedOnce

(***************************************************************************)
(* The actions                                                             *)
(***************************************************************************)
LEMMA StartingKeepsClaims ==
    ASSUME ClaimInv, TypeInv', NEW r \in Requests, Starting(r)
    PROVE  ClaimInv'
<1>0. TypeInv /\ CreatedOnce /\ HoldersTook /\ RowsTaken
  BY DEF ClaimInv
<1>1. CASE Start(r)
  <2>1. Orders = {} /\ Orders' = {}
    <3>1. def = << >> /\ DOMAIN << >> = {}
      BY <1>0, <1>1 DEF Start, TypeInv, RowsOK
    <3>2. steps \in [{} -> StepType] \cup {<< >>}
      BY <1>0, <3>1 DEF TypeInv, RowsOK
    <3>3. \A f \in [{} -> StepType] : f = << >>
      OBVIOUS
    <3> QED
      BY <1>1, <3>1, <3>2, <3>3 DEF Start, Orders
  <2>2. \A q \in Requests : req[q].pc = "idle"
    BY <1>0, <1>1 DEF Start, CreatedOnce
  <2>3. OthersKeep(r) /\ req'[r].pc = "create_steps"
    BY <1>0, <1>1, GotoEffect DEF Start
  <2>4. run'.status = "in_progress"
    BY <1>0, <1>1 DEF Start, TypeInv, RowsOK, RunType
  <2>5. CreatedOnce'
    BY <2>1, <2>2, <2>3, <2>4 DEF CreatedOnce, OthersKeep
  <2>6. StaysTaken
    BY <1>1, SameRowsStayTaken DEF Start
  <2> QED
    BY <1>1, <2>3, <2>5, <2>6, NoClaim DEF Start, Holding
<1>2. CASE CreateSteps(r)
  <2>1. Orders = {}
    BY <1>0, <1>2 DEF CreateSteps, At, CreatedOnce
  <2>2. StaysTaken
    BY <2>1 DEF StaysTaken, Taken
  <2>3. OthersKeep(r) /\ req'[r].pc \notin Holding \cup {"create_steps"}
    BY <1>0, <1>2, LeaveEffect DEF CreateSteps, Leaves
  <2>4. run'.status # "none"
    BY <1>2, UnderWay DEF CreateSteps, At
  <2>5. CreatedOnce'
    <3>1. ASSUME NEW q \in Requests PROVE req'[q].pc # "create_steps"
      <4>1. CASE q = r
        BY <2>3, <4>1
      <4>2. CASE q # r
        BY <1>0, <1>2, <2>3, <4>2 DEF CreateSteps, At, CreatedOnce, OthersKeep
      <4> QED
        BY <4>1, <4>2
    <3> QED
      BY <2>4, <3>1 DEF CreatedOnce
  <2> QED
    BY <1>2, <2>2, <2>3, <2>5, NoClaim DEF CreateSteps
<1> QED
  BY <1>1, <1>2 DEF Starting

LEMMA AdvancingKeepsClaims ==
    ASSUME ClaimInv, TypeInv', NEW r \in Requests, Advancing(r)
    PROVE  ClaimInv'
<1> DEFINE s == req[r].at
<1>0. TypeInv
  BY DEF ClaimInv
<1>1. CASE Advance(r)
  <2>1. GoesOn(r) /\ run.status # "none"
    BY <1>0, <1>1 DEF Advance, GoesOn, OthersKeep, TypeInv, Idle, Holding
  <2> QED
    BY <1>1, <2>1, SameRowsStayTaken, OrdinaryStep DEF Advance, tables
<1>2. CASE ReadStep(r)
  <2>1. GoesOn(r)
    BY <1>0, <1>2, LeaversGoOn, GotoGoesOn DEF ReadStep, Leaves, Holding, Outputting
  <2>2. run.status # "none"
    BY <1>2, UnderWay DEF ReadStep, At
  <2> QED
    BY <1>2, <2>1, <2>2, SameRowsStayTaken, OrdinaryStep DEF ReadStep, tables
<1>3. CASE Skip(r)
  <2>1. GoesOn(r) /\ run.status # "none"
    BY <1>0, <1>3, UnderWay, LeaversGoOn DEF Skip, At, Leaves
  <2>2. StaysTaken /\ Orders' = Orders
    BY <1>0, <1>3, WorksOnStep, SetStepStaysTaken DEF Skip, At, WithoutStep
  <2> QED
    BY <1>3, <2>1, <2>2, OrdinaryStep DEF Skip
<1>4. CASE Begin(r)
  <2>1. s \in Orders /\ s \in Nat /\ steps[s].rev \in Nat /\ run.status # "none"
    BY <1>0, <1>4, WorksOnStep DEF Begin, At, WithoutStep
  <2>2. OthersKeep(r) /\ req'[r].pc = "execute" /\ req'[r].at = s /\ req'[r].rev = steps[s].rev
    BY <1>0, <1>4 DEF Begin, OthersKeep, TypeInv, Request
  <2>3. StaysTaken /\ Orders' = Orders
    BY <1>0, <1>4, <2>1, SetStepStaysTaken DEF Begin
  <2>4. CreatedOnce'
    BY <1>4, <2>1, <2>2, <2>3, KeepsCreated DEF Begin, ClaimInv
  <2>5. PICK t, n : t = s /\ n = steps[s].rev
    OBVIOUS
  <2>6. ~Taken(t, n)
    BY <1>4, <2>1, <2>5 DEF Begin, Taken
  <2>7. Taken(t, n)'
    BY <1>0, <1>4, <2>1, <2>5, SetStepTakes DEF Begin
  <2> QED
    BY <1>4, <2>2, <2>3, <2>4, <2>5, <2>6, <2>7, Claims DEF Begin
<1>5. CASE Execute(r)
  <2>1. GoesOn(r) /\ run.status # "none"
    <3>1. OthersKeep(r) /\ req'[r].pc \in {"complete", "note", "fail"}
             /\ req'[r].at = req[r].at /\ req'[r].rev = req[r].rev
      <4>1. CASE \E label \in {"complete", "note", "fail"} : Goto(r, label)
        BY <1>0, <4>1, GotoEffect
      <4>2. CASE \E e : req' = [req EXCEPT ![r].pc = "complete", ![r].ent = e]
        BY <1>0, <4>2 DEF OthersKeep, TypeInv, Request
      <4> QED
        BY <1>5, <4>1, <4>2 DEF Execute, Generate, RecordContext, ReadGenerated,
         ReadQaFact, VerifyGeneratedDna, VerifyApproved, Throw
    <3>2. req[r].pc = "execute"
      BY <1>5 DEF Execute, At
    <3> QED
      BY <3>1, <3>2, UnderWay DEF GoesOn, Holding, Outputting
  <2> QED
    BY <1>5, <2>1, SameRowsStayTaken, OrdinaryStep DEF Execute
<1>6. CASE Complete(r)
  <2>1. GoesOn(r) /\ run.status # "none"
    BY <1>0, <1>6, UnderWay, LeaversGoOn, GotoGoesOn
       DEF Complete, At, Leaves, Holding, Outputting
  <2>2. StaysTaken /\ Orders' = Orders
    BY <1>0, <1>6, WorksOnStep, SetStepStaysTaken, SameRowsStayTaken
       DEF Complete, At, WithoutStep
  <2> QED
    BY <1>6, <2>1, <2>2, OrdinaryStep DEF Complete
<1>7. CASE SkipWithNote(r)
  <2>1. GoesOn(r) /\ run.status # "none"
    BY <1>0, <1>7, UnderWay, LeaversGoOn DEF SkipWithNote, At, Leaves
  <2>2. StaysTaken /\ Orders' = Orders
    BY <1>0, <1>7, WorksOnStep, SetStepStaysTaken, SameRowsStayTaken
       DEF SkipWithNote, At, WithoutStep
  <2> QED
    BY <1>7, <2>1, <2>2, OrdinaryStep DEF SkipWithNote
<1>8. CASE RecordOutput(r)
  <2>1. run.status # "none" /\ req[r].pc \in Outputting
    BY <1>8, UnderWay DEF RecordOutput, At, Outputting
  <2>2. OthersKeep(r) /\ req'[r].pc \notin Outputting \cup {"create_steps"}
          /\ (req'[r].pc \in Holding => req'[r].at = req[r].at /\ req'[r].rev = req[r].rev)
    <3>1. CASE Goto(r, "merge")
      BY <1>0, <3>1, GotoEffect DEF Outputting
    <3>2. CASE Arm(r)
      BY <1>0, <3>2, LeaveEffect DEF Leaves, Holding, Outputting
    <3> QED
      BY <1>8, <3>1, <3>2 DEF RecordOutput
  <2>3. StaysTaken /\ Orders' = Orders
    BY <1>8, SameRowsStayTaken DEF RecordOutput
  <2>4. CreatedOnce'
    BY <1>8, <2>1, <2>2, <2>3, KeepsCreated DEF RecordOutput, ClaimInv
  <2> QED
    BY <1>8, <2>1, <2>2, <2>3, <2>4, WritesOutput DEF RecordOutput
<1>9. CASE MergeOutput(r)
  <2>1. GoesOn(r) /\ run.status # "none" /\ run'.status = run.status
    BY <1>0, <1>9, UnderWay, LeaversGoOn DEF MergeOutput, At, Leaves, TypeInv, RowsOK, RunType
  <2> QED
    BY <1>9, <2>1, SameRowsStayTaken, OrdinaryStep DEF MergeOutput
<1>10. CASE FailStep(r)
  <2>1. GoesOn(r) /\ run.status # "none"
    BY <1>0, <1>10, UnderWay, LeaversGoOn DEF FailStep, At, Leaves
  <2>2. StaysTaken /\ Orders' = Orders
    BY <1>0, <1>10, WorksOnStep, SetStepStaysTaken, SameRowsStayTaken
       DEF FailStep, At, WithoutStep
  <2> QED
    BY <1>10, <2>1, <2>2, OrdinaryStep DEF FailStep
<1> QED
  BY <1>1, <1>2, <1>3, <1>4, <1>5, <1>6, <1>7, <1>8, <1>9, <1>10 DEF Advancing

LEMMA ArmingKeepsClaims ==
    ASSUME ClaimInv, TypeInv', NEW r \in Requests, Arming(r)
    PROVE  ClaimInv'
<1>0. TypeInv /\ run.status # "none"
  BY UnderWay DEF ClaimInv, Arming, ArmNextStep, ReadReport, OpenGate, SetCurrentStep, MarkRun, At
<1>1. CASE ArmNextStep(r)
  <2>1. GoesOn(r)
    BY <1>0, <1>1, LeaversGoOn DEF ArmNextStep, Leaves
  <2> QED
    BY <1>0, <1>1, <2>1, SameRowsStayTaken, OrdinaryStep DEF ArmNextStep, tables
<1>2. CASE ReadReport(r)
  <2>1. GoesOn(r)
    BY <1>0, <1>2, LeaversGoOn DEF ReadReport, Leaves
  <2> QED
    BY <1>0, <1>2, <2>1, SameRowsStayTaken, OrdinaryStep DEF ReadReport, tables
<1>3. CASE OpenGate(r)
  <2>1. GoesOn(r)
    BY <1>0, <1>3, GotoGoesOn DEF OpenGate, Holding, Outputting
  <2>2. StaysTaken /\ Orders' = Orders
    BY <1>0, <1>3, WorksOnStep, SetStepStaysTaken, SameRowsStayTaken
       DEF OpenGate, At, WithoutStep
  <2> QED
    BY <1>0, <1>3, <2>1, <2>2, OrdinaryStep DEF OpenGate
<1>4. CASE SetCurrentStep(r)
  <2>1. GoesOn(r)
    BY <1>0, <1>4, GotoGoesOn DEF SetCurrentStep, Holding, Outputting
  <2>2. run'.status = run.status
    BY <1>0, <1>4 DEF SetCurrentStep, TypeInv, RowsOK, RunType
  <2> QED
    BY <1>0, <1>4, <2>1, <2>2, SameRowsStayTaken, OrdinaryStep DEF SetCurrentStep
<1>5. CASE MarkRun(r)
  <2>1. GoesOn(r)
    BY <1>0, <1>5, LeaversGoOn DEF MarkRun, Leaves
  <2>2. run'.status # "none"
    BY <1>0, <1>5 DEF MarkRun, At, TypeInv, RowsOK, RunType, LocalOK, Markers
  <2> QED
    BY <1>0, <1>5, <2>1, <2>2, SameRowsStayTaken, OrdinaryStep DEF MarkRun
<1> QED
  BY <1>1, <1>2, <1>3, <1>4, <1>5 DEF Arming

LEMMA DecidingKeepsClaims ==
    ASSUME ClaimInv, TypeInv', NEW r \in Requests, Deciding(r)
    PROVE  ClaimInv'
<1> DEFINE s == req[r].at
<1>0. TypeInv /\ run.status # "none"
  BY UnderWay DEF ClaimInv, Deciding, ReceiveDecision, LoadGate, FindEntity, DecideEntity,
                  ClaimGate, RecordDecision, RecordApprovedOutput, ResetForRevision, Reopen, At
<1>1. CASE ReceiveDecision(r)
  <2>1. GoesOn(r)
    BY <1>0, <1>1 DEF ReceiveDecision, GoesOn, OthersKeep, TypeInv, Idle, Holding
  <2> QED
    BY <1>0, <1>1, <2>1, SameRowsStayTaken, OrdinaryStep DEF ReceiveDecision, tables
<1>2. CASE LoadGate(r)
  <2>1. GoesOn(r)
    BY <1>0, <1>2 DEF LoadGate, GoesOn, OthersKeep, TypeInv, Request, Holding
  <2> QED
    BY <1>0, <1>2, <2>1, SameRowsStayTaken, OrdinaryStep DEF LoadGate, tables
<1>3. CASE FindEntity(r)
  <2>1. \E e : \/ req' = [req EXCEPT ![r].pc = "decide", ![r].ent = e]
              \/ req' = [req EXCEPT ![r].pc = "claim", ![r].ent = e]
    BY <1>3 DEF FindEntity
  <2>2. GoesOn(r)
    BY <1>0, <2>1 DEF GoesOn, OthersKeep, TypeInv, Request, Holding
  <2> QED
    BY <1>0, <1>3, <2>2, SameRowsStayTaken, OrdinaryStep DEF FindEntity, tables
<1>4. CASE DecideEntity(r)
  <2>1. GoesOn(r)
    BY <1>0, <1>4, GotoGoesOn DEF DecideEntity, Holding, Outputting
  <2> QED
    BY <1>0, <1>4, <2>1, SameRowsStayTaken, OrdinaryStep DEF DecideEntity
<1>5. CASE ClaimGate(r)
  <2>1. /\ s \in Orders /\ steps[s].rev \in Nat
        /\ req[r].decision \notin {"pending", "waiting_for_approval"}
    BY <1>0, <1>5, WorksOnStep DEF ClaimGate, At, WithoutStep, TypeInv, Request
  <2>2. OthersKeep(r) /\ req'[r].pc = "audit" /\ req'[r].at = s /\ req'[r].rev = steps[s].rev
    BY <1>0, <1>5 DEF ClaimGate, OthersKeep, TypeInv, Request
  <2>3. StaysTaken /\ Orders' = Orders
    BY <1>0, <1>5, <2>1, SetStepStaysTaken DEF ClaimGate
  <2>4. CreatedOnce'
    BY <1>0, <1>5, <2>2, <2>3, KeepsCreated DEF ClaimGate, ClaimInv
  <2>5. PICK t, n : t = s /\ n = steps[s].rev
    OBVIOUS
  <2>6. ~Taken(t, n)
    BY <1>5, <2>1, <2>5 DEF ClaimGate, Taken
  <2>7. Taken(t, n)'
    BY <1>0, <1>5, <2>1, <2>5, SetStepTakes DEF ClaimGate
  <2> QED
    BY <1>5, <2>2, <2>3, <2>4, <2>5, <2>6, <2>7, Claims DEF ClaimGate
<1>6. CASE RecordDecision(r)
  <2> DEFINE row == [step |-> s, rev |-> req[r].rev, seen |-> req[r].seen,
                     ent |-> req[r].ent, decision |-> req[r].decision]
  <2>1. req[r].pc = "audit"
    BY <1>6 DEF RecordDecision, At
  <2>2. row \in ApprovalType
    BY <1>0, <2>1 DEF ApprovalType, TypeInv, LocalOK, Request, Deciders
  <2>3. OthersKeep(r) /\ req'[r].pc \notin {"audit", "create_steps"}
          /\ (req'[r].pc \in Holding => req'[r].at = req[r].at /\ req'[r].rev = req[r].rev)
    <3>1. CASE Goto(r, "approved_output") \/ Goto(r, "reset")
      BY <1>0, <3>1, GotoEffect
    <3>2. CASE ArmTo(r, "mark", s, "failed")
      BY <1>0, <3>2, LeaveEffect DEF Leaves, Holding
    <3> QED
      BY <1>6, <3>1, <3>2 DEF RecordDecision
  <2>4. StaysTaken /\ Orders' = Orders
    BY <1>6, SameRowsStayTaken DEF RecordDecision
  <2>5. CreatedOnce'
    BY <1>0, <1>6, <2>3, <2>4, KeepsCreated DEF RecordDecision, ClaimInv
  <2>6. approvals' = Append(approvals, row) /\ outputs' = outputs
    BY <1>6 DEF RecordDecision
  <2>7. row.step = req[r].at /\ row.rev = req[r].rev
    OBVIOUS
  <2> HIDE DEF row
  <2> QED
    BY <2>1, <2>2, <2>3, <2>4, <2>5, <2>6, <2>7, WritesApproval
<1>7. CASE RecordApprovedOutput(r)
  <2>1. req[r].pc \in Outputting
    BY <1>7 DEF RecordApprovedOutput, At, Outputting
  <2>2. OthersKeep(r) /\ req'[r].pc \notin Holding \cup {"create_steps"}
    BY <1>0, <1>7, LeaveEffect DEF RecordApprovedOutput, Leaves
  <2>3. StaysTaken /\ Orders' = Orders
    BY <1>7, SameRowsStayTaken DEF RecordApprovedOutput
  <2>4. CreatedOnce'
    BY <1>0, <1>7, <2>2, <2>3, KeepsCreated DEF RecordApprovedOutput, ClaimInv
  <2>5. Outputting \subseteq Holding
    BY DEF Outputting, Holding
  <2> QED
    BY <1>7, <2>1, <2>2, <2>3, <2>4, <2>5, WritesOutput DEF RecordApprovedOutput
<1>8. CASE ResetForRevision(r)
  <2>1. GoesOn(r)
    BY <1>0, <1>8, GotoGoesOn DEF ResetForRevision, Holding, Outputting
  <2>2. /\ s \in Orders
        /\ \A t \in Orders : steps[t].rev \in Nat
    <3>1. s \in Orders
      BY <1>0, <1>8, WorksOnStep DEF ResetForRevision, At, WithoutStep
    <3>2. steps \in [DOMAIN def -> StepType]
      BY <1>0, <3>1 DEF TypeInv, RowsOK, Orders
    <3> QED
      BY <3>1, <3>2 DEF Orders, StepType
  <2>3. DOMAIN steps' = Orders
    BY <1>8 DEF ResetForRevision
  <2>4. ASSUME NEW t \in Orders
        PROVE  steps'[t] = steps[t] \/ steps'[t].rev = steps[t].rev + 1
    BY <1>8 DEF ResetForRevision
  <2>5. Orders' = Orders
    BY <2>3 DEF Orders
  <2>6. StaysTaken
    <3> SUFFICES ASSUME NEW t, NEW n, Taken(t, n) PROVE Taken(t, n)'
      BY DEF StaysTaken
    <3>1. t \in Orders /\ n \in Nat /\ (n < steps[t].rev \/ n = steps[t].rev)
      BY DEF Taken
    <3>2. CASE steps'[t] = steps[t]
      BY <2>5, <3>2 DEF Taken
    <3>3. CASE steps'[t].rev = steps[t].rev + 1
      BY <2>2, <2>5, <3>1, <3>3 DEF Taken
    <3> QED
      BY <2>4, <3>1, <3>2, <3>3
  <2> QED
    BY <1>0, <1>8, <2>1, <2>5, <2>6, OrdinaryStep DEF ResetForRevision
<1>9. CASE Reopen(r)
  <2>1. GoesOn(r)
    BY <1>0, <1>9, LeaversGoOn DEF Reopen, Leaves
  <2>2. run'.status # "none"
    BY <1>0, <1>9 DEF Reopen, TypeInv, RowsOK, RunType
  <2> QED
    BY <1>0, <1>9, <2>1, <2>2, SameRowsStayTaken, OrdinaryStep DEF Reopen
<1> QED
  BY <1>1, <1>2, <1>3, <1>4, <1>5, <1>6, <1>7, <1>8, <1>9 DEF Deciding

LEMMA OtherStepsKeepClaims ==
    ASSUME ClaimInv, TypeInv', NEW r \in Requests,
           Refuse(r) \/ Cancel(r) \/ ReviewDirectly(r) \/ Interrupt(r)
    PROVE  ClaimInv'
<1>0. TypeInv
  BY DEF ClaimInv
<1>1. CASE Refuse(r) \/ Interrupt(r)
  <2>1. GoesOn(r) /\ run.status # "none"
    BY <1>0, <1>1, UnderWay, LeaversGoOn DEF Refuse, Interrupt, At, Leaves
  <2> QED
    BY <1>1, <2>1, SameRowsStayTaken, OrdinaryStep DEF Refuse, Interrupt, tables
<1>2. CASE Cancel(r) \/ ReviewDirectly(r)
  <2>1. CreatedOnce'
    <3>1. req' = req /\ steps' = steps
      BY <1>2 DEF Cancel, ReviewDirectly
    <3>2. run'.status = "none" => run.status = "none"
      BY <1>0, <1>2 DEF Cancel, ReviewDirectly, TypeInv, RowsOK, RunType
    <3> QED
      BY <3>1, <3>2 DEF ClaimInv, CreatedOnce, Orders
  <2> QED
    BY <1>2, <2>1, SameRowsStayTaken, NoClaim DEF Cancel, ReviewDirectly, OthersKeep
<1> QED
  BY <1>1, <1>2

LEMMA InitClaims == Init => ClaimInv
<1> SUFFICES ASSUME Init PROVE ClaimInv
  OBVIOUS
<1>1. \A r \in Requests : req[r].pc = "idle"
  BY DEF Init, Idle
<1>2. DOMAIN outputs = {} /\ DOMAIN approvals = {}
  BY DEF Init
<1> QED
  BY <1>1, <1>2, InitTyped
     DEF ClaimInv, CreatedOnce, HoldersTook, RowsTaken, HoldersExclusive, OutputsAhead,
         AuditsAhead, OutputsExclusive, ApprovalsExclusive, Holding, Outputting

LEMMA ClaimInvStep == ClaimInv /\ [Next]_vars => ClaimInv'
<1> SUFFICES ASSUME ClaimInv, [Next]_vars PROVE ClaimInv'
  OBVIOUS
<1>0. TypeInv'
  BY TypeInvStep DEF ClaimInv
<1>1. CASE Next
  <2>1. PICK r \in Requests :
           \/ Starting(r) \/ Advancing(r) \/ Arming(r) \/ Deciding(r)
           \/ Refuse(r) \/ Cancel(r) \/ ReviewDirectly(r) \/ Interrupt(r)
    BY <1>1 DEF Next
  <2> QED
    BY <1>0, <2>1, StartingKeepsClaims, AdvancingKeepsClaims, ArmingKeepsClaims,
       DecidingKeepsClaims, OtherStepsKeepClaims
<1>2. CASE UNCHANGED vars
  BY <1>0, <1>2 DEF vars, ClaimInv, CreatedOnce, HoldersTook, RowsTaken, HoldersExclusive,
                    OutputsAhead, AuditsAhead, OutputsExclusive, ApprovalsExclusive, Taken,
                    Orders, SameKey
<1> QED
  BY <1>1, <1>2

LEMMA ClaimInvAlways == Spec => []ClaimInv
  BY InitClaims, ClaimInvStep, PTL DEF Spec

\* begin() is an exclusive claim for any number of requests: no revision of a
\* step is executed by two of them, and none leaves two output rows.
THEOREM StepsRunOnce == Spec => []OneExecutionPerRevision
<1>1. ClaimInv => OneExecutionPerRevision
  <2> SUFFICES ASSUME ClaimInv PROVE OneExecutionPerRevision
    OBVIOUS
  <2>1. \A r \in Requests : Executing(r) => req[r].pc \in Holding
    BY DEF Executing, Holding
  <2> QED
    BY <2>1 DEF ClaimInv, OneExecutionPerRevision, HoldersExclusive, OutputsExclusive, SameKey
<1> QED
  BY <1>1, ClaimInvAlways, PTL

\* approve() and reject() of the step row are exclusive claims for any number
\* of reviewers: a revision of a gate never gets a second approval row.
THEOREM GatesDecidedOnce == Spec => []OneDecisionPerRevision
<1>1. ClaimInv => OneDecisionPerRevision
  BY DEF ClaimInv, OneDecisionPerRevision, ApprovalsExclusive
<1> QED
  BY <1>1, ClaimInvAlways, PTL
=============================================================================
