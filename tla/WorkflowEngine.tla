--------------------------- MODULE WorkflowEngine ---------------------------
(***************************************************************************)
(* One workflow run of Grafista AI Studio as apps/api/src/workflows/       *)
(* engine.ts drives it.  The run, its step rows, the entities its steps    *)
(* generate, the output rows and the approval rows are PostgreSQL tables;  *)
(* each statement is atomic and no transaction spans two of them.  HTTP    *)
(* requests (one slot of Requests each) execute the engine's functions one *)
(* statement per step, so the statements of concurrent requests interleave *)
(* in every order, and a request may die between any two of them.          *)
(*                                                                         *)
(* A request the engine refuses on its first read (404, 409) changes       *)
(* nothing and is a stuttering step; later refusals are Refuse.            *)
(***************************************************************************)
EXTENDS Naturals, Sequences, FiniteSets

CONSTANTS
    Requests,       \* request slots: at most this many requests in flight
    MayIssue,       \* [Requests -> SUBSET Operations]: who uses which endpoint
    Catalog,        \* workflow definitions: sequences of StepDefinition records
    MaxRevisions,   \* bound: reviewers reject a gate at most this often
    Restarts        \* TRUE: a request may die between two of its statements

Operations == {"start", "advance", "approve", "reject", "cancel", "review"}

(* Step bindings (step-bindings.ts).  "context" stands for the recorders   *)
(* that read no generated entity, "read" for those and the QA facts that   *)
(* need one, "verify" for those that need it approved.                     *)
Kinds == {"context", "generate", "read", "verify", "skip", "gate", "future"}
\* Mutant: a feature that is not implemented is dispatched like any other.
MutantExecutable == {"context", "generate", "read", "verify", "future"}
Executable == {"context", "generate", "read", "verify"}
Gates == {"design_dna", "content_idea", "design_brief", "layout_plan",
          "creative_qa", "generated_output", "brand_profile_future"}

\* returnTo is N of on_reject "return_to_step_N", 0 for any other on_reject.
StepDefinition ==
    [kind : Kinds, gate : Gates \cup {"none"}, returnTo : Nat]

ASSUME CatalogAssumption ==
    \A d \in Catalog : d \in Seq(StepDefinition) /\ d # << >>
\* workflows/*.json: one gate each; where a rejection of a gate that can be decided
\* returns to a step, that step is not behind the gate and something is regenerated.
ASSUME GatesAssumption ==
    \A d \in Catalog : \A g, s \in DOMAIN d : d[g].kind = "gate" =>
       /\ d[s].kind = "gate" => s = g
       /\ d[g].returnTo # 0 /\ d[g].gate # "brand_profile_future" =>
             /\ d[g].returnTo <= g
             /\ \E t \in DOMAIN d : t <= d[g].returnTo /\ d[t].kind = "generate"
ASSUME RequestsAssumption ==
    /\ MayIssue \in [Requests -> SUBSET Operations]
    /\ MaxRevisions \in Nat
    /\ Restarts \in BOOLEAN

RunStatus == {"none", "in_progress", "waiting_for_approval", "completed",
              "failed", "cancelled", "qa_failed", "blocked_future_feature"}
StepStatus == {"pending", "in_progress", "waiting_for_approval", "approved",
               "rejected", "skipped", "completed", "failed"}
EntityStatus == {"generated", "approved", "needs_revision", "rejected"}

VARIABLES
    run,        \* workflow_runs row: status, current_step_id (0: NULL), output_json
    def,        \* its definition_snapshot
    steps,      \* workflow_steps rows by order: status and revision_count
    entities,   \* generated entities in creation order: status, low (QA score < 50)
    outputs,    \* workflow_step_outputs rows, oldest first
    approvals,  \* workflow_approvals rows, oldest first
    req         \* control point and local variables of every request slot

vars == <<run, def, steps, entities, outputs, approvals, req>>
tables == <<run, def, steps, entities, outputs, approvals>>

Orders == DOMAIN steps

(***************************************************************************)
(* Request-local state.  at: the step the request works on.  rev: its      *)
(* revision when begun or claimed.  seen: its revision when the gate was   *)
(* loaded.  ent: the entity handled.  out: output_json.designBriefId as    *)
(* first read.  mark: the run transition to apply last.                    *)
(***************************************************************************)
PCs == {"idle", "create_steps", "advance", "skip", "begin", "execute",
        "complete", "note", "output", "merge", "fail", "arm", "arm_report",
        "arm_gate", "arm_current", "mark", "load_gate", "find_entity",
        "decide", "claim", "audit", "approved_output", "reset", "reopen"}
Marks == {"none", "in_progress", "waiting_for_approval", "completed",
          "qa_failed", "blocked_future_feature", "failed"}

Idle == [pc |-> "idle", at |-> 0, rev |-> 0, seen |-> 0, ent |-> 0,
         out |-> 0, mark |-> "none", decision |-> "none"]

Goto(r, label) == req' = [req EXCEPT ![r].pc = label]
Reply(r) == req' = [req EXCEPT ![r] = Idle]
At(r, label) == req[r].pc = label
\* Arming starts from scratch: it uses nothing of what the request read before.
Arm(r) == req' = [req EXCEPT ![r] = [Idle EXCEPT !.pc = "arm"]]
ArmTo(r, label, s, m) ==
    req' = [req EXCEPT ![r] = [Idle EXCEPT !.pc = label, !.at = s, !.mark = m]]

SetStep(s, status) == steps' = [steps EXCEPT ![s].status = status]

Pending == {s \in Orders : steps[s].status = "pending"}
\* Mutant: the step rows are taken in descending order.
MutantNextPending == {s \in Pending : \A t \in Pending : t <= s}
\* The first pending step, none when no step is pending.
NextPending == {s \in Pending : \A t \in Pending : s <= t}

(***************************************************************************)
(* Entities and the gates' domain decisions                                *)
(***************************************************************************)
Linked == {outputs[i].ent : i \in DOMAIN outputs}
Newest == IF outputs = << >> THEN {} ELSE {outputs[Len(outputs)].ent}

\* The entities a decision on the gate may be about.
Candidates(gate, out) ==
    CASE gate = "design_dna"   -> {Len(entities)} \ {0}
      [] gate = "design_brief" -> IF out # 0 THEN {out} ELSE Newest
      [] gate = "creative_qa"  -> Newest
      [] OTHER                 -> Linked

\* Statuses the guarded UPDATE of the gate's repository accepts.
ApproveFrom(gate) ==
    CASE gate = "design_dna" -> {"generated"}
      [] gate \in {"layout_plan", "creative_qa", "generated_output"}
            -> {"generated", "needs_revision"}
      [] OTHER -> EntityStatus
RejectFrom(gate) ==
    CASE gate \in {"layout_plan", "creative_qa", "generated_output"} -> {"generated"}
      [] OTHER -> EntityStatus
\* A rejection with notes asks for a revision; DNA knows no other.
RejectTo(gate) ==
    IF gate = "design_dna" THEN {"needs_revision"} ELSE {"needs_revision", "rejected"}

\* The entity statuses after a decision, none when the guard refuses it.
Outcomes(gate, status, decision) ==
    IF decision = "approved"
    THEN IF status \in ApproveFrom(gate) THEN {"approved"} ELSE {}
    ELSE IF status \in RejectFrom(gate) THEN RejectTo(gate) ELSE {}

\* Every definition has at most one gate; its kind names what the steps generate.
GateOf(d) ==
    LET gates == {s \in DOMAIN d : d[s].kind = "gate"}
    IN  IF gates = {} THEN "none" ELSE d[CHOOSE s \in gates : TRUE].gate

\* Mutant: the N of return_to_step_N taken as an index counted from zero.
MutantRevisionTarget(literal) == literal + 1
\* resolveRevisionTargetOrder: the nearest step at or before the literal
\* target that really regenerates, else the literal target.
RevisionTarget(literal) ==
    LET regenerating == {s \in DOMAIN def : s <= literal /\ def[s].kind = "generate"}
    IN  IF regenerating = {} THEN literal
        ELSE CHOOSE s \in regenerating : \A t \in regenerating : t <= s

(***************************************************************************)
(* Starting a run                                                          *)
(***************************************************************************)
Init ==
    /\ run = [status |-> "none", current |-> 0, output |-> 0]
    /\ def = << >>
    /\ steps = << >>
    /\ entities = << >>
    /\ outputs = << >>
    /\ approvals = << >>
    /\ req = [r \in Requests |-> Idle]

Receives(r, op) == At(r, "idle") /\ op \in MayIssue[r]

Start(r) ==
    /\ Receives(r, "start")
    /\ run.status = "none"
    /\ run' = [run EXCEPT !.status = "in_progress"]
    /\ def' \in Catalog
    /\ Goto(r, "create_steps")
    /\ UNCHANGED <<steps, entities, outputs, approvals>>

CreateSteps(r) ==
    /\ At(r, "create_steps")
    /\ steps' = [s \in DOMAIN def |-> [status |-> "pending", rev |-> 0]]
    /\ Arm(r)
    /\ UNCHANGED <<run, def, entities, outputs, approvals>>

(***************************************************************************)
(* Advancing the current step                                              *)
(***************************************************************************)
Advance(r) ==
    /\ Receives(r, "advance")
    /\ run.status = "in_progress"
    /\ run.current # 0
    /\ req' = [req EXCEPT ![r] = [Idle EXCEPT !.pc = "advance", !.at = run.current,
                                              !.out = run.output]]
    /\ UNCHANGED tables

\* getByRunAndStepId, the self-heal of a step already done, and the dispatch.
ReadStep(r) ==
    LET s == req[r].at IN
    /\ At(r, "advance")
    /\ \/ /\ steps[s].status \in {"completed", "skipped"}
          /\ Arm(r)
       \/ /\ steps[s].status = "pending"
          /\ def[s].kind = "skip"
          /\ Goto(r, "skip")
       \/ /\ steps[s].status = "pending"
          /\ def[s].kind \in Executable
          /\ Goto(r, "begin")
    /\ UNCHANGED tables

\* 403 and 409 before the first write.
Refuse(r) ==
    LET s == req[r].at IN
    /\ \/ At(r, "advance") /\ steps[s].status \notin {"completed", "skipped"}
       \/ At(r, "skip")    /\ steps[s].status \notin {"pending", "in_progress"}
       \/ At(r, "begin")   /\ steps[s].status # "pending"
       \/ At(r, "load_gate")
       \/ At(r, "find_entity")
       \/ /\ At(r, "decide")
          /\ Outcomes(def[s].gate, entities[req[r].ent].status, req[r].decision) = {}
       \/ At(r, "claim") /\ steps[s].status # "waiting_for_approval"
    /\ Reply(r)
    /\ UNCHANGED tables

Skip(r) ==
    LET s == req[r].at IN
    /\ At(r, "skip")
    /\ steps[s].status \in {"pending", "in_progress"}
    /\ SetStep(s, "skipped")
    /\ Arm(r)
    /\ UNCHANGED <<run, def, entities, outputs, approvals>>

\* Mutant: begin without its WHERE status = 'pending'.
MutantBegin(r) ==
    LET s == req[r].at IN
    /\ At(r, "begin")
    /\ SetStep(s, "in_progress")
    /\ req' = [req EXCEPT ![r].pc = "execute", ![r].rev = steps[s].rev]
    /\ UNCHANGED <<run, def, entities, outputs, approvals>>

\* pending -> in_progress: of several requests only one gets the row.
Begin(r) ==
    LET s == req[r].at IN
    /\ At(r, "begin")
    /\ steps[s].status = "pending"
    /\ SetStep(s, "in_progress")
    /\ req' = [req EXCEPT ![r].pc = "execute", ![r].rev = steps[s].rev]
    /\ UNCHANGED <<run, def, entities, outputs, approvals>>

\* The services that generate: one entity stands for what they create.
Generate(r) ==
    /\ def[req[r].at].kind = "generate"
    /\ \E low \in (IF GateOf(def) = "creative_qa" THEN BOOLEAN ELSE {FALSE}) :
          entities' = Append(entities, [status |-> "generated", low |-> low])
    /\ req' = [req EXCEPT ![r].pc = "complete", ![r].ent = Len(entities) + 1]
\* Recorders of facts about the client, its files, the input and the run.
RecordContext(r) ==
    /\ def[req[r].at].kind = "context"
    /\ Goto(r, "complete")
    /\ UNCHANGED entities
\* Only the newest Design DNA counts, and only while nobody decided it.
VerifyGeneratedDna(r, e) ==
    /\ entities[e].status = "generated"
    /\ req' = [req EXCEPT ![r].pc = "complete", ![r].ent = e]
\* executeQaReportFact: a score of 80 needs no recommendations.
ReadQaFact(r) == Goto(r, "complete") \/ Goto(r, "note")
\* Recorders and QA facts about entities the run generated.
ReadGenerated(r) ==
    LET gate == GateOf(def) IN
    /\ def[req[r].at].kind = "read"
    /\ \E e \in Candidates(gate, req[r].out) :
          \/ gate \notin {"design_dna", "creative_qa"} /\ Goto(r, "complete")
          \/ gate = "creative_qa" /\ ReadQaFact(r)
          \/ gate = "design_dna" /\ VerifyGeneratedDna(r, e)
    /\ UNCHANGED entities
\* Recorders that go on only behind an approval.
VerifyApproved(r) ==
    LET gate == GateOf(def) IN
    /\ def[req[r].at].kind = "verify"
    /\ \E e \in Candidates(gate, req[r].out) :
          /\ entities[e].status = "approved"
          /\ req' = [req EXCEPT ![r].pc = "complete",
                        ![r].ent = IF gate \in {"design_dna", "design_brief"} THEN e ELSE 0]
    /\ UNCHANGED entities
\* Missing input or entities, an unapproved one, a failing AI call.
Throw(r) == Goto(r, "fail") /\ UNCHANGED entities

\* executeBinding
Execute(r) ==
    /\ At(r, "execute")
    /\ Generate(r) \/ RecordContext(r) \/ ReadGenerated(r) \/ VerifyApproved(r) \/ Throw(r)
    /\ UNCHANGED <<run, def, steps, outputs, approvals>>

\* in_progress -> completed; the result of the UPDATE is not looked at.
Complete(r) ==
    LET s == req[r].at IN
    /\ At(r, "complete")
    /\ IF steps[s].status = "in_progress" THEN SetStep(s, "completed") ELSE UNCHANGED steps
    /\ IF req[r].ent # 0 THEN Goto(r, "output") ELSE Arm(r)
    /\ UNCHANGED <<run, def, entities, outputs, approvals>>

\* A binding may answer that its step is to be skipped.
SkipWithNote(r) ==
    LET s == req[r].at IN
    /\ At(r, "note")
    /\ IF steps[s].status \in {"pending", "in_progress"}
       THEN SetStep(s, "skipped") ELSE UNCHANGED steps
    /\ Arm(r)
    /\ UNCHANGED <<run, def, entities, outputs, approvals>>

OutputRow(r) == [step |-> req[r].at, rev |-> req[r].rev, ent |-> req[r].ent]

RecordOutput(r) ==
    /\ At(r, "output")
    /\ outputs' = Append(outputs, OutputRow(r))
    /\ IF def[req[r].at].kind = "generate" THEN Goto(r, "merge") ELSE Arm(r)
    /\ UNCHANGED <<run, def, steps, entities, approvals>>

MergeOutput(r) ==
    /\ At(r, "merge")
    /\ run' = [run EXCEPT !.output = req[r].ent]
    /\ Arm(r)
    /\ UNCHANGED <<def, steps, entities, outputs, approvals>>

\* The failure is persisted on the step, then (mark) on the run.
FailStep(r) ==
    LET s == req[r].at IN
    /\ At(r, "fail")
    /\ IF steps[s].status \in {"pending", "in_progress"}
       THEN SetStep(s, "failed") ELSE UNCHANGED steps
    /\ ArmTo(r, "mark", s, "failed")
    /\ UNCHANGED <<run, def, entities, outputs, approvals>>

(***************************************************************************)
(* armNextStep: park the run on its next pending step                      *)
(***************************************************************************)
ArmNextStep(r) ==
    /\ At(r, "arm")
    /\ \/ Pending = {} /\ ArmTo(r, "mark", 0, "completed")
       \/ \E s \in NextPending :
             \/ /\ def[s].kind = "gate" /\ def[s].gate = "creative_qa"
                /\ ArmTo(r, "arm_report", s, "none")
             \/ /\ def[s].kind = "gate" /\ def[s].gate # "creative_qa"
                /\ ArmTo(r, "arm_gate", s, "waiting_for_approval")
             \/ /\ def[s].kind = "future"
                /\ ArmTo(r, "arm_current", s, "blocked_future_feature")
             \/ /\ def[s].kind \in Executable \cup {"skip"}
                /\ ArmTo(r, "arm_current", s, "in_progress")
    /\ UNCHANGED tables

\* Mutant: the report is read but its score is not looked at.
MutantReadReport(r) ==
    /\ At(r, "arm_report")
    /\ ArmTo(r, "arm_gate", req[r].at, "waiting_for_approval")
    /\ UNCHANGED tables

\* The arrival rule of the Creative QA gate.
ReadReport(r) ==
    /\ At(r, "arm_report")
    /\ IF \E e \in Newest : entities[e].low /\ entities[e].status = "generated"
       THEN ArmTo(r, "arm_current", req[r].at, "qa_failed")
       ELSE ArmTo(r, "arm_gate", req[r].at, "waiting_for_approval")
    /\ UNCHANGED tables

OpenGate(r) ==
    LET s == req[r].at IN
    /\ At(r, "arm_gate")
    /\ IF steps[s].status = "pending"
       THEN SetStep(s, "waiting_for_approval") ELSE UNCHANGED steps
    /\ Goto(r, "arm_current")
    /\ UNCHANGED <<run, def, entities, outputs, approvals>>

\* Mutant: setCurrentStep only on a run that is in progress.
MutantSetCurrentStep(r) ==
    /\ At(r, "arm_current")
    /\ run' = [run EXCEPT !.current = IF run.status = "in_progress" THEN req[r].at ELSE @]
    /\ Goto(r, "mark")
    /\ UNCHANGED <<def, steps, entities, outputs, approvals>>

\* setCurrentStep has no guard on the run's status.
SetCurrentStep(r) ==
    /\ At(r, "arm_current")
    /\ run' = [run EXCEPT !.current = req[r].at]
    /\ Goto(r, "mark")
    /\ UNCHANGED <<def, steps, entities, outputs, approvals>>

\* Mutant: markX without its WHERE status IN (...).
MutantMarkFrom(m) == RunStatus
\* The guards of markInProgress, markWaiting, markCompleted, markQaFailed,
\* markBlockedFuture and markFailed.
MarkFrom(m) ==
    CASE m = "waiting_for_approval" -> {"in_progress"}
      [] m = "failed" -> {"in_progress", "waiting_for_approval", "qa_failed",
                          "blocked_future_feature"}
      [] OTHER -> {"in_progress", "waiting_for_approval"}

MarkRun(r) ==
    LET m == req[r].mark IN
    /\ At(r, "mark")
    /\ IF run.status \in MarkFrom(m)
       THEN run' = [run EXCEPT !.status = m,
                               !.current = IF m = "completed" THEN 0 ELSE @]
       ELSE UNCHANGED run
    /\ Reply(r)
    /\ UNCHANGED <<def, steps, entities, outputs, approvals>>

(***************************************************************************)
(* Deciding a gate: the domain decision, then the claim of the step row    *)
(***************************************************************************)
ReceiveDecision(r) ==
    /\ run.status = "waiting_for_approval"
    /\ run.current # 0
    /\ \/ Receives(r, "approve") /\ req' = [req EXCEPT ![r] =
            [Idle EXCEPT !.pc = "load_gate", !.at = run.current, !.out = run.output,
                         !.decision = "approved"]]
       \/ /\ Receives(r, "reject")
          /\ steps[run.current].rev < MaxRevisions
          /\ req' = [req EXCEPT ![r] =
               [Idle EXCEPT !.pc = "load_gate", !.at = run.current, !.out = run.output,
                            !.decision = "rejected"]]
    /\ UNCHANGED tables

\* loadWaitingGate; a brand_profile_future gate is always refused.
LoadGate(r) ==
    LET s == req[r].at IN
    /\ At(r, "load_gate")
    /\ steps[s].status = "waiting_for_approval"
    /\ def[s].kind = "gate"
    /\ def[s].gate # "brand_profile_future"
    /\ req' = [req EXCEPT ![r].pc = "find_entity", ![r].seen = steps[s].rev]
    /\ UNCHANGED tables

\* A content idea's status is only checked here, before its unguarded UPDATE;
\* approve-step without an id accepts an idea approved earlier as it is.
FindEntity(r) ==
    LET gate == def[req[r].at].gate IN
    /\ At(r, "find_entity")
    /\ \E e \in Candidates(gate, req[r].out) :
          \/ /\ gate = "content_idea" => entities[e].status = "generated"
             /\ req' = [req EXCEPT ![r].pc = "decide", ![r].ent = e]
          \/ /\ gate = "content_idea" /\ req[r].decision = "approved"
             /\ entities[e].status = "approved"
             /\ req' = [req EXCEPT ![r].pc = "claim", ![r].ent = e]
    /\ UNCHANGED tables

DecideEntity(r) ==
    LET e == req[r].ent IN
    /\ At(r, "decide")
    /\ \E status \in Outcomes(def[req[r].at].gate, entities[e].status, req[r].decision) :
          entities' = [entities EXCEPT ![e].status = status]
    /\ Goto(r, "claim")
    /\ UNCHANGED <<run, def, steps, outputs, approvals>>

\* Mutant: the claim without its WHERE status = 'waiting_for_approval'.
MutantClaimGate(r) ==
    LET s == req[r].at IN
    /\ At(r, "claim")
    /\ SetStep(s, req[r].decision)
    /\ req' = [req EXCEPT ![r].pc = "audit", ![r].rev = steps[s].rev]
    /\ UNCHANGED <<run, def, entities, outputs, approvals>>

\* Mutant: a rejection resets the steps before its audit row, or without it.
MutantClaimUnaudited(r) ==
    LET s == req[r].at IN
    /\ At(r, "claim")
    /\ steps[s].status = "waiting_for_approval"
    /\ SetStep(s, req[r].decision)
    /\ req' = [req EXCEPT ![r].rev = steps[s].rev,
         ![r].pc = IF req[r].decision = "rejected" /\ def[s].returnTo # 0
                   THEN "reset" ELSE "audit"]
    /\ UNCHANGED <<run, def, entities, outputs, approvals>>
\* waiting_for_approval -> approved | rejected, "the concurrency claim".
ClaimGate(r) ==
    LET s == req[r].at IN
    /\ At(r, "claim")
    /\ steps[s].status = "waiting_for_approval"
    /\ SetStep(s, req[r].decision)
    /\ req' = [req EXCEPT ![r].pc = "audit", ![r].rev = steps[s].rev]
    /\ UNCHANGED <<run, def, entities, outputs, approvals>>

RecordDecision(r) ==
    LET s == req[r].at IN
    /\ At(r, "audit")
    /\ approvals' = Append(approvals, [step |-> s, rev |-> req[r].rev, seen |-> req[r].seen,
                                       ent |-> req[r].ent, decision |-> req[r].decision])
    /\ IF req[r].decision = "approved" THEN Goto(r, "approved_output")
       ELSE IF def[s].returnTo # 0 THEN Goto(r, "reset")
       ELSE ArmTo(r, "mark", s, "failed")
    /\ UNCHANGED <<run, def, steps, entities, outputs>>

RecordApprovedOutput(r) ==
    /\ At(r, "approved_output")
    /\ outputs' = Append(outputs, OutputRow(r))
    /\ Arm(r)
    /\ UNCHANGED <<run, def, steps, entities, approvals>>

\* Mutant: the steps before the gate are reset, the gate itself is not.
MutantResetForRevision(r) ==
    LET target == RevisionTarget(def[req[r].at].returnTo) IN
    /\ At(r, "reset")
    /\ steps' = [s \in Orders |->
          IF target <= s /\ s < req[r].at
          THEN [status |-> "pending", rev |-> steps[s].rev + 1] ELSE steps[s]]
    /\ Goto(r, "reopen")
    /\ UNCHANGED <<run, def, entities, outputs, approvals>>

\* Mutant: the status asked of the entity is written to its steps.
StatusMutantResetForRevision(r) ==
    LET target == RevisionTarget(def[req[r].at].returnTo) IN
    /\ At(r, "reset")
    /\ steps' = [s \in Orders |->
          IF target <= s /\ s <= req[r].at
          THEN [status |-> "needs_revision", rev |-> steps[s].rev + 1] ELSE steps[s]]
    /\ Goto(r, "reopen")
    /\ UNCHANGED <<run, def, entities, outputs, approvals>>

\* One statement resets every step from the target to the gate, whatever its status.
ResetForRevision(r) ==
    LET target == RevisionTarget(def[req[r].at].returnTo) IN
    /\ At(r, "reset")
    /\ steps' = [s \in Orders |->
          IF target <= s /\ s <= req[r].at
          THEN [status |-> "pending", rev |-> steps[s].rev + 1] ELSE steps[s]]
    /\ Goto(r, "reopen")
    /\ UNCHANGED <<run, def, entities, outputs, approvals>>

Reopen(r) ==
    /\ At(r, "reopen")
    /\ run' = [run EXCEPT !.status = IF @ \in MarkFrom("in_progress") THEN "in_progress" ELSE @]
    /\ Arm(r)
    /\ UNCHANGED <<def, steps, entities, outputs, approvals>>

(***************************************************************************)
(* Cancelling, decisions through the entity's own routes, dying requests   *)
(***************************************************************************)
Cancel(r) ==
    /\ Receives(r, "cancel")
    /\ run.status \in {"in_progress", "waiting_for_approval", "qa_failed",
                       "blocked_future_feature"}
    /\ run' = [run EXCEPT !.status = "cancelled"]
    /\ UNCHANGED <<def, steps, entities, outputs, approvals, req>>

\* POST /design-dna/:id/approve and its like use the same guarded UPDATE; the
\* routes of ideas and briefs check the status they guard in the route.
ReviewDirectly(r) ==
    LET gate == GateOf(def) IN
    /\ Receives(r, "review")
    /\ \E e \in DOMAIN entities, decision \in {"approved", "rejected"} :
          /\ gate = "content_idea" => entities[e].status = "generated"
          /\ gate = "design_brief" =>
                entities[e].status \in {"generated", "needs_revision"}
                    \cup (IF decision = "rejected" THEN {"approved"} ELSE {})
          /\ \E status \in Outcomes(gate, entities[e].status, decision) :
                entities' = [entities EXCEPT ![e].status = status]
    /\ UNCHANGED <<run, def, steps, outputs, approvals, req>>

\* The process dies, or a statement of the request throws.
Interrupt(r) ==
    /\ Restarts
    /\ ~At(r, "idle")
    /\ Reply(r)
    /\ UNCHANGED tables

-----------------------------------------------------------------------------
Starting(r) == Start(r) \/ CreateSteps(r)
Advancing(r) ==
    \/ Advance(r) \/ ReadStep(r) \/ Skip(r) \/ Begin(r) \/ Execute(r) \/ Complete(r)
    \/ SkipWithNote(r) \/ RecordOutput(r) \/ MergeOutput(r) \/ FailStep(r)
Arming(r) ==
    ArmNextStep(r) \/ ReadReport(r) \/ OpenGate(r) \/ SetCurrentStep(r) \/ MarkRun(r)
Deciding(r) ==
    \/ ReceiveDecision(r) \/ LoadGate(r) \/ FindEntity(r) \/ DecideEntity(r) \/ ClaimGate(r)
    \/ RecordDecision(r) \/ RecordApprovedOutput(r) \/ ResetForRevision(r) \/ Reopen(r)

Next == \E r \in Requests :
    \/ Starting(r) \/ Advancing(r) \/ Arming(r) \/ Deciding(r)
    \/ Refuse(r) \/ Cancel(r) \/ ReviewDirectly(r) \/ Interrupt(r)

Spec == Init /\ [][Next]_vars

-----------------------------------------------------------------------------
(***************************************************************************)
(* Properties                                                              *)
(***************************************************************************)
Request == [pc : PCs, at : Nat, rev : Nat, seen : Nat, ent : Nat, out : Nat,
            mark : Marks, decision : {"none", "approved", "rejected"}]
RunType == [status : RunStatus, current : Nat, output : Nat]
StepType == [status : StepStatus, rev : Nat]
EntityType == [status : EntityStatus, low : BOOLEAN]
OutputType == [step : Nat, rev : Nat, ent : Nat]
ApprovalType == [step : Nat, rev : Nat, seen : Nat, ent : Nat,
                 decision : {"approved", "rejected"}]

\* Every table and every request-local variable holds values of its type.
TypeOK ==
    /\ run \in RunType
    /\ def \in Catalog \cup {<< >>}
    /\ steps \in [DOMAIN def -> StepType] \cup {<< >>}
    /\ entities \in Seq(EntityType)
    /\ outputs \in Seq(OutputType)
    /\ approvals \in Seq(ApprovalType)
    /\ req \in [Requests -> Request]

Quiet == \A r \in Requests : At(r, "idle")
Executing(r) == req[r].pc \in {"execute", "complete", "note", "output", "merge", "fail"}
IsGate(s) == def[s].kind = "gate"

\* begin() is an exclusive claim: whatever requests race, die or repeat, a
\* revision of a step is executed by one request and leaves one output row.
OneExecutionPerRevision ==
    /\ \A q, r \in Requests : q # r /\ Executing(q) /\ Executing(r) =>
          <<req[q].at, req[q].rev>> # <<req[r].at, req[r].rev>>
    /\ \A i, j \in DOMAIN outputs : i # j =>
          <<outputs[i].step, outputs[i].rev>> # <<outputs[j].step, outputs[j].rev>>

\* The claim of a waiting gate is exclusive: racing reviewers leave one
\* workflow_approvals row for a revision of a gate, never two.
OneDecisionPerRevision ==
    \A i, j \in DOMAIN approvals : i # j =>
        <<approvals[i].step, approvals[i].rev>> # <<approvals[j].step, approvals[j].rev>>

\* No late statement of any request revives a run that ended: completed, failed
\* and cancelled are final, and a blocked run can only fail or be cancelled.
TerminalIsFinal ==
    [][/\ run.status \in {"completed", "failed", "cancelled"} => run'.status = run.status
       /\ run.status \in {"qa_failed", "blocked_future_feature"} =>
             run'.status \in {run.status, "failed", "cancelled"}]_run

\* "Unimplemented features block the run, never faked as success": nothing at or
\* after a future step ever leaves pending and the run never completes.
FutureNeverPassed ==
    \A s \in Orders : def[s].kind = "future" =>
        /\ run.status # "completed"
        /\ \A t \in Orders : s <= t => steps[t].status = "pending"

\* "Approval gates cannot be skipped": no step after a gate is touched before
\* the gate is approved, and no run completes over an undecided gate.
NoGateSkipped ==
    \A s \in Orders : IsGate(s) /\ steps[s].status # "approved" =>
        /\ run.status # "completed"
        /\ \A t \in Orders : s < t => steps[t].status = "pending"

\* The arrival rule: a Creative QA gate never stands open over a report scoring below
\* 50 that nobody has decided, however reviewers race, as long as one person advances.
LowScoreBlocksGate ==
    \A s \in Orders : steps[s].status = "waiting_for_approval" /\ def[s].gate = "creative_qa" =>
        \A e \in Newest : ~(entities[e].low /\ entities[e].status = "generated")

\* Re-arming recovers: where the next advance would re-arm the run (its current
\* step is done already), the first pending step is the one to go on with.
RearmRecovers ==
    Quiet /\ run.status = "in_progress" /\ run.current \in Orders
          /\ steps[run.current].status \in {"completed", "skipped"} =>
        \A s \in Orders : (\A t \in Pending : s < t) =>
            steps[s].status \in {"completed", "approved", "skipped"}

\* The revision loop regenerates: a gate that opens again shows its reviewers
\* an entity generated in that revision, never the rejected one.
RevisionRegenerates ==
    \A s \in Orders : steps[s].status = "waiting_for_approval" /\ steps[s].rev > 0 =>
        \E i \in DOMAIN outputs :
            outputs[i].rev = steps[s].rev /\ def[outputs[i].step].kind = "generate"

\* The audit trail accounts for every revision: with no request in flight a
\* gate has been reopened exactly as often as its trail holds a rejection.
RevisionsMatchRejections ==
    Quiet => \A s \in Orders : IsGate(s) /\ def[s].returnTo # 0 =>
        steps[s].rev = Cardinality({i \in DOMAIN approvals :
            approvals[i].step = s /\ approvals[i].decision = "rejected"})

\* The audit row comes before the reset, whoever races and wherever a request dies: each
\* revision that a gate was sent back from has a rejection in its trail.
RevisionsAreAudited ==
    \A s \in Orders : IsGate(s) => \A n \in 0 .. steps[s].rev : n < steps[s].rev =>
        \E i \in DOMAIN approvals : /\ approvals[i].step = s /\ approvals[i].rev = n
                                   /\ approvals[i].decision = "rejected"

\* The engine keeps the promise of WorkflowPromise: its rows map to the number
\* of leading steps that are done, provided no step behind them is.
DoneSteps == {s \in Orders : steps[s].status \in {"completed", "approved", "skipped"}}
StatusPromised ==
    IF run.status \in {"in_progress", "waiting_for_approval"} THEN "live" ELSE run.status
DonePromised ==
    IF DoneSteps = 1 .. Cardinality(DoneSteps) THEN Cardinality(DoneSteps) ELSE Len(def) + 1
Promise == INSTANCE WorkflowPromise WITH
    Lengths <- {Len(d) : d \in Catalog},
    status  <- StatusPromised,
    length  <- Len(def),
    done    <- DonePromised
KeepsPromise == Promise!Spec

\* A claim lost to another decision is a 409: a decision lands only on the
\* revision of the gate its reviewer was shown.
NoStaleDecision == \A i \in DOMAIN approvals : approvals[i].seen = approvals[i].rev
=============================================================================
