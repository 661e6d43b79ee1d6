--------------------------- MODULE CreativePipeline ---------------------------
(***************************************************************************)
(* The creative pipeline of Grafista AI Studio for one client: Design DNA  *)
(* versions, content ideas and their approvals, design briefs, layout      *)
(* plans and Creative QA reports, with the services that make them and the *)
(* routes that review them.  Each table is a sequence of rows in creation  *)
(* order, each request a slot that runs one handler; every SQL statement   *)
(* and every AI call is one step, so that handlers interleave between      *)
(* them, and a handler may die between any two.                            *)
(*                                                                         *)
(* What a model answers is seen only through what the code decides on: a   *)
(* usable answer or a failure, the number of items, the QA verdict.        *)
(***************************************************************************)
EXTENDS Naturals, Sequences

CONSTANTS
    Requests,           \* slots: at most this many requests in flight
    Starts,             \* database contents to start from
    References,         \* number of uploaded design references of the client
    MaxIdeas,           \* largest optionCount of an ideation request
    MinAlternatives,    \* MIN_ALTERNATIVES of layout-generation.ts
    MaxAlternatives,    \* MAX_ALTERNATIVES
    MaxRequests,        \* bound: requests made
    MaxFailures         \* bound: requests that die

ASSUME PipelineAssumption ==
    /\ References \in Nat \ {0}
    /\ MaxIdeas \in Nat \ {0}
    /\ MinAlternatives \in Nat \ {0} /\ MaxAlternatives \in Nat
    /\ MinAlternatives <= MaxAlternatives
    /\ MaxRequests \in Nat /\ MaxFailures \in Nat

VARIABLES
    analyses,   \* design_analysis: number of rows of each reference
    ideas,      \* content_ideas
    approvals,  \* approvals of content ideas
    dna,        \* design_dna
    briefs,     \* design_briefs
    plans,      \* layout_plans
    reports,    \* creative_qa_reports
    entries,    \* revision_entries
    req,        \* control point and local variables of every request
    requests,   \* how many requests were made
    failures    \* how many died

work == <<analyses, ideas, approvals, dna, briefs, plans, reports>>
vars == <<work, entries, req, requests, failures>>

IdeaStatuses == {"pending_approval", "approved", "rejected", "revision_requested"}
Outcomes == IdeaStatuses \ {"pending_approval"}
BriefStatuses == {"draft", "approved", "needs_revision", "rejected"}
PlanStatuses == {"generated", "approved", "needs_revision", "rejected"}
DnaStatuses == {"generated", "approved", "needs_revision"}
ReportStatuses == {"passed", "failed", "approved", "needs_revision", "rejected"}
Statuses == BriefStatuses \cup PlanStatuses \cup DnaStatuses \cup ReportStatuses
Kinds == {"design_dna", "layout_plan", "creative_qa_report"}

\* Foreign keys are positions in the referenced table, 0 for NULL.
Idea == [status : IdeaStatuses, approval : Nat]
Approval == [idea : Nat, status : Outcomes]
Dna == [version : Nat, status : DnaStatuses, approvedBy : BOOLEAN]
Brief == [idea : Nat, approval : Nat, status : BriefStatuses]
Plan == [brief : Nat, dna : Nat, status : PlanStatuses]
Report == [plan : Nat, dna : Nat, status : ReportStatuses]
Entry == [kind : Kinds, row : Nat, before : Statuses, after : Statuses]

\* The database a run starts from is one these handlers lead to: rows of the right
\* types whose keys and statuses fit together.
ASSUME StartsAssumption ==
    \A s \in Starts :
       /\ s.analyses \in [1 .. References -> Nat]
       /\ s.ideas \in Seq(Idea) /\ s.approvals \in Seq(Approval)
       /\ s.dna \in Seq(Dna) /\ s.briefs \in Seq(Brief)
       /\ s.plans \in Seq(Plan) /\ s.reports \in Seq(Report)
       /\ \A i \in 1 .. References : Len(s.dna) <= s.analyses[i]
       /\ \A d \in DOMAIN s.dna :
             /\ s.dna[d].version = d
             /\ s.dna[d].status = "approved" => s.dna[d].approvedBy
       /\ \A i \in DOMAIN s.ideas :
             s.ideas[i].status = "approved" =>
                /\ s.ideas[i].approval \in DOMAIN s.approvals
                /\ s.approvals[s.ideas[i].approval] = [idea |-> i, status |-> "approved"]
       /\ \A b \in DOMAIN s.briefs :
             /\ s.briefs[b].approval \in DOMAIN s.approvals
             /\ s.approvals[s.briefs[b].approval] =
                   [idea |-> s.briefs[b].idea, status |-> "approved"]
       /\ \A p \in DOMAIN s.plans :
             /\ s.plans[p].brief \in DOMAIN s.briefs
             /\ \/ s.plans[p].dna = 0
                \/ s.plans[p].dna \in DOMAIN s.dna /\ s.dna[s.plans[p].dna].approvedBy
       /\ \A q \in DOMAIN s.reports :
             /\ s.reports[q].plan \in DOMAIN s.plans
             /\ s.plans[s.reports[q].plan].status = "approved"
             /\ s.reports[q].dna \in DOMAIN s.dna /\ s.dna[s.reports[q].dna].approvedBy

PCs == {"idle", "analyse", "insert_version", "create_idea", "outcome", "create_brief",
        "write_brief", "layout_dna", "layout_ai", "create_plan", "qa_brief", "qa_dna",
        "qa_ai", "approve", "reject", "record"}

\* kind, row: the row the handler works on.  saw: the status it read.  dna: the row
\* of design_dna it read.  ref: an approval, or a version number.  left: rows still
\* to be made.  new: the status it writes or wrote.
Idle == [pc |-> "idle", kind |-> "none", row |-> 0, saw |-> "none", new |-> "none",
         dna |-> 0, ref |-> 0, left |-> 0]

Init ==
    /\ \E s \in Starts :
          /\ analyses = s.analyses /\ ideas = s.ideas /\ approvals = s.approvals
          /\ dna = s.dna /\ briefs = s.briefs /\ plans = s.plans /\ reports = s.reports
    /\ entries = << >>
    /\ req = [r \in Requests |-> Idle]
    /\ requests = 0
    /\ failures = 0

\* Admit(r, local): a request arrives and its handler reaches its first write or its
\* first read that matters; what the handler refuses changes nothing.
Admit(r, local) ==
    /\ req[r].pc = "idle"
    /\ requests < MaxRequests
    /\ requests' = requests + 1
    /\ req' = [req EXCEPT ![r] = local]
    /\ UNCHANGED failures
Goto(r, local) ==
    /\ req' = [req EXCEPT ![r] = local]
    /\ UNCHANGED <<requests, failures>>
Reply(r) == Goto(r, Idle)
At(r, label) == req[r].pc = label
\* A statement or a call of this step fails: the error handler answers.
Refused(r) == Reply(r) /\ UNCHANGED <<work, entries>>
\* The row of a loop over results to persist: go on while some are left.
NextRow(r) ==
    IF req[r].left > 1 THEN Goto(r, [req[r] EXCEPT !.left = @ - 1]) ELSE Reply(r)

(***************************************************************************)
(* Design DNA: services/design-dna-analysis.ts                             *)
(***************************************************************************)
StartAnalysis(r) ==
    /\ Admit(r, [Idle EXCEPT !.pc = "analyse", !.left = References])
    /\ UNCHANGED <<work, entries>>

\* Mutant: a reference that cannot be analysed is skipped.
MutantAnalyseReference(r) ==
    /\ At(r, "analyse") /\ req[r].left > 0
    /\ \/ UNCHANGED analyses
       \/ analyses' = [analyses EXCEPT ![req[r].left] = @ + 1]
    /\ Goto(r, [req[r] EXCEPT !.left = @ - 1])
    /\ UNCHANGED <<ideas, approvals, dna, briefs, plans, reports, entries>>
\* One pass of the loop: read the file, ask the model, insert a design_analysis row.
AnalyseReference(r) ==
    /\ At(r, "analyse") /\ req[r].left > 0
    /\ \/ Refused(r)
       \/ /\ analyses' = [analyses EXCEPT ![req[r].left] = @ + 1]
          /\ Goto(r, [req[r] EXCEPT !.left = @ - 1])
          /\ UNCHANGED <<ideas, approvals, dna, briefs, plans, reports, entries>>

Versions == {dna[d].version : d \in DOMAIN dna}
\* COALESCE(MAX(version), 0) + 1
NextVersion == CHOOSE v \in 1 .. Len(dna) + 1 :
                  v \notin Versions /\ \A w \in Versions : w < v

\* The synthesis call, and the CTE next_version of the INSERT, read with the snapshot
\* of that statement.
SynthesiseDna(r) ==
    /\ At(r, "analyse") /\ req[r].left = 0
    /\ \/ Refused(r)
       \/ /\ Goto(r, [req[r] EXCEPT !.pc = "insert_version", !.ref = NextVersion])
          /\ UNCHANGED <<work, entries>>

\* Mutant: no unique index behind the computed version.
MutantInsertVersion(r) ==
    /\ At(r, "insert_version")
    /\ dna' = Append(dna, [version |-> req[r].ref, status |-> "generated",
                           approvedBy |-> FALSE])
    /\ Reply(r)
    /\ UNCHANGED <<analyses, ideas, approvals, briefs, plans, reports, entries>>
\* The unique index on (client_id, version) refuses a version another run took.
InsertVersion(r) ==
    /\ At(r, "insert_version")
    /\ \/ req[r].ref \in Versions /\ Refused(r)
       \/ /\ req[r].ref \notin Versions
          /\ dna' = Append(dna, [version |-> req[r].ref, status |-> "generated",
                                 approvedBy |-> FALSE])
          /\ Reply(r)
          /\ UNCHANGED <<analyses, ideas, approvals, briefs, plans, reports, entries>>

\* getLatestByClientId: the row with the highest version, 0 for none.
Latest == IF dna = << >> THEN 0
          ELSE CHOOSE d \in DOMAIN dna : \A e \in DOMAIN dna : dna[e].version <= dna[d].version

\* Mutant: the latest version, whatever its status.
MutantApprovedLatest == Latest
\* The latest version if it is approved; an older approved one does not count.
ApprovedLatest == IF Latest # 0 /\ dna[Latest].status = "approved" THEN Latest ELSE 0

(***************************************************************************)
(* Content ideas and their approvals                                       *)
(***************************************************************************)
\* runContentIdeation: one AI call, then the ideas one by one.
StartIdeation(r) ==
    /\ \E n \in 1 .. MaxIdeas : Admit(r, [Idle EXCEPT !.pc = "create_idea", !.left = n])
    /\ UNCHANGED <<work, entries>>

CreateIdea(r) ==
    /\ At(r, "create_idea")
    /\ ideas' = Append(ideas, [status |-> "pending_approval", approval |-> 0])
    /\ NextRow(r)
    /\ UNCHANGED <<analyses, approvals, dna, briefs, plans, reports, entries>>

\* POST /content-ideas/:id/approve and /reject: the approvals row comes first, from
\* any status of the idea.
DecideIdea(r) ==
    /\ \E i \in DOMAIN ideas, outcome \in Outcomes :
          /\ approvals' = Append(approvals, [idea |-> i, status |-> outcome])
          /\ Admit(r, [Idle EXCEPT !.pc = "outcome", !.row = i, !.new = outcome,
                                   !.ref = Len(approvals')])
    /\ UNCHANGED <<analyses, ideas, dna, briefs, plans, reports, entries>>

\* Mutant: the outcome is written, the approval it rests on is not.
MutantSetApprovalOutcome(r) ==
    /\ At(r, "outcome")
    /\ ideas' = [ideas EXCEPT ![req[r].row].status = req[r].new]
    /\ Reply(r)
    /\ UNCHANGED <<analyses, approvals, dna, briefs, plans, reports, entries>>
SetApprovalOutcome(r) ==
    /\ At(r, "outcome")
    /\ ideas' = [ideas EXCEPT ![req[r].row] = [status |-> req[r].new,
                                               approval |-> req[r].ref]]
    /\ Reply(r)
    /\ UNCHANGED <<analyses, approvals, dna, briefs, plans, reports, entries>>

(***************************************************************************)
(* Design briefs                                                           *)
(***************************************************************************)
\* createDesignBriefFromContentIdea: the approval gate reads the idea ...
ReadIdea(r) ==
    /\ \E i \in DOMAIN ideas :
          /\ ideas[i].status = "approved"
          /\ Admit(r, [Idle EXCEPT !.pc = "create_brief", !.row = i,
                                   !.ref = ideas[i].approval])
    /\ UNCHANGED <<work, entries>>
\* ... and the brief is inserted with what was read.
CreateBrief(r) ==
    /\ At(r, "create_brief")
    /\ briefs' = Append(briefs, [idea |-> req[r].row, approval |-> req[r].ref,
                                 status |-> "draft"])
    /\ Reply(r)
    /\ UNCHANGED <<analyses, ideas, approvals, dna, plans, reports, entries>>

\* 'in_progress', 'qa_pending', 'qa_passed' and 'exported' are never written.
ApprovableBrief == {"draft", "needs_revision"}
RejectableBrief == {"draft", "approved", "needs_revision"}

\* POST /design-briefs/:id/approve and /reject: the guard reads the brief ...
ReadBrief(r) ==
    /\ \E b \in DOMAIN briefs, new \in {"approved", "needs_revision", "rejected"} :
          /\ briefs[b].status \in IF new = "approved" THEN ApprovableBrief ELSE RejectableBrief
          /\ Admit(r, [Idle EXCEPT !.pc = "write_brief", !.row = b, !.new = new,
                                   !.saw = briefs[b].status])
    /\ UNCHANGED <<work, entries>>
\* ... and updateStatus writes, whatever the brief is by then.
WriteBrief(r) ==
    /\ At(r, "write_brief")
    /\ briefs' = [briefs EXCEPT ![req[r].row].status = req[r].new]
    /\ Reply(r)
    /\ UNCHANGED <<analyses, ideas, approvals, dna, plans, reports, entries>>

(***************************************************************************)
(* Layout plans and Creative QA: read what must be approved, ask, persist  *)
(***************************************************************************)
\* runLayoutGeneration
StartLayout(r) ==
    /\ \E b \in DOMAIN briefs :
          /\ briefs[b].status = "approved"
          /\ Admit(r, [Idle EXCEPT !.pc = "layout_dna", !.row = b])
    /\ UNCHANGED <<work, entries>>
ReadLayoutDna(r) ==
    /\ At(r, "layout_dna")
    /\ Goto(r, [req[r] EXCEPT !.pc = "layout_ai", !.dna = ApprovedLatest])
    /\ UNCHANGED <<work, entries>>
\* validateLayoutAlternatives lets 2 or 3 alternatives through, all of them valid.
AskLayout(r) ==
    /\ At(r, "layout_ai")
    /\ \/ Refused(r)
       \/ /\ \E n \in MinAlternatives .. MaxAlternatives :
                Goto(r, [req[r] EXCEPT !.pc = "create_plan", !.left = n])
          /\ UNCHANGED <<work, entries>>
CreatePlan(r) ==
    /\ At(r, "create_plan")
    /\ plans' = Append(plans, [brief |-> req[r].row, dna |-> req[r].dna,
                               status |-> "generated"])
    /\ NextRow(r)
    /\ UNCHANGED <<analyses, ideas, approvals, dna, briefs, reports, entries>>

\* runCreativeQa
StartQa(r) ==
    /\ \E p \in DOMAIN plans :
          /\ plans[p].status = "approved"
          /\ Admit(r, [Idle EXCEPT !.pc = "qa_brief", !.row = p])
    /\ UNCHANGED <<work, entries>>
ReadQaBrief(r) ==
    /\ At(r, "qa_brief")
    /\ IF briefs[plans[req[r].row].brief].status = "approved"
       THEN Goto(r, [req[r] EXCEPT !.pc = "qa_dna"])
       ELSE Reply(r)
    /\ UNCHANGED <<work, entries>>
ReadQaDna(r) ==
    /\ At(r, "qa_dna")
    /\ IF ApprovedLatest # 0
       THEN Goto(r, [req[r] EXCEPT !.pc = "qa_ai", !.dna = ApprovedLatest])
       ELSE Reply(r)
    /\ UNCHANGED <<work, entries>>
\* The verdict is the code's: overallScore >= DEFAULT_PASS_THRESHOLD.
SaveReport(r) ==
    /\ At(r, "qa_ai")
    /\ \/ Refused(r)
       \/ /\ \E verdict \in {"passed", "failed"} :
                reports' = Append(reports, [plan |-> req[r].row, dna |-> req[r].dna,
                                            status |-> verdict])
          /\ Reply(r)
          /\ UNCHANGED <<analyses, ideas, approvals, dna, briefs, plans, entries>>

(***************************************************************************)
(* Reviews of DNA versions, layout plans and QA reports: read the row,     *)
(* update it if its status allows, record a revision entry.                *)
(***************************************************************************)
StatusOf(kind, i) ==
    CASE kind = "design_dna" -> dna[i].status
      [] kind = "layout_plan" -> plans[i].status
      [] kind = "creative_qa_report" -> reports[i].status

\* The rows a review may name: the DNA routes always take the latest version.
Reviewable(kind) ==
    CASE kind = "design_dna" -> {Latest} \ {0}
      [] kind = "layout_plan" -> DOMAIN plans
      [] kind = "creative_qa_report" -> DOMAIN reports

ReadReviewed(r) ==
    /\ \E kind \in Kinds, verb \in {"approve", "reject"} :
          \E i \in Reviewable(kind) :
             Admit(r, [Idle EXCEPT !.pc = verb, !.kind = kind, !.row = i,
                                   !.saw = StatusOf(kind, i)])
    /\ UNCHANGED <<work, entries>>

\* WHERE status IN (...) of the three repositories.
Approvable(kind) ==
    CASE kind = "design_dna" -> {"generated"}
      [] kind = "layout_plan" -> {"generated", "needs_revision"}
      [] kind = "creative_qa_report" -> {"passed", "failed", "needs_revision"}
\* Mutant: an approved plan can be rejected too.
MutantRejectable(kind) ==
    CASE kind = "design_dna" -> DnaStatuses
      [] kind = "layout_plan" -> {"generated", "approved"}
      [] kind = "creative_qa_report" -> {"passed", "failed"}
Rejectable(kind) ==
    CASE kind = "design_dna" -> DnaStatuses
      [] kind = "layout_plan" -> {"generated"}
      [] kind = "creative_qa_report" -> {"passed", "failed"}

\* Mutant: a DNA version is rejected like a plan, with a status its table does not know.
MutantRejections(kind) == {"needs_revision", "rejected"}
\* With notes a rejection asks for a revision; requestRevision of a DNA always does.
Rejections(kind) ==
    IF kind = "design_dna" THEN {"needs_revision"} ELSE {"needs_revision", "rejected"}

\* The UPDATE: only the status of the reviewed row changes, and approved_by of a DNA.
SetStatus(kind, i, new) ==
    CASE kind = "design_dna" ->
            /\ dna' = [dna EXCEPT ![i] = [version |-> dna[i].version, status |-> new,
                                          approvedBy |-> dna[i].approvedBy \/ new = "approved"]]
            /\ UNCHANGED <<plans, reports>>
      [] kind = "layout_plan" ->
            /\ plans' = [plans EXCEPT ![i].status = new]
            /\ UNCHANGED <<dna, reports>>
      [] kind = "creative_qa_report" ->
            /\ reports' = [reports EXCEPT ![i].status = new]
            /\ UNCHANGED <<dna, plans>>

Decide(r, allowed, news) ==
    IF StatusOf(req[r].kind, req[r].row) \in allowed
    THEN \E new \in news :
            /\ SetStatus(req[r].kind, req[r].row, new)
            /\ Goto(r, [req[r] EXCEPT !.pc = "record", !.new = new])
            /\ UNCHANGED <<analyses, ideas, approvals, briefs, entries>>
    ELSE Refused(r)

\* Mutant: the guard is the status the route read, not the row's.
MutantApproveReviewed(r) ==
    /\ At(r, "approve")
    /\ IF req[r].saw \in Approvable(req[r].kind)
       THEN /\ SetStatus(req[r].kind, req[r].row, "approved")
            /\ Goto(r, [req[r] EXCEPT !.pc = "record", !.new = "approved"])
            /\ UNCHANGED <<analyses, ideas, approvals, briefs, entries>>
       ELSE Refused(r)
ApproveReviewed(r) ==
    /\ At(r, "approve")
    /\ Decide(r, Approvable(req[r].kind), {"approved"})

RejectReviewed(r) ==
    /\ At(r, "reject")
    /\ Decide(r, Rejectable(req[r].kind), Rejections(req[r].kind))

\* recordBestEffort never throws: the handler replies either way.
RecordEntry(r) ==
    /\ At(r, "record")
    /\ \/ entries' = Append(entries, [kind |-> req[r].kind, row |-> req[r].row,
                                      before |-> req[r].saw, after |-> req[r].new])
       \/ UNCHANGED entries
    /\ Reply(r)
    /\ UNCHANGED work

(***************************************************************************)
(* The process or the connection of a request dies between two steps.      *)
(***************************************************************************)
Interrupt(r) ==
    /\ req[r].pc # "idle"
    /\ failures < MaxFailures
    /\ failures' = failures + 1
    /\ req' = [req EXCEPT ![r] = Idle]
    /\ UNCHANGED <<work, entries, requests>>

Handle(r) ==
    \/ StartAnalysis(r) \/ AnalyseReference(r) \/ SynthesiseDna(r) \/ InsertVersion(r)
    \/ StartIdeation(r) \/ CreateIdea(r) \/ DecideIdea(r) \/ SetApprovalOutcome(r)
    \/ ReadIdea(r) \/ CreateBrief(r) \/ ReadBrief(r) \/ WriteBrief(r)
    \/ StartLayout(r) \/ ReadLayoutDna(r) \/ AskLayout(r) \/ CreatePlan(r)
    \/ StartQa(r) \/ ReadQaBrief(r) \/ ReadQaDna(r) \/ SaveReport(r)
    \/ ReadReviewed(r) \/ ApproveReviewed(r) \/ RejectReviewed(r) \/ RecordEntry(r)
    \/ Interrupt(r)

Next == \E r \in Requests : Handle(r)

Spec == Init /\ [][Next]_vars

(***************************************************************************)
(* Properties                                                              *)
(***************************************************************************)
Local == [pc : PCs, kind : Kinds \cup {"none"}, row : Nat, saw : Statuses \cup {"none"},
          new : Statuses \cup IdeaStatuses \cup {"none"}, dna : Nat, ref : Nat, left : Nat]

\* Every variable has its type.
TypeOK ==
    /\ analyses \in [1 .. References -> Nat]
    /\ ideas \in Seq(Idea) /\ approvals \in Seq(Approval)
    /\ dna \in Seq(Dna) /\ briefs \in Seq(Brief)
    /\ plans \in Seq(Plan) /\ reports \in Seq(Report)
    /\ entries \in Seq(Entry)
    /\ req \in [Requests -> Local]
    /\ requests \in Nat /\ failures \in Nat

\* Concurrent analysis runs never share a version number and never leave a gap: the
\* number is computed in the INSERT, and the loser of a race gets none.
VersionsInOrder == \A d \in DOMAIN dna : dna[d].version = d

\* A DNA version exists only if its run analysed every reference: a run that fails at
\* any reference, or in the synthesis, leaves no version, although it leaves rows.
VersionsAnalysed == \A i \in 1 .. References : Len(dna) <= analyses[i]

\* The approval a brief names is an approval of the idea it was made from, even when
\* the idea is decided again between the gate and the INSERT.
BriefsRestOnAnApproval ==
    \A b \in DOMAIN briefs :
       /\ briefs[b].approval \in DOMAIN approvals
       /\ approvals[briefs[b].approval] = [idea |-> briefs[b].idea, status |-> "approved"]

\* A plan that names a DNA version, and every QA report, used one that a person had
\* approved, whatever became of it during the AI call.
WorkRestsOnApprovedDna ==
    /\ \A p \in DOMAIN plans : plans[p].dna # 0 => dna[plans[p].dna].approvedBy
    /\ \A q \in DOMAIN reports : dna[reports[q].dna].approvedBy

\* A QA report judges an approved plan: nothing un-approves a plan during the minutes
\* the model takes, nor afterwards.
ReportsJudgeApprovedPlans ==
    \A q \in DOMAIN reports : plans[reports[q].plan].status = "approved"

\* The audit trail never contradicts the tables: once an entry says a plan or a report
\* was approved or rejected, that is its status; two racing reviewers get one outcome.
AuditAgrees ==
    \A e \in DOMAIN entries :
       (entries[e].kind # "design_dna" /\ entries[e].after \in {"approved", "rejected"})
          => StatusOf(entries[e].kind, entries[e].row) = entries[e].after
=============================================================================
