------------------------------- MODULE RunPage -------------------------------
(***************************************************************************)
(* The page of a workflow run (dashboard app/workflow-runs/[id]/page.tsx)  *)
(* in front of the engine.  The page shows what its last reload brought,   *)
(* offers buttons by that, and reloads after its calls, in two statements  *)
(* of the API and one answer.  Each slot of Page is one of its handlers,   *)
(* which is busy until its reload is shown; the other slots are people who *)
(* review entities elsewhere.                                              *)
(***************************************************************************)
EXTENDS WorkflowEngine

CONSTANT Page       \* the request slots of the page's handlers

ASSUME PageAssumption == Page \subseteq Requests
\* workflows/*.json: a gate that can be decided stands behind a step that generates.
ASSUME SubjectAssumption ==
    \A d \in Catalog : \A g \in DOMAIN d :
       d[g].kind = "gate" /\ d[g].gate # "brand_profile_future" =>
          \E s \in DOMAIN d : s < g /\ d[s].kind = "generate"

VARIABLES
    phase,      \* of every handler: its call, then the reload
    read,       \* what its reload has read so far
    shown       \* detail: the run and the steps on the page

pageVars == <<phase, read, shown>>

NoDetail == [status |-> "none", current |-> 0, steps |-> << >>]

\* The workflow's page starts the run and goes to the run's page, which loads it.
PageInit ==
    /\ Init
    /\ phase = [r \in Requests |-> IF r \in Page /\ "start" \in MayIssue[r]
                                   THEN "start" ELSE "none"]
    /\ read = [r \in Requests |-> NoDetail]
    /\ shown = NoDetail

(***************************************************************************)
(* The buttons                                                             *)
(***************************************************************************)
\* showAdvance: a current step that is done already gets no button.
ShowAdvance ==
    /\ shown.status = "in_progress"
    /\ shown.current \in DOMAIN shown.steps
    /\ shown.steps[shown.current].status = "pending"
Cancellable == {"in_progress", "waiting_for_approval", "blocked_future_feature", "qa_failed"}
Offered == (IF ShowAdvance THEN {"advance"} ELSE {})
           \cup (IF shown.status = "waiting_for_approval" THEN {"approve", "reject"} ELSE {})
           \cup (IF shown.status \in Cancellable THEN {"cancel"} ELSE {})

Click(r) ==
    /\ r \in Page /\ phase[r] = "none"
    /\ \E op \in Offered \cap MayIssue[r] :
          /\ op = "reject" => \A s \in Orders : IsGate(s) => steps[s].rev < MaxRevisions
          /\ phase' = [phase EXCEPT ![r] = op]
    /\ UNCHANGED <<vars, read, shown>>

(***************************************************************************)
(* The calls                                                               *)
(***************************************************************************)
\* The catch blocks: only handleAdvance reloads.
AfterFailure(op) == IF op = "advance" THEN "load" ELSE "none"

\* The engine's first read of the run lets the call in; decisions go on to read more.
Admits(op) ==
    CASE op = "advance" -> run.status = "in_progress" /\ run.current # 0
      [] op \in {"approve", "reject"} -> run.status = "waiting_for_approval" /\ run.current # 0
      [] op = "cancel" -> run.status \in Cancellable
      [] OTHER -> TRUE
Receive(r) ==
    /\ phase[r] \in Operations /\ At(r, "idle")
    /\ \/ phase[r] = "start" /\ Start(r) /\ UNCHANGED phase
       \/ phase[r] = "advance" /\ Advance(r) /\ UNCHANGED phase
       \/ phase[r] = "approve" /\ ReceiveDecision(r) /\ req'[r].decision = "approved"
          /\ UNCHANGED phase
       \/ phase[r] = "reject" /\ ReceiveDecision(r) /\ req'[r].decision = "rejected"
          /\ UNCHANGED phase
       \/ phase[r] = "cancel" /\ Cancel(r)
          /\ phase' = [phase EXCEPT ![r] = "load"]
       \/ ~Admits(phase[r]) /\ phase' = [phase EXCEPT ![r] = AfterFailure(@)]
          /\ UNCHANGED vars
    /\ UNCHANGED <<read, shown>>

\* GATE_KINDS has no entry for visual-generation: the page never names an output.
Sendable(r) == At(r, "find_entity") => def[req[r].at].gate # "generated_output"
Work(r) ==
    /\ ~At(r, "idle")
    /\ \/ /\ Starting(r) \/ Advancing(r) \/ Arming(r) \/ (Sendable(r) /\ Deciding(r))
          /\ phase' = [phase EXCEPT ![r] = IF req'[r].pc = "idle" THEN "load" ELSE @]
       \/ /\ Refuse(r)
          /\ phase' = [phase EXCEPT ![r] = AfterFailure(@)]
    /\ UNCHANGED <<read, shown>>

(***************************************************************************)
(* loadAll                                                                 *)
(***************************************************************************)
ReadRun(r) ==
    /\ phase[r] = "load"
    /\ read' = [read EXCEPT ![r] = [NoDetail EXCEPT !.status = run.status,
                                                    !.current = run.current]]
    /\ phase' = [phase EXCEPT ![r] = "load_steps"]
    /\ UNCHANGED <<vars, shown>>
ReadSteps(r) ==
    /\ phase[r] = "load_steps"
    /\ read' = [read EXCEPT ![r].steps = steps]
    /\ phase' = [phase EXCEPT ![r] = "loaded"]
    /\ UNCHANGED <<vars, shown>>
\* A reload that fails leaves a page without run and buttons.
Show(r) ==
    /\ \/ phase[r] = "loaded" /\ shown' = read[r]
       \/ phase[r] \in {"load", "load_steps"} /\ shown' = NoDetail
    /\ phase' = [phase EXCEPT ![r] = "none"]
    /\ read' = [read EXCEPT ![r] = NoDetail]
    /\ UNCHANGED vars

OtherPerson(r) == r \notin Page /\ ReviewDirectly(r) /\ UNCHANGED pageVars

PageNext == \E r \in Requests :
    \/ Click(r) \/ Receive(r) \/ Work(r)
    \/ ReadRun(r) \/ ReadSteps(r) \/ Show(r) \/ OtherPerson(r)
PageSpec == PageInit /\ [][PageNext]_<<vars, pageVars>>

-----------------------------------------------------------------------------
(***************************************************************************)
(* What the engine would answer if the button were clicked now             *)
(***************************************************************************)
GateKind == def[run.current].gate
\* What the page lets its user decide: of ideas and plans those of the last generation.
Selectable == IF GateKind \in {"content_idea", "layout_plan"} THEN Newest
              ELSE Candidates(GateKind, run.output)
\* performGateApproval and performGateRejection.  An idea is decided while it awaits it,
\* or the approval an idea of the run got elsewhere is taken over.
Decidable(decision) ==
    IF GateKind = "content_idea"
    THEN \/ \E e \in Selectable : entities[e].status = "generated"
         \/ decision = "approved" /\ \E e \in Linked : entities[e].status = "approved"
    ELSE \E e \in Selectable : Outcomes(GateKind, entities[e].status, decision) # {}
AtWaitingGate ==
    /\ run.status = "waiting_for_approval" /\ run.current \in Orders
    /\ IsGate(run.current) /\ steps[run.current].status = "waiting_for_approval"
\* The call runs through all its checks to its first write.
Accepts(op) ==
    CASE op = "advance" ->
            /\ run.status = "in_progress" /\ run.current \in Orders
            /\ steps[run.current].status = "pending"
            /\ def[run.current].kind \in Executable \cup {"skip"}
      [] op = "approve" -> AtWaitingGate /\ Decidable("approved")
      [] op = "reject" -> AtWaitingGate /\ Decidable("rejected")
      [] OTHER -> run.status \in Cancellable

\* The two gates that GATE_KINDS has no entry for: the page says the server will refuse.
PlaceholderGate == GateKind \in {"generated_output", "brand_profile_future"}
\* Somebody decided what waits at the gate through its own route, and not for the run.
DecidedElsewhere ==
    \E e \in Selectable : /\ entities[e].status # "generated"
                          /\ \A i \in DOMAIN approvals : approvals[i].ent # e

\* Whatever the handlers of one page do to each other and others do to the entities: once
\* nothing is under way and the page shows a run at all, a live run can be gone on with
\* from the page.  It offers a button beside cancel, and the engine carries out every call
\* a button makes, through many revisions too: never is a gate open on an entity that the
\* run itself has rejected.  Excepted are the decisions the page itself announces as
\* refused, and those on an entity that was decided elsewhere while the gate waited.
OfferIsAccepted ==
    /\ Quiet /\ shown # NoDetail /\ \A r \in Requests : phase[r] = "none"
    /\ run.status \in {"in_progress", "waiting_for_approval"}
    => /\ Offered \ {"cancel"} # {}
       /\ \A op \in Offered :
             \/ Accepts(op)
             \/ /\ op \in {"approve", "reject"} /\ AtWaitingGate
                /\ PlaceholderGate \/ DecidedElsewhere
=============================================================================
