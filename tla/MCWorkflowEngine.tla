-------------------------- MODULE MCWorkflowEngine --------------------------
(* Instances of WorkflowEngine: shortened versions of workflows/*.json that  *)
(* keep every kind of step, the order around the gate and its on_reject.     *)
EXTENDS WorkflowEngine, TLC

CONSTANTS a, b, c   \* request slots

Step(kind) == [kind |-> kind, gate |-> "none", returnTo |-> 0]
Gate(gate, returnTo) == [kind |-> "gate", gate |-> gate, returnTo |-> returnTo]

\* style-library-ingestion: on_reject names the verifying step, order 2.
StyleLibrary == <<Step("generate"), Step("read"), Gate("design_dna", 2), Step("verify")>>
DesignBrief == <<Step("context"), Step("generate"), Gate("design_brief", 2), Step("verify")>>
LayoutGeneration == <<Step("generate"), Step("skip"), Gate("layout_plan", 1), Step("verify")>>
ContentGeneration == <<Step("generate"), Gate("content_idea", 0), Step("skip"), Step("verify")>>
VisualGeneration == <<Step("generate"), Step("read"), Gate("generated_output", 0), Step("context")>>
CreativeQa == <<Step("generate"), Step("read"), Gate("creative_qa", 0)>>
Onboarding == <<Step("context"), Step("skip"), Step("future"), Gate("brand_profile_future", 2)>>

AllShapes == {StyleLibrary, DesignBrief, LayoutGeneration, ContentGeneration,
              VisualGeneration, CreativeQa, Onboarding}
LoopShapes == {StyleLibrary, DesignBrief, LayoutGeneration}

\* The shortest definitions with each hazard, for runs where requests race freely:
\* a revision loop, an arrival rule, a future step.
ShortLoop == <<Step("generate"), Gate("layout_plan", 1), Step("verify")>>
ShortFuture == <<Step("skip"), Step("future"), Gate("brand_profile_future", 0)>>
ShortShapes == {ShortLoop, CreativeQa, ShortFuture}

\* One person drives the run, the others review, cancel and use entity routes.
OneDriver == (a :> {"start", "advance"}) @@ (b :> {"approve", "reject"})
             @@ (c :> {"approve", "reject", "cancel", "review"})
\* Two people use every endpoint.
TwoOfEach == [r \in {a, b} |-> Operations \ {"review"}]
\* One person does everything, one call after the other.
OnePerson == (a :> Operations)
\* Slots with the same endpoints are interchangeable.
Slots == Permutations({a, b})
=============================================================================
