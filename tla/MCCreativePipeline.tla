-------------------------- MODULE MCCreativePipeline --------------------------
(* Instances of CreativePipeline: databases its own requests lead to.         *)
EXTENDS CreativePipeline, TLC

CONSTANTS a, b      \* request slots

\* A new client.
NewClient ==
    [analyses |-> [i \in 1 .. References |-> 0], ideas |-> << >>, approvals |-> << >>,
     dna |-> << >>, briefs |-> << >>, plans |-> << >>, reports |-> << >>]
\* The first DNA version waits for a decision; one idea was approved, one is pending.
Ideas ==
    [NewClient EXCEPT
        !.analyses = [i \in 1 .. References |-> 1],
        !.dna = <<[version |-> 1, status |-> "generated", approvedBy |-> FALSE]>>,
        !.ideas = <<[status |-> "approved", approval |-> 1],
                    [status |-> "pending_approval", approval |-> 0]>>,
        !.approvals = <<[idea |-> 1, status |-> "approved"]>>]
\* The DNA and a brief made from the approved idea are approved, and its layouts wait.
Layouts ==
    [Ideas EXCEPT
        !.dna = <<[version |-> 1, status |-> "approved", approvedBy |-> TRUE]>>,
        !.briefs = <<[idea |-> 1, approval |-> 1, status |-> "approved"]>>,
        !.plans = <<[brief |-> 1, dna |-> 1, status |-> "generated"],
                    [brief |-> 1, dna |-> 1, status |-> "generated"]>>]
\* One layout is approved and has failed Creative QA.
Judged ==
    [Layouts EXCEPT
        !.plans[1].status = "approved",
        !.reports = <<[plan |-> 1, dna |-> 1, status |-> "failed"]>>]

AllStarts == {NewClient, Ideas, Layouts, Judged}
Slots == Permutations({a, b})
=============================================================================
