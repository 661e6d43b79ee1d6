----------------------------- MODULE MCProduction -----------------------------
(* Instances of Production, on databases the pipeline's requests lead to.    *)
EXTENDS Production, TLC

CONSTANTS
    a, x, y,    \* slots of a pipeline request and of two makers
    local, s3   \* storage providers

\* An approved plan has a report that passed.
Passed ==
    [analyses |-> [i \in 1 .. References |-> 1],
     ideas |-> <<[status |-> "approved", approval |-> 1]>>,
     approvals |-> <<[idea |-> 1, status |-> "approved"]>>,
     dna |-> <<[version |-> 1, status |-> "approved", approvedBy |-> TRUE]>>,
     briefs |-> <<[idea |-> 1, approval |-> 1, status |-> "approved"]>>,
     plans |-> <<[brief |-> 1, dna |-> 1, status |-> "approved"]>>,
     reports |-> <<[plan |-> 1, dna |-> 1, status |-> "passed"]>>]

ClearedPlan == {Passed}
\* Nothing, or the image of a first alternative, stored while local was active.
OneImageOrNone ==
    LET image == [provider |-> local, kind |-> "image", key |-> 1]
    IN  {[outputs |-> << >>, objects |-> {}],
         [outputs |-> <<[plan |-> 1, index |-> 1, status |-> "generated",
                         approval |-> "pending", file |-> image]>>,
          objects |-> {image}]}
Symmetric == Permutations({x, y})
=============================================================================
