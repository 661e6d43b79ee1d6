------------------------------ MODULE MCRunPage ------------------------------
(* Instances of RunPage on the definitions of MCWorkflowEngine: one page,     *)
(* whose cancel handler runs beside the others, and a reviewer elsewhere.     *)
EXTENDS RunPage, MCWorkflowEngine

OnePage == (a :> {"start", "advance", "approve", "reject"}) @@ (b :> {"cancel"})
           @@ (c :> {"review"})
==============================================================================
