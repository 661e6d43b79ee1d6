---------------------------- MODULE MCOutputCard ----------------------------
(* Instances of OutputCard, on databases the API leads to.                   *)
EXTENDS OutputCard

Rendered == [status |-> "rendered", asked |-> FALSE, attempts |-> 1, file |-> TRUE]
\* Nothing, and a package that was rendered once.
NoneOrRendered ==
    {[jobs |-> << >>, renders |-> << >>],
     [jobs |-> <<"package_ready">>, renders |-> <<Rendered>>]}
=============================================================================
