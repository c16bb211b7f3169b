------------------------------ MODULE MCFabfile ------------------------------
(* An instance of Fabfile with two regions: a committee of two and then     *)
(* three collocated nodes, and one of two nodes in two regions, of which    *)
(* one is faulty.                                                           *)
EXTENDS Fabfile

MCBenchParams ==
  {[nodes |-> <<2, 3>>, faults |-> 0, workers |-> 1, collocate |-> TRUE],
   [nodes |-> <<2>>, faults |-> 1, workers |-> 1, collocate |-> FALSE]}
=============================================================================
