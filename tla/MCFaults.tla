------------------------------ MODULE MCFaults ------------------------------
(***************************************************************************)
(* The sequencer with faults on a small instance: a declaration, the       *)
(* deployment and invocation of its contract, and bytes nobody lets in.    *)
(***************************************************************************)
EXTENDS SequencerFaults, TLC

CONSTANTS p, s, f, i1

Class   == ClassHash(p)
Address == ContractAddress(Class, s)

MCPrograms  == {p}
MCSalts     == {s}
MCFunctions == {f}
MCIds       == {i1}

MCInputs ==
  {WithType([kind |-> "Declare", program |-> p], i1),
   WithType([kind |-> "DeployAccount", class_hash |-> Class, salt |-> s], i1),
   WithType([kind |-> "Invoke", address |-> Address, function |-> f], i1),
   Undecodable}

Symmetry == Permutations(Nodes)
=============================================================================
