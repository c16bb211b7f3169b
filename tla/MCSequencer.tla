---------------------------- MODULE MCSequencer ----------------------------
(***************************************************************************)
(* The sequencer on a small instance: one transaction of every fate.       *)
(***************************************************************************)
EXTENDS Sequencer

CONSTANTS p, s, f, i1

Class   == ClassHash(p)
Address == ContractAddress(Class, s)

Declare      == [kind |-> "Declare", program |-> p]
DeclareBad   == [kind |-> "Declare", program |-> BadProgram]
Deploy(c)    == [kind |-> "DeployAccount", class_hash |-> c, salt |-> s]
Invoke(a)    == [kind |-> "Invoke", address |-> a, function |-> f]

(* The hash of one transaction under the contents of another.               *)
Corrupted == [WithType(Invoke(Address), i1) EXCEPT !.hash = Class]

MCPrograms  == {p}
MCSalts     == {s}
MCFunctions == {f}
MCIds       == {i1}

MCInputs ==
  {WithType(Declare, i1), WithType(DeclareBad, i1),
   WithType(Deploy(Class), i1), WithType(Deploy(NotHex), i1),
   WithType(Invoke(Address), i1), Corrupted, Undecodable}
=============================================================================
