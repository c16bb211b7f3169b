---------------------------- MODULE MCNarwhalDemo ----------------------------
(***************************************************************************)
(* The Narwhal demo on a small instance: a transaction that is executed    *)
(* and two that panic, in the decoder and in the hash.                     *)
(***************************************************************************)
EXTENDS NarwhalDemo

CONSTANTS main, other

Execution(f) == [kind |-> "FunctionExecution", function |-> f]

MCInputs == {Execution(main), Execution(other), NotJson}
=============================================================================
