------------------------------ MODULE MCClient -------------------------------
(***************************************************************************)
(* The client on a small instance.  The hash of an invocation contains the *)
(* address, and so the hash of the deployment of its contract.             *)
(***************************************************************************)
EXTENDS Client

CONSTANTS p, s, f, i1, i2, i3, prefix

Declare == [kind |-> "Declare", program |-> p]
Broken  == [kind |-> "Declare", program |-> BadProgram]
Deploy(c) == [kind |-> "DeployAccount", class_hash |-> c, salt |-> s]
InvokeAt(a) == [kind |-> "Invoke", address |-> a, function |-> f]
Invoke      == InvokeAt(ContractAddress(ClassHash(p), s))

MCPrograms  == {p}
MCSalts     == {s}
MCFunctions == {f}
MCIds       == {i1, i2, i3}

Hash(t) == ComputeAndHash(t)

Corrupted == [WithType(Invoke, i3) EXCEPT !.hash = Hash(Declare)]

MCOrders == {Declare, Deploy(ClassHash(p)), Invoke,
             Deploy(NotHex), Broken, InvokeAt(TooShort)}
MCOthers == {Corrupted}

(* A hash that another contains, and a prefix of all hashes.                *)
MCKeys == {Hash(Deploy(ClassHash(p))), prefix}

MCContaining ==
  [k \in Keys |->
     IF k = prefix THEN Hashes ELSE {Hash(Deploy(ClassHash(p))), Hash(Invoke)}]
=============================================================================
