------------------------------- MODULE DemoApp -------------------------------
(***************************************************************************)
(* The ABCI application that comes with the Narwhal engine                 *)
(* (narwhal-abci/starknet-abci, types.rs and transaction.rs) as a pure     *)
(* state machine: every hook that matters is an operator from the          *)
(* application's memory to the memory it leaves.                           *)
(*                                                                         *)
(* All that the application ever reads of what it has written is the       *)
(* module-level counter TRANSACTIONS.  Its hasher is fed and never read,   *)
(* its States are never touched, its commits are empty, and the engine     *)
(* ignores the answers; so hashes, ids and response codes are left out.    *)
(*                                                                         *)
(* Only the calls of an embedded Cairo program exist as transactions; the  *)
(* other types are todo!().                                                *)
(***************************************************************************)
EXTENDS Naturals, Sequences

CONSTANTS
  Functions,     \* names of functions that a transaction may give
  EntryPoints,   \* the external functions of programs/fibonacci.json
  NotJson        \* bytes that serde_json does not decode to a Transaction

(* enum TransactionType *)
Transaction ==
  [kind : {"FunctionExecution"}, function : Functions]
    \cup [kind : {"Declare", "Deploy", "Invoke"}]

ASSUME DemoAppAssumption == EntryPoints \subseteq Functions /\ NotJson \notin Transaction

(***************************************************************************)
(* TransactionType::compute_and_hash panics on the types that are todo!()  *)
(* and on a function that the program does not have; it never fails.       *)
(***************************************************************************)
HashPanics(tx) == ~(tx.kind = "FunctionExecution" /\ tx.function \in EntryPoints)

Raw == Transaction \cup {NotJson}

-----------------------------------------------------------------------------
(* App::new: the counter is 0.                                              *)
NewApp == 0

(* Mutant: the counter goes on from block to block.                         *)
M_BeginBlock(app) == app

BeginBlock(app) == 0

(***************************************************************************)
(* deliver_tx decodes, hashes and counts; whether the hash is that of the  *)
(* transaction only decides on the answer.                                 *)
(***************************************************************************)
DeliverPanics(raw) ==
  \/ raw = NotJson
  \/ raw # NotJson /\ HashPanics(raw)

DeliverTx(app) == app + 1

(* The number of transactions in the log of end_block and commit.           *)
Logged(app) == app
=============================================================================
