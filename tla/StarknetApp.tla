---------------------------- MODULE StarknetApp ----------------------------
(***************************************************************************)
(* The ABCI application (sequencer/src/abci/application.rs) as a pure      *)
(* state machine: every hook is an operator from the application's memory  *)
(* to an outcome, the memory it leaves and the answer it gives.            *)
(*                                                                         *)
(* An answer is "ok" (code 0), "integrity" or "error" (code 1), or "panic" *)
(* when the hook unwinds and there is no answer at all.  Which thread runs *)
(* a hook, and what a lost answer does to the engine, belongs to the       *)
(* modules that compose this one with the consensus engine.                *)
(***************************************************************************)
EXTENDS Transactions

CONSTANTS
  Undecodable,          \* bytes that bincode does not decode to a Transaction
  UnknownContractFails  \* does get_class_hash_at fail for an unknown address?

ASSUME StarknetAppAssumption ==
  /\ Undecodable \notin Transaction
  /\ UnknownContractFails \in BOOLEAN

Raw     == Transaction \cup {Undecodable}
Replies == {"ok", "integrity", "error", "panic"}

-----------------------------------------------------------------------------
(***************************************************************************)
(* struct StarknetApp with the module-level counter TRANSACTIONS.          *)
(*   hasher        what has been fed to the SHA-256 hasher so far          *)
(*   classes       class hashes that set_contract_class stored             *)
(*   contracts     addresses that deploy_contract stored; the class of an  *)
(*                 address is its second component                         *)
(*   poisoned      has a thread panicked while it held starknet_state?     *)
(*   transactions  deliver_tx calls since the last begin_block             *)
(* TIMER, the configuration, which never changes, and the storage of the   *)
(* contracts, which no hook changes (see InvokeTx), are left out.          *)
(***************************************************************************)
App == [hasher       : Seq(Hashes),
        classes      : SUBSET Classes,
        contracts    : SUBSET Addresses,
        poisoned     : BOOLEAN,
        transactions : Nat]

NewApp == [hasher |-> << >>, classes |-> {}, contracts |-> {},
           poisoned |-> FALSE, transactions |-> 0]

Outcome(app, reply) == [app |-> app, reply |-> reply]

(* Mutant: begin_block starts the timer and forgets the counter.            *)
M_BeginBlock(app) == app

(* begin_block resets the counter; end_block and init_chain only log.       *)
BeginBlock(app) == [app EXCEPT !.transactions = 0]

(* Mutant: check_tx does not look at the bytes at all.                      *)
M_CheckTx(raw) == "ok"

(* check_tx decodes the bytes and looks at nothing else.                    *)
CheckTx(raw) == IF raw = Undecodable THEN "panic" ELSE "ok"

(***************************************************************************)
(* The arms of deliver_tx's match on the transaction type.                 *)
(***************************************************************************)

(* lock().map(set_contract_class).unwrap(): a poisoned lock panics.         *)
DeclareTx(app, t) ==
  IF app.poisoned
    THEN Outcome(app, "panic")
    ELSE Outcome([app EXCEPT !.classes = @ \cup {ClassHash(t.program)}], "ok")

(***************************************************************************)
(* let _ = lock().map(deploy_contract): a poisoned lock, like an address   *)
(* that is taken, goes unnoticed.  That the class is declared is not       *)
(* checked.                                                                *)
(***************************************************************************)
DeployTx(app, t) ==
  IF app.poisoned
    THEN Outcome(app, "ok")
    ELSE Outcome([app EXCEPT !.contracts =
                    @ \cup {ContractAddress(t.class_hash, t.salt)}], "ok")

(* Mutant: the panic on an unknown contract is caught and answered.         *)
M_InvokeTxCaught(app, t) ==
  IF /\ Parses(t.address) /\ ~app.poisoned
     /\ t.address \notin app.contracts /\ UnknownContractFails
    THEN Outcome([app EXCEPT !.poisoned = TRUE], "ok")
    ELSE Outcome(app, IF app.poisoned \/ t.address = TooShort THEN "panic" ELSE "ok")

(* Mutant: a poisoned lock goes unnoticed, as it does in DeployTx.          *)
M_InvokeTxUnnoticed(app, t) ==
  IF /\ Parses(t.address) /\ ~app.poisoned
     /\ t.address \notin app.contracts /\ UnknownContractFails
    THEN Outcome([app EXCEPT !.poisoned = TRUE], "panic")
    ELSE Outcome(app, IF t.address = TooShort THEN "panic" ELSE "ok")

(***************************************************************************)
(* run_invoke_tx.  The slice of a short address panics before the lock is  *)
(* taken; an address that does not parse is an error.  Under the lock, an  *)
(* unknown contract panics if get_class_hash_at fails, and poisons the     *)
(* mutex; a class that was never declared is an error.  Execution runs on  *)
(* `state.clone()`, which is dropped, so it leaves the memory as it was,   *)
(* and deliver_tx answers code 0 to a result and to an error alike.        *)
(***************************************************************************)
InvokeTx(app, t) ==
  CASE t.address = TooShort -> Outcome(app, "panic")
    [] t.address = NotHex   -> Outcome(app, "ok")
    [] Parses(t.address) /\ app.poisoned -> Outcome(app, "panic")
    [] /\ Parses(t.address) /\ ~app.poisoned
       /\ t.address \notin app.contracts /\ UnknownContractFails ->
         Outcome([app EXCEPT !.poisoned = TRUE], "panic")
    [] OTHER -> Outcome(app, "ok")

ApplyTx(app, t) ==
  CASE t.kind = "Declare"       -> DeclareTx(app, t)
    [] t.kind = "DeployAccount" -> DeployTx(app, t)
    [] t.kind = "Invoke"        -> InvokeTx(app, t)

(***************************************************************************)
(* deliver_tx: decode, recompute the hash, count, compare, feed the hasher *)
(* and only then apply.                                                    *)
(***************************************************************************)
Counted(app)   == [app EXCEPT !.transactions = @ + 1]
Hashed(app, h) == [app EXCEPT !.hasher = Append(@, h)]

Deliver(app, raw) ==
  CASE raw = Undecodable -> Outcome(app, "panic")
    [] raw # Undecodable /\ HashPanics(raw.type) -> Outcome(app, "panic")
    [] raw # Undecodable /\ HashFails(raw.type) -> Outcome(Counted(app), "error")
    [] OTHER ->
         IF Integral(raw)
           THEN ApplyTx(Hashed(Counted(app), raw.hash), raw.type)
           ELSE Outcome(Counted(app), "integrity")

(* commit: a digest of everything the hasher was fed since the process     *)
(* started, and info, which always reports an empty hash.                   *)
CommitHash(app) == <<"sha256", app.hasher>>
InfoHash        == <<"empty">>

-----------------------------------------------------------------------------
(***************************************************************************)
(* For stating properties: what the hasher has been fed, and that it was   *)
(* fed exactly the classes and addresses that the memory stores.  After a  *)
(* panic under the state lock one direction is left.                       *)
(***************************************************************************)
Fed(app) == {app.hasher[i] : i \in 1..Len(app.hasher)}

Covers(app) ==
  /\ app.classes \subseteq Fed(app)
  /\ app.contracts \subseteq Fed(app)
  /\ ~app.poisoned => Fed(app) \cap Classes \subseteq app.classes
  /\ ~app.poisoned => Fed(app) \cap Addresses \subseteq app.contracts
=============================================================================
