---------------------------- MODULE Transactions ----------------------------
(***************************************************************************)
(* The transaction library shared by the command line client and the ABCI  *)
(* application (sequencer/src/lib/mod.rs).                                 *)
(*                                                                         *)
(* Data abstraction.  A Cairo program, a salt and a function name are      *)
(* opaque values; "salt" stands for the salt together with the constructor *)
(* inputs, "function" for the function name together with its inputs.      *)
(* The Starknet hash functions are modelled as injective constructors, so  *)
(* a hash is a tagged tuple of what it covers: equal hashes mean equal     *)
(* covered contents, and whatever a hash does not cover (the id) does not  *)
(* influence it.                                                           *)
(***************************************************************************)
EXTENDS Integers, Sequences

CONSTANTS
  Programs,    \* program texts that ContractClass::try_from accepts
  BadProgram,  \* a program text that it rejects
  Salts,
  Functions,
  NotHex,      \* a string of two or more characters with no number after them
  TooShort,    \* a string with fewer than two characters
  Ids          \* values of Uuid::new_v4()

ASSUME NamesAreDistinct ==
  /\ BadProgram \notin Programs
  /\ NotHex # TooShort

-----------------------------------------------------------------------------
ClassHash(program) == <<"class", program>>
ContractAddress(class, salt) == <<"contract", class, salt>>

Classes   == {ClassHash(p) : p \in Programs}
Addresses == {ContractAddress(c, s) : c \in Classes, s \in Salts}

(***************************************************************************)
(* enum TransactionType.  A class hash or an address is a string typed by  *)
(* the client, so it may also be one that does not parse.                  *)
(***************************************************************************)
Declares == [kind : {"Declare"}, program : Programs \cup {BadProgram}]
Deploys  == [kind : {"DeployAccount"},
             class_hash : Classes \cup {NotHex, TooShort}, salt : Salts]
Invokes  == [kind : {"Invoke"},
             address : Addresses \cup {NotHex, TooShort}, function : Functions]

TransactionType == Declares \cup Deploys \cup Invokes

Parses(string) == string \notin {NotHex, TooShort}

(***************************************************************************)
(* TransactionType::compute_and_hash either returns a hash, returns an     *)
(* error, or unwinds: `&class_hash[2..]` and the `unwrap` of               *)
(* Felt252::from_str_radix both panic on a class hash that does not parse. *)
(***************************************************************************)
HashPanics(t) == t.kind = "DeployAccount" /\ ~Parses(t.class_hash)
HashFails(t)  == t.kind = "Declare" /\ t.program = BadProgram

ComputeAndHash(t) ==
  CASE t.kind = "Declare"       -> ClassHash(t.program)
    [] t.kind = "DeployAccount" -> ContractAddress(t.class_hash, t.salt)
    [] t.kind = "Invoke"        -> <<"invoked", t.function, t.address>>

Hashes == {ComputeAndHash(t) : t \in TransactionType}

(* struct Transaction *)
Transaction == [type : TransactionType, hash : Hashes, id : Ids]

(* Transaction::with_type: the id is drawn after, and apart from, the hash. *)
WithType(t, id) == [type |-> t, hash |-> ComputeAndHash(t), id |-> id]

(* Transaction::assert_integrity, and the same comparison in deliver_tx.    *)
Integral(tx) == tx.hash = ComputeAndHash(tx.type)
=============================================================================
