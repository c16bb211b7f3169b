--------------------------- MODULE BlockExecution ---------------------------
(***************************************************************************)
(* One ABCI application process as its consensus engine sees it: the       *)
(* requests of a block, what the process holds, and what a request makes   *)
(* of it.  Sequencer and SequencerFaults drive replicas of this kind.      *)
(***************************************************************************)
EXTENDS StarknetApp

CONSTANTS
  Inputs,        \* the bytes that clients broadcast
  MaxBlockTxs    \* max_tx_bytes, in transactions: what fits in a proposal

ASSUME ReplicaAssumption == Inputs \subseteq Raw /\ MaxBlockTxs \in Nat

-----------------------------------------------------------------------------
(***************************************************************************)
(* prepare_proposal keeps the longest prefix that fits (how it gets there  *)
(* is in ProposalTrim), and process_proposal accepts every proposal.       *)
(***************************************************************************)
PrepareProposal(txs) ==
  SubSeq(txs, 1, IF Len(txs) < MaxBlockTxs THEN Len(txs) ELSE MaxBlockTxs)

ProcessProposal(txs) == TRUE

(***************************************************************************)
(* One request on the consensus connection.                                *)
(***************************************************************************)
Begin      == [kind |-> "begin_block"]
DeliverReq(raw) == [kind |-> "deliver_tx", tx |-> raw]
End        == [kind |-> "end_block"]
Commit     == [kind |-> "commit"]

Requests == {Begin, End, Commit} \cup {DeliverReq(raw) : raw \in Inputs}

Block(txs) ==
  <<Begin>> \o [i \in 1..Len(txs) |-> DeliverReq(txs[i])] \o <<End, Commit>>

(***************************************************************************)
(* What a replica holds: the application's memory, the number in its       *)
(* abci.height file, and the application hashes it has handed to its       *)
(* engine, one for each commit.                                            *)
(***************************************************************************)
Hash    == {"sha256"} \X Seq(Hashes)
Replica == [app : App, height : Nat, hashes : Seq(Hash)]

NewReplica == [app |-> NewApp, height |-> 0, hashes |-> << >>]

(* Mutant: commit hands out the hasher's input instead of its digest.       *)
M_CommitReplica(r) ==
  [app    |-> r.app,
   height |-> r.height + 1,
   hashes |-> Append(r.hashes, r.app.hasher)]

(* commit: hash the hasher's input, HeightFile::increment, answer.          *)
CommitReplica(r) ==
  [app    |-> r.app,
   height |-> r.height + 1,
   hashes |-> Append(r.hashes, CommitHash(r.app))]

(* The replica after a request, and the answer.                             *)
After(r, q) ==
  CASE q.kind = "begin_block" -> [r EXCEPT !.app = BeginBlock(@)]
    [] q.kind = "deliver_tx"  -> [r EXCEPT !.app = Deliver(@, q.tx).app]
    [] q.kind = "end_block"   -> r
    [] q.kind = "commit"      -> CommitReplica(r)

Answer(r, q) ==
  IF q.kind = "deliver_tx" THEN Deliver(r.app, q.tx).reply ELSE "ok"
=============================================================================
