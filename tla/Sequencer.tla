----------------------------- MODULE Sequencer -----------------------------
(***************************************************************************)
(* The sequencer without faults of its own: one ABCI application per node, *)
(* each driven by its CometBFT engine through the consensus connection.    *)
(*                                                                         *)
(* CometBFT is not part of the repository.  It is modelled from what the   *)
(* application and its client rely on: the nodes agree on one sequence of  *)
(* blocks, every engine sends its application begin_block, deliver_tx for  *)
(* each transaction, end_block and commit, one request at a time and in    *)
(* that order, and an engine whose application drops a connection (the     *)
(* hook panicked, and took the thread of the connection with it) stops.    *)
(* Signatures, votes and rounds are left out, and so is a second mempool:  *)
(* mempool is the queue of transactions that some node has let in.         *)
(***************************************************************************)
EXTENDS BlockExecution, FiniteSets

CONSTANTS
  Nodes,
  MaxTxs,        \* bound: transactions let in altogether
  MaxBlocks      \* bound: blocks decided altogether

ASSUME SequencerAssumption == MaxTxs \in Nat /\ MaxBlocks \in Nat

VARIABLES
  mempool,   \* transactions let in and not decided yet, in order
  reqs,      \* the requests of all decided blocks, flattened
  pos,       \* pos[n]: how many of them node n's application has answered
  replica,   \* replica[n]: what node n's application holds
  down,      \* down[n]: the hook whose panic stopped node n, or "no"
  executed   \* history: executed[k] is what a replica holds before reqs[k],
             \* as computed by the first node to get there

vars == <<mempool, reqs, pos, replica, down, executed>>

-----------------------------------------------------------------------------
(* TX_IN_CACHE: CometBFT asks check_tx about new bytes only.                *)
Known == {mempool[i] : i \in 1..Len(mempool)}
           \cup {q.tx : q \in {reqs[i] : i \in 1..Len(reqs)} \ {Begin, End, Commit}}

BlocksDecided == Cardinality({i \in 1..Len(reqs) : reqs[i] = Commit})

-----------------------------------------------------------------------------
Init ==
  /\ mempool  = << >>
  /\ reqs     = << >>
  /\ pos      = [n \in Nodes |-> 0]
  /\ replica  = [n \in Nodes |-> NewReplica]
  /\ down     = [n \in Nodes |-> "no"]
  /\ executed = <<NewReplica>>

(* Mutant: check_tx executes the transaction on the state all connections   *)
(* share, instead of only looking at it.                                    *)
M_CheckTxOk(n, raw) ==
  /\ down[n] = "no"
  /\ raw \notin Known
  /\ Cardinality(Known) < MaxTxs
  /\ CheckTx(raw) = "ok"
  /\ mempool' = Append(mempool, raw)
  /\ replica' = [replica EXCEPT ![n].app = Deliver(@, raw).app]
  /\ UNCHANGED <<reqs, pos, down, executed>>

(***************************************************************************)
(* check_tx on the mempool connection of node n, for a transaction that a  *)
(* client broadcasts.  Bytes that do not decode panic; everything else is  *)
(* let in.                                                                 *)
(***************************************************************************)
CheckTxOk(n, raw) ==
  /\ down[n] = "no"
  /\ raw \notin Known
  /\ Cardinality(Known) < MaxTxs
  /\ CheckTx(raw) = "ok"
  /\ mempool' = Append(mempool, raw)
  /\ UNCHANGED <<reqs, pos, replica, down, executed>>

(* Mutant: check_tx decodes with the state locked, and the engine goes on   *)
(* after its panic.                                                         *)
M_CheckTxPanic(n, raw) ==
  /\ down[n] = "no"
  /\ raw \notin Known
  /\ CheckTx(raw) = "panic"
  /\ replica' = [replica EXCEPT ![n].app.poisoned = TRUE]
  /\ UNCHANGED <<mempool, reqs, pos, down, executed>>

CheckTxPanic(n, raw) ==
  /\ down[n] = "no"
  /\ raw \notin Known
  /\ CheckTx(raw) = "panic"
  /\ down' = [down EXCEPT ![n] = "check_tx"]
  /\ UNCHANGED <<mempool, reqs, pos, replica, executed>>

(***************************************************************************)
(* Node n proposes, and the nodes decide, the next block.  The proposer    *)
(* has executed all the earlier blocks.  It hands its mempool to           *)
(* prepare_proposal, which keeps the longest prefix that fits (module      *)
(* ProposalTrim); process_proposal accepts every proposal.                 *)
(***************************************************************************)
Decide(n) ==
  LET txs == PrepareProposal(mempool)
  IN  /\ down[n] = "no"
      /\ pos[n] = Len(reqs)
      /\ BlocksDecided < MaxBlocks
      /\ ProcessProposal(txs)
      /\ reqs' = reqs \o Block(txs)
      /\ mempool' = SubSeq(mempool, Len(txs) + 1, Len(mempool))
      /\ UNCHANGED <<pos, replica, down, executed>>

(***************************************************************************)
(* The application of node n handles its next request.                     *)
(***************************************************************************)
Upcoming(n) == reqs[pos[n] + 1]

Ready(n) == down[n] = "no" /\ pos[n] < Len(reqs)

Handle(n) ==
  LET r == After(replica[n], Upcoming(n))
  IN  /\ Ready(n)
      /\ Answer(replica[n], Upcoming(n)) # "panic"
      /\ replica' = [replica EXCEPT ![n] = r]
      /\ pos' = [pos EXCEPT ![n] = @ + 1]
      /\ executed' = IF Len(executed) = pos[n] + 1 THEN Append(executed, r)
                                                   ELSE executed
      /\ UNCHANGED <<mempool, reqs, down>>

(* The hook unwinds, with whatever it had changed by then; no answer.       *)
HandlePanic(n) ==
  /\ Ready(n)
  /\ Answer(replica[n], Upcoming(n)) = "panic"
  /\ replica' = [replica EXCEPT ![n] = After(@, Upcoming(n))]
  /\ down' = [down EXCEPT ![n] = "deliver_tx"]
  /\ UNCHANGED <<mempool, reqs, pos, executed>>

Next ==
  \E n \in Nodes :
    \/ \E raw \in Inputs : CheckTxOk(n, raw) \/ CheckTxPanic(n, raw)
    \/ Decide(n)
    \/ Handle(n)
    \/ HandlePanic(n)

(* A thread of the ABCI server that has a request handles it.               *)
Fairness == \A n \in Nodes : WF_vars(Handle(n)) /\ WF_vars(HandlePanic(n))

Spec == Init /\ [][Next]_vars

FairSpec == Spec /\ Fairness
-----------------------------------------------------------------------------
(***************************************************************************)
(* TYPE CORRECTNESS.                                                       *)
(***************************************************************************)
TypeOK ==
  /\ mempool \in Seq(Inputs)
  /\ reqs \in Seq(Requests)
  /\ pos \in [Nodes -> Nat]
  /\ replica \in [Nodes -> Replica]
  /\ down \in [Nodes -> {"no", "check_tx", "deliver_tx"}]
  /\ executed \in Seq(Replica)

Panicked(n) == down[n] = "deliver_tx"

(***************************************************************************)
(* Replicas that have answered the same requests hold the same memory and  *)
(* height and have handed out the same hashes, whatever the interleaving,  *)
(* and two replicas that panicked on the same request left the same        *)
(* half-done changes behind.                                               *)
(***************************************************************************)
StateAgreement ==
  \A m, n \in Nodes :
    pos[m] = pos[n] /\ Panicked(m) = Panicked(n) => replica[m] = replica[n]

(***************************************************************************)
(* "This hash should be deterministic, different app state hashes will     *)
(* produce blockchain forks" (commit): any two nodes have handed the same  *)
(* hash to their engines for every height that both have committed.        *)
(***************************************************************************)
AppHashAgreement ==
  \A m, n \in Nodes :
    \A h \in 1..Len(replica[m].hashes) :
      h <= Len(replica[n].hashes) =>
        replica[m].hashes[h] = replica[n].hashes[h]

(***************************************************************************)
(* A transaction whose delivery panics is a wall for everyone: once one    *)
(* replica has panicked on a request, no replica has ever answered it.     *)
(* Otherwise part of the network would go on and part could never follow.  *)
(***************************************************************************)
HaltTogether ==
  \A m, n \in Nodes : Panicked(m) => pos[n] <= pos[m]

(***************************************************************************)
(* "The result includes a hash of the application state" (commit): the     *)
(* hasher covers a class exactly when the class is stored, and an address  *)
(* exactly when the contract is deployed, although the hasher is fed       *)
(* before the transaction is applied and failed transactions are mixed in. *)
(* After a panic under the state lock only one direction is left.          *)
(***************************************************************************)
HashCoversState == \A n \in Nodes : Covers(replica[n].app)

(***************************************************************************)
(* What end_block logs as the block's transactions is their number, also   *)
(* for a block that follows others and has failed transactions.            *)
(***************************************************************************)
EndBlockCountsBlock ==
  \A n \in Nodes :
    pos[n] < Len(reqs) /\ Upcoming(n) = End =>
      LET first == pos[n] - replica[n].app.transactions
      IN  /\ first > 0 /\ reqs[first] = Begin
          /\ \A i \in first+1..pos[n] : reqs[i] \notin {Begin, End, Commit}

(***************************************************************************)
(* check_tx keeps out of every block what deliver_tx could not decode: a   *)
(* replica that panics on a transaction at least decoded it.               *)
(***************************************************************************)
DecidedDecodes == \A i \in 1..Len(reqs) : reqs[i] # DeliverReq(Undecodable)

(***************************************************************************)
(* The sequencer implements AppHashLog: no step of any node puts out a     *)
(* hash that another node's hash of that height contradicts.               *)
(***************************************************************************)
HashesOut == [n \in Nodes |-> replica[n].hashes]
HashLog   == INSTANCE AppHashLog WITH out <- HashesOut
NoFork    == HashLog!Spec

(***************************************************************************)
(* LIVENESS.  A panic on a decided transaction stops every replica that    *)
(* did not stop for another reason: nobody stays behind, alive but stuck.  *)
(***************************************************************************)
PanicSpreads ==
  \A m, n \in Nodes : Panicked(m) ~> down[n] # "no"
=============================================================================
