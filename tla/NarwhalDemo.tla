----------------------------- MODULE NarwhalDemo -----------------------------
(***************************************************************************)
(* The Narwhal demo as a whole: HTTP clients send transactions to the      *)
(* /broadcast_tx of a primary (abci_server.rs), which passes them on to    *)
(* its first worker; batches are ordered; and every primary's engine       *)
(* drives a demo application (DemoApp) through the blocks.                 *)
(*                                                                         *)
(* An engine is represented by what NarwhalEngine shows of it: it makes    *)
(* the calls of its certificates one after the other, and the first that   *)
(* fails ends the node.  A call fails when the application panics.         *)
(*                                                                         *)
(* The consensus and the workers are external.  The primaries agree on an  *)
(* order, which every one of them gets to know in its own time; with a     *)
(* third of them stopped nothing new is ordered, and who has not seen all  *)
(* of what is ordered by then may or may not see more of it.               *)
(***************************************************************************)
EXTENDS DemoApp, FiniteSets, SequencesExt

CONSTANTS
  Nodes,
  Inputs,       \* what clients put into /broadcast_tx?tx=
  MaxSends,     \* bound: requests to /broadcast_tx
  MaxBlocks     \* bound: certificates ordered

ASSUME DemoAssumption ==
  Inputs \subseteq Raw /\ MaxSends \in Nat /\ MaxBlocks \in Nat

VARIABLES
  sends,      \* requests made
  worker,     \* worker[n]: what worker 0 of node n has and no batch holds
  blocks,     \* the order that is agreed on: one batch for each certificate
  output,     \* output[n]: how many of them the consensus of n has put out
  done,       \* done[n]: blocks that the engine of n has committed
  next,       \* next[n]: 0 or the place in its next block that n has got to
  app,        \* app[n]: the memory of n's application
  running     \* running[n]: does the primary of n run?

vars == <<sends, worker, blocks, output, done, next, app, running>>

engine == <<done, next, app, running>>

Init ==
  /\ sends    = 0
  /\ worker   = [n \in Nodes |-> << >>]
  /\ blocks   = << >>
  /\ output   = [n \in Nodes |-> 0]
  /\ done     = [n \in Nodes |-> 0]
  /\ next     = [n \in Nodes |-> 0]
  /\ app      = [n \in Nodes |-> NewApp]
  /\ running  = [n \in Nodes |-> TRUE]

-----------------------------------------------------------------------------
(* bin/client.rs sends its next transaction, whatever the last answer was.  *)
Request(n) ==
  /\ running[n]
  /\ sends < MaxSends
  /\ sends' = sends + 1

(***************************************************************************)
(* A client asks the API of n to broadcast; the handler writes the         *)
(* transaction to the worker's socket and answers.                         *)
(***************************************************************************)
Broadcast(n, raw) ==
  /\ Request(n)
  /\ worker' = [worker EXCEPT ![n] = Append(@, raw)]
  /\ UNCHANGED <<blocks, output, engine>>

(* The worker closes the connection; the answer is "ERROR IN: ...".         *)
BroadcastFails(n) ==
  /\ Request(n)
  /\ UNCHANGED <<worker, blocks, output, engine>>

(* External: a certificate of n with a batch of its worker is ordered.      *)
Quorum == 3 * Cardinality({n \in Nodes : running[n]}) > 2 * Cardinality(Nodes)

Order(n) ==
  /\ running[n] /\ Quorum
  /\ Len(blocks) < MaxBlocks
  /\ worker[n] # << >>
  /\ blocks' = Append(blocks, worker[n])
  /\ worker' = [worker EXCEPT ![n] = << >>]
  /\ UNCHANGED <<sends, output, engine>>

(* External: the consensus of n puts out the next certificate of the order. *)
Output(n) ==
  /\ running[n]
  /\ output[n] < Len(blocks)
  /\ output' = [output EXCEPT ![n] = @ + 1]
  /\ UNCHANGED <<sends, worker, blocks, engine>>

-----------------------------------------------------------------------------
(***************************************************************************)
(* Engine::run and handle_cert: begin_block, a deliver_tx for each of the  *)
(* transactions, then end_block and commit, which only log.                *)
(***************************************************************************)
(* Mutant: the engine waits until there is a quorum of primaries.           *)
M_Ready(n) == running[n] /\ Quorum /\ done[n] < output[n]

(* Mutant: the engine takes certificates before its primary puts them out.  *)
M_ReadyEarly(n) == running[n] /\ done[n] < Len(blocks)

Ready(n) == running[n] /\ done[n] < output[n]

Block(n) == blocks[done[n] + 1]
Upcoming(n) == Block(n)[next[n]]

CallBegin(n) ==
  /\ Ready(n) /\ next[n] = 0
  /\ app' = [app EXCEPT ![n] = BeginBlock(@)]
  /\ next' = [next EXCEPT ![n] = 1]
  /\ UNCHANGED <<sends, worker, blocks, output, done, running>>

CallDeliver(n) ==
  /\ Ready(n) /\ next[n] \in DOMAIN Block(n)
  /\ ~DeliverPanics(Upcoming(n))
  /\ app' = [app EXCEPT ![n] = DeliverTx(@)]
  /\ next' = [next EXCEPT ![n] = @ + 1]
  /\ UNCHANGED <<sends, worker, blocks, output, done, running>>

(* Mutant: the engine waits for the answer of an application that panicked. *)
M_DeliverFails(n) == Ready(n) /\ FALSE /\ UNCHANGED vars

(* No answer: run returns the error, process does, and the node ends.       *)
DeliverFails(n) ==
  /\ Ready(n) /\ next[n] \in DOMAIN Block(n)
  /\ DeliverPanics(Upcoming(n))
  /\ running' = [running EXCEPT ![n] = FALSE]
  /\ UNCHANGED <<sends, worker, blocks, output, done, next, app>>

CallCommit(n) ==
  /\ Ready(n) /\ next[n] = Len(Block(n)) + 1
  /\ done' = [done EXCEPT ![n] = @ + 1]
  /\ next' = [next EXCEPT ![n] = 0]
  /\ UNCHANGED <<sends, worker, blocks, output, app, running>>

Run(n) == CallBegin(n) \/ CallDeliver(n) \/ DeliverFails(n) \/ CallCommit(n)

Next ==
  \E n \in Nodes :
    \/ \E raw \in Inputs : Broadcast(n, raw)
    \/ BroadcastFails(n) \/ Order(n) \/ Output(n) \/ Run(n)

Spec == Init /\ [][Next]_vars

(***************************************************************************)
(* The engine's task is scheduled, and a consensus with a quorum goes on.  *)
(* Nothing is assumed of a consensus without one.                          *)
(***************************************************************************)
Fairness ==
  \A n \in Nodes :
    WF_vars(Order(n)) /\ WF_vars(Quorum /\ Output(n)) /\ WF_vars(Run(n))

FairSpec == Spec /\ Fairness

-----------------------------------------------------------------------------
TypeOK ==
  /\ sends \in 0..MaxSends
  /\ worker \in [Nodes -> Seq(Inputs)]
  /\ blocks \in Seq(Seq(Inputs)) /\ Len(blocks) <= MaxBlocks
  /\ output \in [Nodes -> Nat]
  /\ done \in [Nodes -> Nat]
  /\ next \in [Nodes -> Nat]
  /\ app \in [Nodes -> Nat]
  /\ running \in [Nodes -> BOOLEAN]
  /\ \A n \in Nodes :
       /\ done[n] <= output[n] /\ output[n] <= Len(blocks)
       /\ next[n] > 0 => done[n] < output[n] /\ next[n] <= Len(Block(n)) + 1

(***************************************************************************)
(* What an application logs of a block, from a counter that is a static    *)
(* without a lock, is the number of transactions of that very block.       *)
(***************************************************************************)
LogsItsBlock ==
  \A n \in Nodes :
    next[n] > 0 /\ next[n] = Len(Block(n)) + 1 => Logged(app[n]) = Len(Block(n))

(***************************************************************************)
(* LIVENESS.  A primary whose consensus puts out a transaction that panics *)
(* stops; so does the last one, when those that stopped before have taken  *)
(* the quorum with them.  (Who never gets to see the transaction goes on   *)
(* running, in a network that orders nothing any more.)                    *)
(***************************************************************************)
Poisoned(batch) == \E i \in DOMAIN batch : DeliverPanics(batch[i])

PanicStopsWhoSeesIt ==
  \A n \in Nodes : \A k \in 1..MaxBlocks :
    (output[n] >= k /\ Poisoned(blocks[k])) ~> ~running[n]

(***************************************************************************)
(* LIVENESS.  What a worker was given is executed by every application,    *)
(* unless a panic ends a node.  The bound on the blocks is not reached.    *)
(***************************************************************************)
Executed(n, raw) == \E k \in 1..done[n] : raw \in ToSet(blocks[k])

GivenIsExecuted ==
  \A m, n \in Nodes : \A raw \in Inputs :
    raw \in ToSet(worker[m]) ~> Executed(n, raw) \/ \E k \in Nodes : ~running[k]
=============================================================================
