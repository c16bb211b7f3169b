------------------------------- MODULE Client --------------------------------
(***************************************************************************)
(* The command line client (sequencer/src/cli/main.rs and tendermint.rs):  *)
(* declare, deploy-account and invoke make a transaction and broadcast it, *)
(* get looks one up in the transaction index of the node.                  *)
(*                                                                         *)
(* The client talks to one node.  Its application is StarknetApp; the      *)
(* engine around it, external, puts what check_tx lets in into blocks, of  *)
(* one transaction each here, and indexes a transaction by the event       *)
(* app.tx_id that deliver_tx sends with it, some time after the commit.    *)
(* Requests and answers may get lost.                                      *)
(***************************************************************************)
EXTENDS StarknetApp, FiniteSetsExt

CONSTANTS
  Clients,    \* processes that run the client
  Orders,     \* transaction types that users ask for
  Others,     \* transactions that other programs broadcast
  Keys,       \* what users look up: ids, hashes and parts of hashes
  Containing, \* Containing[k]: the hashes that have key k as a substring
  NoTx,
  MaxTxs      \* bound: transactions let in

ASSUME ClientAssumption ==
  /\ Orders \subseteq TransactionType /\ Others \subseteq Transaction
  /\ Containing \in [Keys -> SUBSET Hashes]
  /\ NoTx \notin Transaction /\ MaxTxs \in Nat

VARIABLES
  up,        \* does the node run?
  app,       \* the memory of its application
  mempool,   \* transactions let in and not executed yet
  chain,     \* transactions executed in blocks, with the answer to each
  indexed,   \* how many of them the index has
  pc,        \* pc[c]: what client c does, or how it has ended
  out,       \* out[c]: the transaction it has made
  found      \* history: found[k]: the last transaction that get k printed

vars == <<up, app, mempool, chain, indexed, pc, out, found>>

node == <<up, app, mempool, chain, indexed>>

Entry == [tx : Transaction, reply : {"ok", "integrity", "error"}]

Steps == {"idle", "sending", "answered", "printed", "failed", "panicked",
          "found", "denied"}

TypeOK ==
  /\ up \in BOOLEAN
  /\ app \in App
  /\ mempool \in Seq(Transaction)
  /\ chain \in Seq(Entry)
  /\ indexed \in 0..Len(chain)
  /\ pc \in [Clients -> Steps]
  /\ out \in [Clients -> Transaction \cup {NoTx}]
  /\ found \in [Keys -> Transaction \cup {NoTx}]

Init ==
  /\ up = TRUE
  /\ app = NewApp
  /\ mempool = << >>
  /\ chain = << >>
  /\ indexed = 0
  /\ pc = [c \in Clients |-> "idle"]
  /\ out = [c \in Clients |-> NoTx]
  /\ found = [k \in Keys |-> NoTx]

Becomes(c, step) == pc' = [pc EXCEPT ![c] = step]

Admitted == Len(mempool) + Len(chain)

-----------------------------------------------------------------------------
(***************************************************************************)
(* do_declare, do_deploy and do_invoke: make the transaction, with an id   *)
(* that nobody has.  Its hash may panic or fail.  A client that has ended  *)
(* may be run again.                                                       *)
(***************************************************************************)
Ended(c) == pc[c] \notin {"sending", "answered"}

IdsInUse == {out[c].id : c \in {x \in Clients : out[x] \in Transaction}}
              \cup {mempool[i].id : i \in DOMAIN mempool}
              \cup {chain[i].tx.id : i \in DOMAIN chain}

Do(c, t) ==
  /\ Ended(c)
  /\ ~HashPanics(t) /\ ~HashFails(t)
  /\ \E id \in Ids \ IdsInUse : out' = [out EXCEPT ![c] = WithType(t, id)]
  /\ Becomes(c, "sending")
  /\ UNCHANGED <<node, found>>

DoFails(c, t) ==
  /\ Ended(c)
  /\ HashPanics(t) \/ HashFails(t)
  /\ out' = [out EXCEPT ![c] = NoTx]
  /\ Becomes(c, IF HashPanics(t) THEN "panicked" ELSE "failed")
  /\ UNCHANGED <<node, found>>

(* broadcast_tx_sync: the node answers with what check_tx says.             *)
Broadcast(c) ==
  /\ pc[c] = "sending"
  /\ up
  /\ Admitted < MaxTxs
  /\ CheckTx(out[c]) = "ok"
  /\ mempool' = Append(mempool, out[c])
  /\ Becomes(c, "answered")
  /\ UNCHANGED <<up, app, chain, indexed, out, found>>

(* The request or the answer gets lost, or there is no node.                *)
BroadcastFails(c) ==
  /\ pc[c] \in {"sending", "answered"}
  /\ out' = [out EXCEPT ![c] = NoTx]
  /\ Becomes(c, "failed")
  /\ UNCHANGED <<node, found>>

(* Mutant: broadcast_tx_async, which waits for nothing.                     *)
M_Report(c) ==
  /\ pc[c] \in {"sending", "answered"}
  /\ Becomes(c, "printed")
  /\ UNCHANGED <<node, out, found>>

(* The answer arrives, and main prints the id and the hash.                 *)
Report(c) ==
  /\ pc[c] = "answered"
  /\ Becomes(c, "printed")
  /\ UNCHANGED <<node, out, found>>

-----------------------------------------------------------------------------
(***************************************************************************)
(* get_transaction: the oldest transaction in the index whose tx_id        *)
(* contains the key, and an error if there is none.                        *)
(***************************************************************************)

(* Mutant: no event for an invocation.                                      *)
M_QueriedInvoke(e) == e.reply = "ok" /\ e.tx.type.kind # "Invoke"

(* deliver_tx sends the event with an answer of code 0 only.                *)
Queried(e) == e.reply = "ok"

Found(k) ==
  {i \in 1..indexed : Queried(chain[i]) /\ chain[i].tx.hash \in Containing[k]}

(* Mutant: Order::Descending.                                               *)
M_First(matches) == Max(matches)

(* Order::Ascending, page 1 of 1 transaction per page.                      *)
First(matches) == Min(matches)

Get(c, k) ==
  /\ Ended(c)
  /\ up
  /\ Found(k) # {}
  /\ found' = [found EXCEPT ![k] = chain[First(Found(k))].tx]
  /\ out' = [out EXCEPT ![c] = NoTx]
  /\ Becomes(c, "found")
  /\ UNCHANGED node

GetDenied(c, k) ==
  /\ Ended(c)
  /\ up
  /\ Found(k) = {}
  /\ out' = [out EXCEPT ![c] = NoTx]
  /\ Becomes(c, "denied")
  /\ UNCHANGED <<node, found>>

-----------------------------------------------------------------------------
(***************************************************************************)
(* The node: what another program broadcasts, a block of one transaction,  *)
(* and the index that follows.                                             *)
(***************************************************************************)
Receive(raw) ==
  /\ up
  /\ Admitted < MaxTxs
  /\ raw.id \notin IdsInUse
  /\ CheckTx(raw) = "ok"
  /\ mempool' = Append(mempool, raw)
  /\ UNCHANGED <<up, app, chain, indexed, pc, out, found>>

Executed == Deliver(app, Head(mempool))

NextBlock ==
  /\ up /\ mempool # << >>
  /\ Executed.reply # "panic"
  /\ app' = Executed.app
  /\ chain' = Append(chain, [tx |-> Head(mempool), reply |-> Executed.reply])
  /\ mempool' = Tail(mempool)
  /\ UNCHANGED <<up, indexed, pc, out, found>>

(* The node stops, and what waits in its memory for a block is gone.        *)
BlockPanics ==
  /\ up /\ mempool # << >>
  /\ Executed.reply = "panic"
  /\ up' = FALSE
  /\ app' = Executed.app
  /\ mempool' = << >>
  /\ UNCHANGED <<chain, indexed, pc, out, found>>

(* Mutant: what is let in is indexed, without waiting for its block.        *)
M_Index ==
  /\ up /\ indexed < Admitted
  /\ indexed' = indexed + 1
  /\ UNCHANGED <<up, app, mempool, chain, pc, out, found>>

Index ==
  /\ up /\ indexed < Len(chain)
  /\ indexed' = indexed + 1
  /\ UNCHANGED <<up, app, mempool, chain, pc, out, found>>

Next ==
  \/ \E c \in Clients :
       \/ \E t \in Orders : Do(c, t) \/ DoFails(c, t)
       \/ Broadcast(c) \/ BroadcastFails(c) \/ Report(c)
       \/ \E k \in Keys : Get(c, k) \/ GetDenied(c, k)
  \/ \E raw \in Others : Receive(raw)
  \/ NextBlock \/ BlockPanics \/ Index

Spec == Init /\ [][Next]_vars

(* The node works on as long as it runs.                                    *)
FairSpec == Spec /\ WF_vars(NextBlock) /\ WF_vars(BlockPanics) /\ WF_vars(Index)

-----------------------------------------------------------------------------
(***************************************************************************)
(* What a client prints as sent is in the node for as long as the node     *)
(* runs: it waits for its block or is in one, also when answers get lost   *)
(* and the user sends it again.  Only a block that panics can lose it,     *)
(* with all that waited behind.                                            *)
(***************************************************************************)
PrintedIsKept ==
  \A c \in Clients :
    pc[c] = "printed" =>
      \/ \E i \in DOMAIN mempool : mempool[i] = out[c]
      \/ \E i \in DOMAIN chain : chain[i].tx = out[c]
      \/ ~up

(***************************************************************************)
(* get gives the same answer for ever once it has given one, and never     *)
(* says again that there is none, although other transactions with the     *)
(* same hash, sent again with another id, and hashes that contain the key  *)
(* keep coming in.                                                         *)
(***************************************************************************)
GetIsStable ==
  [][\A k \in Keys :
       found[k] # NoTx => found'[k] = found[k] /\ Found(k)' # {}]_vars

(***************************************************************************)
(* LIVENESS.  The hash that a client prints can be looked up some day,     *)
(* unless the node stops: an invocation that failed can be looked up too.  *)
(***************************************************************************)
PrintedIsFound ==
  \A c \in Clients : \A k \in Keys :
    pc[c] = "printed" /\ out[c].hash \in Containing[k] ~> Found(k) # {} \/ ~up
=============================================================================
