---------------------------- MODULE NarwhalEngine ---------------------------
(***************************************************************************)
(* The second consensus engine of the repository: a Narwhal primary that   *)
(* drives its ABCI application (narwhal-abci/narwhal-abci/src/engine.rs)   *)
(* and answers the queries of HTTP clients (abci_server.rs), as put        *)
(* together by process() in narwhal-abci/node/src/main.rs.                 *)
(*                                                                         *)
(* Engine::run is one task that takes certificates from one channel and    *)
(* queries from another and blocks on every call to the application.  An   *)
(* error anywhere in it ends run, process and so the node.                 *)
(*                                                                         *)
(* Not part of the repository: the consensus that outputs certificates in  *)
(* the same order on every node, the workers that write batches to their   *)
(* stores in their own time, and the application behind the three client   *)
(* connections, which is modelled by the calls it has handled.             *)
(***************************************************************************)
EXTENDS Naturals, Sequences, SequencesExt

CONSTANTS
  Nodes,
  Clients,        \* HTTP requests to /abci_query
  NoClient,
  NodeOf,         \* NodeOf[c]: the node that client c asks
  Txs,            \* transactions
  Malformed,      \* a stored batch that does not deserialize
  Payloads,       \* sequences of batches that a certificate may name
  AppHeight,      \* the height of every application when its engine starts
  Capacity,       \* CHANNEL_CAPACITY
  AppMayFail,     \* can a call to the application fail?
  InfoMayFail,    \* can the call of info fail, and connecting succeed?
  MaxCerts        \* bound: certificates ordered

Batches == {Malformed} \cup Seq(Txs)

ASSUME EngineAssumption ==
  /\ Malformed \notin Seq(Txs) /\ Payloads \subseteq Seq(Batches)
  /\ NodeOf \in [Clients -> Nodes]
  /\ AppHeight \in Nat /\ Capacity \in Nat \ {0} /\ MaxCerts \in Nat
  /\ AppMayFail \in BOOLEAN /\ InfoMayFail \in BOOLEAN

VARIABLES
  ordered,   \* payloads of the certificates in the order of the consensus
  received,  \* received[n]: how many of them are in rx_output or taken from it
  store,     \* store[n]: the batches in the stores of n's workers
  status,    \* status[n]: "new", "running" or "ended"
  height,    \* height[n]: last_block_height
  taken,     \* taken[n]: certificates taken from rx_output
  pc,        \* pc[n]: what Engine::run of n does next
  batches,   \* batches[n]: what is left of what the stores returned
  calls,     \* calls[n]: the calls that the application of n has handled
  queries,   \* queries[n]: rx_abci_queries, the clients in the queue
  asker,     \* asker[n]: the client whose query n has taken last
  client     \* client[c]: one of ClientSteps

vars == <<ordered, received, store, status, height, taken, pc, batches, calls,
          queries, asker, client>>

-----------------------------------------------------------------------------
(* The calls of a block.                                                    *)
BeginBlock(h) == [call |-> "begin_block", height |-> h]
DeliverTx(tx) == [call |-> "deliver_tx", tx |-> tx]
EndBlock(h)   == [call |-> "end_block", height |-> h]
Commit        == [call |-> "commit"]

(* reconstruct_batch: every read has its own result.                        *)
NotFound == <<"error">>
Reads    == {NotFound} \cup ({"ok"} \X Batches)

Lookup(n, batch) == IF batch \in store[n] THEN <<"ok", batch>> ELSE NotFound

Steps == {"select", "begin", "reconstruct", "deliver", "end", "commit", "query"}

(* The handler of a client is in send().await ("sending"), then in rx.await *)
(* ("waiting"); it is dropped when the client is "gone".                    *)
ClientSteps == {"idle", "sending", "waiting", "gone", "answered"}

Init ==
  /\ ordered  = << >>
  /\ received = [n \in Nodes |-> 0]
  /\ store    = [n \in Nodes |-> {}]
  /\ status   = [n \in Nodes |-> "new"]
  /\ height   = [n \in Nodes |-> 0]
  /\ taken    = [n \in Nodes |-> 0]
  /\ pc       = [n \in Nodes |-> "select"]
  /\ batches  = [n \in Nodes |-> << >>]
  /\ calls    = [n \in Nodes |-> << >>]
  /\ queries  = [n \in Nodes |-> << >>]
  /\ asker    = [n \in Nodes |-> NoClient]
  /\ client   = [c \in Clients |-> "idle"]

(* A value from one of the variables that belong to node n.                 *)
Set(f, n, v) == [f EXCEPT ![n] = v]

environment == <<ordered, received, store>>
api         == <<queries, asker, client>>

-----------------------------------------------------------------------------
(***************************************************************************)
(* External: the consensus of node n outputs its next certificate, which   *)
(* is a new one if n is the first to get there; a worker of n gets a batch.*)
(* A batch that arrives before its certificate is ordered does no more     *)
(* than one that arrives right after.                                      *)
(***************************************************************************)
Named == UNION {ToSet(ordered[k]) : k \in DOMAIN ordered}

Output(n) ==
  /\ status[n] # "ended"
  /\ received[n] - taken[n] < Capacity
  /\ \/ received[n] < Len(ordered) /\ UNCHANGED ordered
     \/ /\ received[n] = Len(ordered) /\ Len(ordered) < MaxCerts
        /\ \E p \in Payloads : ordered' = Append(ordered, p)
  /\ received' = [received EXCEPT ![n] = @ + 1]
  /\ UNCHANGED <<store, status, height, taken, pc, batches, calls, api>>

Synchronized(n) ==
  /\ \E b \in Named \ store[n] : store' = [store EXCEPT ![n] = @ \cup {b}]
  /\ UNCHANGED <<ordered, received, status, height, taken, pc, batches, calls, api>>

(***************************************************************************)
(* The API: the handler of /abci_query puts the query in the channel, when *)
(* there is room, and waits for the answer.  It is dropped when its client *)
(* goes away, and the query with it if it is not in the channel yet.  The  *)
(* API serves before the engine is there, and as long as the node runs.    *)
(***************************************************************************)
Ask(c) ==
  /\ client[c] = "idle"
  /\ status[NodeOf[c]] # "ended"
  /\ client' = Set(client, c, "sending")
  /\ UNCHANGED <<environment, status, height, taken, pc, batches, calls, queries,
                asker>>

Send(c) ==
  /\ client[c] = "sending"
  /\ status[NodeOf[c]] # "ended"
  /\ Len(queries[NodeOf[c]]) < Capacity
  /\ client' = Set(client, c, "waiting")
  /\ queries' = [queries EXCEPT ![NodeOf[c]] = Append(@, c)]
  /\ UNCHANGED <<environment, status, height, taken, pc, batches, calls, asker>>

HangUp(c) ==
  /\ client[c] \in {"sending", "waiting"}
  /\ status[NodeOf[c]] # "ended"
  /\ client' = Set(client, c, "gone")
  /\ UNCHANGED <<environment, status, height, taken, pc, batches, calls, queries,
                asker>>

-----------------------------------------------------------------------------
(***************************************************************************)
(* Engine::new and the init_chain of run.  A failed connection panics; a   *)
(* failed info counts as height zero.                                      *)
(***************************************************************************)
Start(n) ==
  /\ status[n] = "new"
  /\ status' = Set(status, n, "running")
  /\ height' = Set(height, n, AppHeight)
  /\ UNCHANGED <<environment, taken, pc, batches, calls, api>>

StartWithoutInfo(n) ==
  /\ status[n] = "new"
  /\ InfoMayFail
  /\ status' = Set(status, n, "running")
  /\ height' = Set(height, n, 0)
  /\ UNCHANGED <<environment, taken, pc, batches, calls, api>>

StartFails(n) ==
  /\ status[n] = "new"
  /\ AppMayFail
  /\ status' = Set(status, n, "ended")
  /\ UNCHANGED <<environment, height, taken, pc, batches, calls, api>>

At(n, step) == status[n] = "running" /\ pc[n] = step

(* Mutant: run does not wait until there is a certificate.                  *)
M_TakeCertificate(n) ==
  /\ At(n, "select")
  /\ height' = [height EXCEPT ![n] = @ + 1]
  /\ taken' = [taken EXCEPT ![n] = @ + 1]
  /\ pc' = Set(pc, n, "begin")
  /\ UNCHANGED <<environment, status, batches, calls, api>>

(* handle_cert counts the block before it is begun.                         *)
TakeCertificate(n) ==
  /\ At(n, "select")
  /\ taken[n] < received[n]
  /\ height' = [height EXCEPT ![n] = @ + 1]
  /\ taken' = [taken EXCEPT ![n] = @ + 1]
  /\ pc' = Set(pc, n, "begin")
  /\ UNCHANGED <<environment, status, batches, calls, api>>

(* The application handles a call, and its answer gets back.                *)
Handled(n, call) == calls' = [calls EXCEPT ![n] = Append(@, call)]

CallBegin(n) ==
  /\ At(n, "begin")
  /\ Handled(n, BeginBlock(height[n]))
  /\ pc' = Set(pc, n, "reconstruct")
  /\ UNCHANGED <<environment, status, height, taken, batches, api>>

(* Mutant: batches that are not in the store are left out.                  *)
M_Reconstruct(n) ==
  /\ At(n, "reconstruct")
  /\ LET stored == SelectSeq(ordered[taken[n]], LAMBDA b : b \in store[n])
     IN  batches' = Set(batches, n, [i \in DOMAIN stored |-> Lookup(n, stored[i])])
  /\ pc' = Set(pc, n, "deliver")
  /\ UNCHANGED <<environment, status, height, taken, calls, api>>

(***************************************************************************)
(* All the batches are read before the first is delivered.  A batch never  *)
(* leaves a store, so reading them in one step is as good as in several.   *)
(***************************************************************************)
Reconstruct(n) ==
  /\ At(n, "reconstruct")
  /\ batches' = Set(batches, n, [i \in DOMAIN ordered[taken[n]] |->
                                   Lookup(n, ordered[taken[n]][i])])
  /\ pc' = Set(pc, n, "deliver")
  /\ UNCHANGED <<environment, status, height, taken, calls, api>>

Usable(n) ==
  /\ batches[n] # << >>
  /\ Head(batches[n]) # NotFound
  /\ Head(batches[n])[2] # Malformed

Unusable(n) == batches[n] # << >> /\ ~Usable(n)

(* deliver_batch: the next transaction of the batch, then the next batch.   *)
CallDeliver(n) ==
  /\ At(n, "deliver") /\ Usable(n)
  /\ LET batch == Head(batches[n])[2]
     IN  IF batch = << >>
           THEN batches' = [batches EXCEPT ![n] = Tail(@)] /\ UNCHANGED calls
           ELSE /\ Handled(n, DeliverTx(Head(batch)))
                /\ batches' = [batches EXCEPT ![n][1] = <<"ok", Tail(batch)>>]
  /\ UNCHANGED <<environment, status, height, taken, pc, api>>

(* Mutant: the error is logged, and the engine takes the next certificate.  *)
M_DeliverFails(n) ==
  /\ At(n, "deliver") /\ Unusable(n)
  /\ pc' = Set(pc, n, "select")
  /\ UNCHANGED <<environment, status, height, taken, batches, calls, api>>

(* `let batch = batch?` and "unrecognized message format".                  *)
DeliverFails(n) ==
  /\ At(n, "deliver") /\ Unusable(n)
  /\ status' = Set(status, n, "ended")
  /\ UNCHANGED <<environment, height, taken, pc, batches, calls, api>>

Delivered(n) ==
  /\ At(n, "deliver") /\ batches[n] = << >>
  /\ pc' = Set(pc, n, "end")
  /\ UNCHANGED <<environment, status, height, taken, batches, calls, api>>

CallEnd(n) ==
  /\ At(n, "end")
  /\ Handled(n, EndBlock(height[n]))
  /\ pc' = Set(pc, n, "commit")
  /\ UNCHANGED <<environment, status, height, taken, batches, api>>

CallCommit(n) ==
  /\ At(n, "commit")
  /\ Handled(n, Commit)
  /\ pc' = Set(pc, n, "select")
  /\ UNCHANGED <<environment, status, height, taken, batches, api>>

(* handle_abci_query: the call to the application, then the answer.         *)
TakeQuery(n) ==
  /\ At(n, "select")
  /\ queries[n] # << >>
  /\ asker' = Set(asker, n, Head(queries[n]))
  /\ queries' = [queries EXCEPT ![n] = Tail(@)]
  /\ pc' = Set(pc, n, "query")
  /\ UNCHANGED <<environment, status, height, taken, batches, calls, client>>

AnswerQuery(n) ==
  /\ At(n, "query")
  /\ client[asker[n]] = "waiting"
  /\ client' = Set(client, asker[n], "answered")
  /\ pc' = Set(pc, n, "select")
  /\ UNCHANGED <<environment, status, height, taken, batches, calls, queries, asker>>

(* Mutant: the answer goes into a channel that waits for somebody to take it.*)
M_NobodyWaits(n) == FALSE /\ UNCHANGED vars

(* tx.send(resp) fails when nobody waits any more, and that is an error.    *)
NobodyWaits(n) ==
  /\ At(n, "query")
  /\ client[asker[n]] = "gone"
  /\ status' = Set(status, n, "ended")
  /\ UNCHANGED <<environment, height, taken, pc, batches, calls, api>>

(* A call fails, before or after the application has handled it.            *)
Pending(n) ==
  CASE pc[n] = "begin"   -> <<BeginBlock(height[n])>>
    [] pc[n] = "deliver" -> IF Usable(n) /\ Head(batches[n])[2] # << >>
                              THEN <<DeliverTx(Head(batches[n])[2][1])>> ELSE << >>
    [] pc[n] = "end"     -> <<EndBlock(height[n])>>
    [] pc[n] = "commit"  -> <<Commit>>
    [] OTHER             -> << >>

CallFails(n) ==
  /\ AppMayFail
  /\ status[n] = "running"
  /\ pc[n] = "query" \/ Pending(n) # << >>
  /\ status' = Set(status, n, "ended")
  /\ calls' \in {calls, [calls EXCEPT ![n] = @ \o Pending(n)]}
  /\ UNCHANGED <<environment, height, taken, pc, batches, api>>

Run(n) ==
  \/ CallBegin(n) \/ Reconstruct(n) \/ CallDeliver(n) \/ DeliverFails(n)
  \/ Delivered(n) \/ CallEnd(n) \/ CallCommit(n)
  \/ AnswerQuery(n) \/ NobodyWaits(n)

Next ==
  \/ \E n \in Nodes :
       \/ Output(n) \/ Synchronized(n)
       \/ Start(n) \/ StartWithoutInfo(n) \/ StartFails(n)
       \/ TakeCertificate(n) \/ TakeQuery(n) \/ Run(n) \/ CallFails(n)
  \/ \E c \in Clients : Ask(c) \/ Send(c) \/ HangUp(c)

Spec == Init /\ [][Next]_vars

(***************************************************************************)
(* The task is scheduled, and select! chooses at random among the channels *)
(* that have something, so that neither is passed over for ever.  The      *)
(* channel gives room to the handlers that wait for it in turn.            *)
(***************************************************************************)
Fairness ==
  /\ \A n \in Nodes :
       /\ WF_vars(Start(n)) /\ WF_vars(Run(n))
       /\ SF_vars(TakeCertificate(n)) /\ SF_vars(TakeQuery(n))
  /\ \A c \in Clients : SF_vars(Send(c))

FairSpec == Spec /\ Fairness

-----------------------------------------------------------------------------
Calls == {Commit} \cup {DeliverTx(tx) : tx \in Txs}
           \cup [call : {"begin_block", "end_block"}, height : Nat]

TypeOK ==
  /\ ordered \in Seq(Payloads)
  /\ received \in [Nodes -> Nat] /\ taken \in [Nodes -> Nat]
  /\ store \in [Nodes -> SUBSET Batches]
  /\ status \in [Nodes -> {"new", "running", "ended"}]
  /\ height \in [Nodes -> Nat]
  /\ calls \in [Nodes -> Seq(Calls)]
  /\ pc \in [Nodes -> Steps]
  /\ batches \in [Nodes -> Seq(Reads)]
  /\ queries \in [Nodes -> Seq(Clients)]
  /\ \A n \in Nodes :
       /\ Len(queries[n]) <= Capacity
       /\ received[n] - taken[n] \in 0..Capacity
  /\ asker \in [Nodes -> Clients \cup {NoClient}]
  /\ client \in [Clients -> ClientSteps]

(***************************************************************************)
(* The calls that the ordered certificates stand for, one block each.      *)
(***************************************************************************)
Transactions(payload) ==
  LET delivered(batch) == [i \in DOMAIN batch |-> DeliverTx(batch[i])]
      blocks == [k \in DOMAIN payload |->
                   IF payload[k] = Malformed THEN << >> ELSE delivered(payload[k])]
  IN  FlattenSeq(blocks)

BlockCalls(h, payload) ==
  <<BeginBlock(h)>> \o Transactions(payload) \o <<EndBlock(h), Commit>>

Script(first) ==
  FlattenSeq([k \in DOMAIN ordered |-> BlockCalls(first + k, ordered[k])])

(* What last_block_height may start from.                                   *)
Heights == {AppHeight} \cup {h \in {0} : InfoMayFail}

(***************************************************************************)
(* Every application is given exactly what the consensus has ordered, up   *)
(* to some call: no certificate, batch or transaction is skipped, repeated *)
(* or moved, and no block follows one that was given up half way, although *)
(* stores lag behind, batches are unusable and calls fail.  Any two        *)
(* applications have then handled the same calls as far as both got.       *)
(***************************************************************************)
ExecutesWhatIsOrdered ==
  \A n \in Nodes : \E h \in Heights : IsPrefix(calls[n], Script(h))

(***************************************************************************)
(* A query never sees a block half done: while the engine calls query, the *)
(* last call the application has handled for a block is a commit.          *)
(***************************************************************************)
QueriesSeeWholeBlocks ==
  \A n \in Nodes :
    At(n, "query") => calls[n] = << >> \/ Last(calls[n]) = Commit

(***************************************************************************)
(* LIVENESS.  A client that stays is answered, or the node ends: also one  *)
(* whose handler finds the channel full, and while clients before it hang  *)
(* up and certificates are taken in between.                               *)
(***************************************************************************)
QueriesEnd ==
  \A c \in Clients :
    client[c] \in {"sending", "waiting"} ~>
      client[c] \in {"gone", "answered"} \/ status[NodeOf[c]] = "ended"

(***************************************************************************)
(* LIVENESS.  What a node has received is executed, or the node ends.      *)
(***************************************************************************)
CommitsOf(n) == Len(SelectSeq(calls[n], LAMBDA call : call = Commit))

ReceivedIsExecuted ==
  \A n \in Nodes : \A k \in 1..MaxCerts :
    received[n] >= k ~> CommitsOf(n) >= k \/ status[n] = "ended"

(***************************************************************************)
(* "Calling the BeginBlock -> DeliverTx -> EndBlock -> Commit event loop   *)
(* on the ABCI App on each Bullshark certificate received" (engine.rs:20): *)
(* when no call fails and every batch is stored, every certificate that is *)
(* received is executed.  A client that hangs up ends the engine.          *)
(***************************************************************************)
EachCertificateIsExecuted ==
  \A n \in Nodes : \A k \in 1..MaxCerts : received[n] >= k ~> CommitsOf(n) >= k
=============================================================================
