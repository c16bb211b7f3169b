-------------------------- MODULE SequencerFaults ---------------------------
(***************************************************************************)
(* The sequencer with faults: engines and applications that stop at any    *)
(* point and come back.                                                    *)
(*                                                                         *)
(* The application keeps its state in memory and the block height in the   *)
(* abci.height file.  When an engine connects it asks info for the height  *)
(* and takes up the blocks from there: it executes the block it had not    *)
(* finished again from its begin_block, or skips it if the file says that  *)
(* its commit happened.  If only the engine or the connection had stopped, *)
(* the application's memory still holds the first, partial execution; if   *)
(* the application had stopped too, its memory is empty.                   *)
(*                                                                         *)
(* The engine is external.  CometBFT also compares the hash info reports   *)
(* with the one it saved, and gives up if they differ; EngineChecksHash    *)
(* says whether the engine does that.  The file is written in one step     *)
(* here; HeightFile has the steps of writing it.                           *)
(***************************************************************************)
EXTENDS BlockExecution, FiniteSets

CONSTANTS
  Nodes,
  EngineChecksHash,
  MaxBlocks,     \* bound: blocks decided
  MaxFaults      \* bound: stops of an engine or an application, and returns

ASSUME FaultsAssumption ==
  EngineChecksHash \in BOOLEAN /\ MaxBlocks \in Nat /\ MaxFaults \in Nat

VARIABLES
  chain,     \* the decided blocks, each a sequence of transactions
  replica,   \* replica[n]: what the application of node n holds, or its file
  saved,     \* saved[n]: blocks the engine of n has finished and saved
  step,      \* step[n]: requests answered of block saved[n] + 1
  up,        \* up[n]: is the engine of n connected to the application?
  lost,      \* history: has the application of n ever lost its memory?
  walls,     \* history: blocks at which an application with all its memory
             \* has panicked
  faults

vars == <<chain, replica, saved, step, up, lost, walls, faults>>

TypeOK ==
  /\ chain \in Seq(Seq(Inputs))
  /\ replica \in [Nodes -> Replica]
  /\ saved \in [Nodes -> Nat]
  /\ step \in [Nodes -> Nat]
  /\ up \in [Nodes -> BOOLEAN]
  /\ lost \in [Nodes -> BOOLEAN]
  /\ walls \in SUBSET Nat
  /\ faults \in Nat

Init ==
  /\ chain = << >>
  /\ replica = [n \in Nodes |-> NewReplica]
  /\ saved = [n \in Nodes |-> 0]
  /\ step = [n \in Nodes |-> 0]
  /\ up = [n \in Nodes |-> TRUE]
  /\ lost = [n \in Nodes |-> FALSE]
  /\ walls = {}
  /\ faults = 0

Elements(seq) == {seq[i] : i \in 1..Len(seq)}
Decided == UNION {Elements(chain[h]) : h \in 1..Len(chain)}

-----------------------------------------------------------------------------
(***************************************************************************)
(* A node that has finished every block proposes the next one, of          *)
(* transactions that check_tx has let in and no block holds.               *)
(***************************************************************************)
Proposals ==
  {txs \in UNION {[1..k -> Inputs] : k \in 0..MaxBlockTxs} :
     /\ Cardinality(Elements(txs)) = Len(txs)
     /\ \A raw \in Elements(txs) : CheckTx(raw) = "ok" /\ raw \notin Decided}

Decide(n) ==
  /\ up[n]
  /\ saved[n] = Len(chain)
  /\ Len(chain) < MaxBlocks
  /\ \E txs \in Proposals : chain' = Append(chain, PrepareProposal(txs))
  /\ UNCHANGED <<replica, saved, step, up, lost, walls, faults>>

(* The next request of node n, if it has a block to execute.                *)
Current(n)  == Block(chain[saved[n] + 1])
Busy(n)     == up[n] /\ saved[n] < Len(chain)
Upcoming(n) == Current(n)[step[n] + 1]

Handle(n) ==
  /\ Busy(n)
  /\ step[n] < Len(Current(n))
  /\ Answer(replica[n], Upcoming(n)) # "panic"
  /\ replica' = [replica EXCEPT ![n] = After(@, Upcoming(n))]
  /\ step' = [step EXCEPT ![n] = @ + 1]
  /\ UNCHANGED <<chain, saved, up, lost, walls, faults>>

(* The hook unwinds, the connection is gone, and the application lives on.  *)
HandlePanic(n) ==
  /\ Busy(n)
  /\ step[n] < Len(Current(n))
  /\ Answer(replica[n], Upcoming(n)) = "panic"
  /\ replica' = [replica EXCEPT ![n] = After(@, Upcoming(n))]
  /\ up' = [up EXCEPT ![n] = FALSE]
  /\ walls' = IF lost[n] THEN walls ELSE walls \cup {saved[n] + 1}
  /\ UNCHANGED <<chain, saved, step, lost, faults>>

(* External: the engine saves the block after the answer to its commit.     *)
Save(n) ==
  /\ Busy(n)
  /\ step[n] = Len(Current(n))
  /\ saved' = [saved EXCEPT ![n] = @ + 1]
  /\ step' = [step EXCEPT ![n] = 0]
  /\ UNCHANGED <<chain, replica, up, lost, walls, faults>>

(***************************************************************************)
(* Faults, and the return of an engine.                                    *)
(***************************************************************************)
EngineStops(n) ==
  /\ up[n] /\ faults < MaxFaults
  /\ up' = [up EXCEPT ![n] = FALSE]
  /\ faults' = faults + 1
  /\ UNCHANGED <<chain, replica, saved, step, lost, walls>>

(* Mutant: new starts the height file anew along with the memory.           *)
M_Restarted(r) == [app |-> NewApp, height |-> 0, hashes |-> r.hashes]

(* Mutant: the hasher survives the crash and the state does not.            *)
M_RestartedHasher(r) ==
  [app |-> [NewApp EXCEPT !.hasher = r.app.hasher], height |-> r.height, hashes |-> r.hashes]

(* StarknetApp::new after a crash: an empty memory, and the old file.       *)
Restarted(r) == [app |-> NewApp, height |-> r.height, hashes |-> r.hashes]

AppCrashes(n) ==
  /\ faults < MaxFaults
  /\ replica' = [replica EXCEPT ![n] = Restarted(@)]
  /\ up' = [up EXCEPT ![n] = FALSE]
  /\ lost' = [lost EXCEPT ![n] = TRUE]
  /\ faults' = faults + 1
  /\ UNCHANGED <<chain, saved, step, walls>>

(* info: the height of the file, and an empty hash.                         *)
InfoHeight(n) == replica[n].height
HashAccepted(n) ==
  EngineChecksHash /\ InfoHeight(n) > 0 =>
    InfoHash = replica[n].hashes[InfoHeight(n)]

Connect(n) ==
  /\ ~up[n] /\ faults < MaxFaults
  /\ HashAccepted(n)
  /\ up' = [up EXCEPT ![n] = TRUE]
  /\ saved' = [saved EXCEPT ![n] = InfoHeight(n)]
  /\ step' = [step EXCEPT ![n] = 0]
  /\ faults' = faults + 1
  /\ UNCHANGED <<chain, replica, lost, walls>>

Next ==
  \E n \in Nodes :
    \/ Decide(n) \/ Handle(n) \/ HandlePanic(n) \/ Save(n)
    \/ EngineStops(n) \/ AppCrashes(n) \/ Connect(n)

Spec == Init /\ [][Next]_vars

-----------------------------------------------------------------------------
(***************************************************************************)
(* Every block is committed exactly once for each node, whatever stops and *)
(* in which order: the height in the file never runs ahead of or behind    *)
(* the engine by more than the one commit whose answer was not saved, and  *)
(* there is one hash for each height.                                      *)
(***************************************************************************)
CommittedOnce ==
  \A n \in Nodes :
    /\ replica[n].height \in {saved[n], saved[n] + 1}
    /\ replica[n].height <= Len(chain)
    /\ Len(replica[n].hashes) = replica[n].height

(***************************************************************************)
(* The hasher covers exactly what the memory stores also after blocks were *)
(* executed twice and after the memory was lost.                           *)
(***************************************************************************)
HashCoversState == \A n \in Nodes : Covers(replica[n].app)

(***************************************************************************)
(* Executing a block again does the memory no harm: an application that    *)
(* never lost it stores every declaration and deployment that its finished *)
(* blocks accepted, and nothing that is not in them or in the block it is  *)
(* at.  A deployment that a poisoned lock swallowed, while deliver_tx      *)
(* answered code 0, would break this.                                      *)
(***************************************************************************)
Stores(raw) ==
  /\ raw \in Transaction /\ Integral(raw)
  /\ raw.type.kind \in {"Declare", "DeployAccount"}
  /\ ~HashFails(raw.type) /\ ~HashPanics(raw.type)

StoredBy(h) == {raw.hash : raw \in {x \in Elements(chain[h]) : Stores(x)}}
StoredUpTo(h) == UNION {StoredBy(k) : k \in 1..h}

MemoryIsTheChain ==
  \A n \in Nodes :
    LET held == replica[n].app.classes \cup replica[n].app.contracts
        last == IF saved[n] < Len(chain) THEN saved[n] + 1 ELSE saved[n]
    IN  /\ ~lost[n] => StoredUpTo(saved[n]) \subseteq held
        /\ held \subseteq StoredUpTo(last)

(***************************************************************************)
(* A block that made one application panic is never finished by another,   *)
(* unless one of the two has lost its memory: executing the block again,   *)
(* on a poisoned lock and with half of it already stored, does not get an  *)
(* application past it.                                                    *)
(***************************************************************************)
NobodyPassesAWall ==
  \A n \in Nodes : ~lost[n] => \A h \in walls : saved[n] < h

(***************************************************************************)
(* "This hash should be deterministic, different app state hashes will     *)
(* produce blockchain forks" (commit, line 316): any two nodes hand out    *)
(* the same hash for every height both have committed.                     *)
(***************************************************************************)
AppHashAgreement ==
  \A m, n \in Nodes :
    \A h \in 1..Len(replica[m].hashes) :
      h <= Len(replica[n].hashes) =>
        replica[m].hashes[h] = replica[n].hashes[h]
=============================================================================
