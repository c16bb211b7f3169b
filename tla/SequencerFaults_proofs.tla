----------------------- MODULE SequencerFaults_proofs -----------------------
(***************************************************************************)
(* Proofs about the sequencer with faults, for any nodes, inputs, bounds   *)
(* and either kind of engine.                                              *)
(*                                                                         *)
(* CommittedOnce is not inductive: that a commit moves the height by one   *)
(* away from what the engine has saved needs that it did not already do so.*)
(* InStep adds what an engine that is connected knows: the height is ahead *)
(* of it exactly while the answer to a commit is not saved.                *)
(***************************************************************************)
EXTENDS SequencerFaults, BlockExecution_proofs

LEMMA InitType == Init => TypeOK
<1> SUFFICES ASSUME Init PROVE TypeOK
  OBVIOUS
<1>1. NewReplica \in Replica
  BY DEF NewReplica, Replica, NewApp, App
<1> QED BY <1>1 DEF Init, TypeOK

(* The next request of a busy node is a request.                            *)
LEMMA CurrentType ==
  ASSUME TypeOK, NEW n \in Nodes, Busy(n)
  PROVE  /\ chain[saved[n] + 1] \in Seq(Inputs)
         /\ Current(n) \in Seq(Requests)
         /\ step[n] < Len(Current(n)) => Upcoming(n) \in Requests
<1>1. saved[n] + 1 \in 1..Len(chain)
  BY DEF Busy, TypeOK
<1>2. chain[saved[n] + 1] \in Seq(Inputs)
  BY <1>1 DEF TypeOK
<1>3. Current(n) \in Seq(Requests)
  BY <1>2, BlockType DEF Current
<1>4. step[n] < Len(Current(n)) => step[n] + 1 \in 1..Len(Current(n))
  BY <1>3 DEF TypeOK
<1> QED BY <1>2, <1>3, <1>4 DEF Upcoming

LEMMA RestartedType ==
  ASSUME NEW r \in Replica
  PROVE  Restarted(r) \in Replica
BY DEF Restarted, Replica, NewApp, App

LEMMA NextType == TypeOK /\ [Next]_vars => TypeOK'
<1> SUFFICES ASSUME TypeOK, [Next]_vars PROVE TypeOK'
  OBVIOUS
<1> USE DEF TypeOK
<1>1. ASSUME NEW n \in Nodes, Decide(n) PROVE TypeOK'
  <2>1. PICK txs \in Proposals : chain' = Append(chain, PrepareProposal(txs))
    BY <1>1 DEF Decide
  <2>2. txs \in Seq(Inputs)
    <3>1. PICK k \in 0..MaxBlockTxs : txs \in [1..k -> Inputs]
      BY <2>1 DEF Proposals
    <3>2. k \in Nat
      BY ReplicaAssumption
    <3> QED BY <3>1, <3>2
  <2>3. chain' \in Seq(Seq(Inputs))
    BY <2>1, <2>2, ProposalType
  <2> QED BY <1>1, <2>3 DEF Decide
<1>2. ASSUME NEW n \in Nodes, Handle(n) PROVE TypeOK'
  <2>1. After(replica[n], Upcoming(n)) \in Replica
    BY <1>2, CurrentType, AfterType DEF Handle
  <2> QED BY <1>2, <2>1 DEF Handle
<1>3. ASSUME NEW n \in Nodes, HandlePanic(n) PROVE TypeOK'
  <2>1. After(replica[n], Upcoming(n)) \in Replica
    BY <1>3, CurrentType, AfterType DEF HandlePanic
  <2>2. walls' \in SUBSET Nat
    <3>1. saved[n] + 1 \in Nat
      OBVIOUS
    <3>2. walls' = walls \/ walls' = walls \cup {saved[n] + 1}
      BY <1>3 DEF HandlePanic
    <3> QED BY <3>1, <3>2
  <2> QED BY <1>3, <2>1, <2>2 DEF HandlePanic
<1>4. ASSUME NEW n \in Nodes, Save(n) PROVE TypeOK'
  BY <1>4 DEF Save
<1>5. ASSUME NEW n \in Nodes, EngineStops(n) PROVE TypeOK'
  BY <1>5 DEF EngineStops
<1>6. ASSUME NEW n \in Nodes, AppCrashes(n) PROVE TypeOK'
  <2>1. Restarted(replica[n]) \in Replica
    BY RestartedType
  <2> QED BY <1>6, <2>1 DEF AppCrashes
<1>7. ASSUME NEW n \in Nodes, Connect(n) PROVE TypeOK'
  <2>1. InfoHeight(n) \in Nat
    BY DEF InfoHeight, Replica
  <2> QED BY <1>7, <2>1 DEF Connect
<1>8. CASE UNCHANGED vars
  BY <1>8 DEF vars
<1> QED BY <1>1, <1>2, <1>3, <1>4, <1>5, <1>6, <1>7, <1>8 DEF Next

(* Every variable keeps its type, whatever stops and returns.               *)
THEOREM TypeCorrect == Spec => []TypeOK
BY InitType, NextType, PTL DEF Spec

(***************************************************************************)
(* The hasher of every application covers exactly what its memory stores,  *)
(* also after blocks were executed twice and after the memory was lost.    *)
(***************************************************************************)
THEOREM HasherCoversState == Spec => []HashCoversState
<1>1. Init => HashCoversState
  BY DEF Init, HashCoversState, Covers, Fed, NewReplica, NewApp
<1>2. TypeOK /\ HashCoversState /\ [Next]_vars => HashCoversState'
  <2> SUFFICES ASSUME TypeOK, HashCoversState, [Next]_vars
               PROVE  HashCoversState'
    OBVIOUS
  <2>1. ASSUME NEW n \in Nodes, NEW r, Covers(r.app),
               replica' = [replica EXCEPT ![n] = r]
        PROVE  HashCoversState'
    BY <2>1 DEF HashCoversState, TypeOK
  <2>2. ASSUME NEW n \in Nodes, Busy(n), step[n] < Len(Current(n))
        PROVE  Covers(After(replica[n], Upcoming(n)).app)
    <3>1. Upcoming(n) \in Requests /\ replica[n] \in Replica
      BY <2>2, CurrentType DEF TypeOK
    <3> QED BY <3>1, AfterCovers DEF HashCoversState
  <2>3. ASSUME UNCHANGED replica PROVE HashCoversState'
    BY <2>3 DEF HashCoversState
  <2>4. ASSUME NEW n \in Nodes, Handle(n) PROVE HashCoversState'
    BY <2>1, <2>2, <2>4 DEF Handle
  <2>5. ASSUME NEW n \in Nodes, HandlePanic(n) PROVE HashCoversState'
    BY <2>1, <2>2, <2>5 DEF HandlePanic
  <2>6. ASSUME NEW n \in Nodes, AppCrashes(n) PROVE HashCoversState'
    <3>1. Covers(Restarted(replica[n]).app)
      BY DEF Restarted, NewApp, Covers, Fed
    <3> QED BY <2>1, <2>6, <3>1 DEF AppCrashes
  <2>7. ASSUME NEW n \in Nodes,
               Decide(n) \/ Save(n) \/ EngineStops(n) \/ Connect(n)
        PROVE  HashCoversState'
    BY <2>3, <2>7 DEF Decide, Save, EngineStops, Connect
  <2>8. CASE UNCHANGED vars
    BY <2>3, <2>8 DEF vars
  <2> QED BY <2>4, <2>5, <2>6, <2>7, <2>8 DEF Next
<1> QED BY <1>1, <1>2, TypeCorrect, PTL DEF Spec

-----------------------------------------------------------------------------
(***************************************************************************)
(* One commit for each block.                                              *)
(***************************************************************************)
InStep(n) ==
  LET r == replica[n]
  IN  /\ r.height \in {saved[n], saved[n] + 1}
      /\ r.height <= Len(chain)
      /\ Len(r.hashes) = r.height
      /\ up[n] /\ saved[n] = Len(chain) => step[n] = 0
      /\ up[n] /\ saved[n] < Len(chain) =>
           (r.height = saved[n] + 1 <=> step[n] = Len(Current(n)))
      /\ Busy(n) => step[n] <= Len(Current(n))

IInv == TypeOK /\ \A n \in Nodes : InStep(n)

(* Steps of other nodes, and new blocks, leave a node in step.              *)
LEMMA OthersInStep ==
  ASSUME IInv, TypeOK', NEW n \in Nodes,
         UNCHANGED chain,
         replica'[n] = replica[n], saved'[n] = saved[n],
         step'[n] = step[n], up'[n] = up[n]
  PROVE  InStep(n)'
BY DEF IInv, InStep, Busy, Current

LEMMA HeightAfter ==
  ASSUME NEW r \in Replica, NEW q \in Requests, Len(r.hashes) = r.height
  PROVE  /\ After(r, q).height = IF q = Commit THEN r.height + 1 ELSE r.height
         /\ Len(After(r, q).hashes) = After(r, q).height
<1>1. r.hashes \in Seq(Hash) /\ r.height \in Nat
  BY DEF Replica
<1>2. CASE q = Commit
  <2>1. After(r, q) = CommitReplica(r)
    BY <1>2 DEF After, Commit
  <2> QED BY <1>1, <1>2, <2>1 DEF CommitReplica
<1>3. CASE q # Commit
  <2>1. After(r, q).hashes = r.hashes
    BY <1>3, AfterHashes
  <2>2. After(r, q).height = r.height
    BY <1>3, RequestKinds DEF After, Replica, Commit
  <2> QED BY <1>3, <2>1, <2>2
<1> QED BY <1>2, <1>3

LEMMA DecideInStep ==
  ASSUME IInv, TypeOK', NEW m \in Nodes, Decide(m), NEW n \in Nodes
  PROVE  InStep(n)'
<1>1. PICK txs : chain' = Append(chain, txs)
  BY DEF Decide
<1>2. /\ Len(chain') = Len(chain) + 1 /\ Len(chain) \in Nat
      /\ \A h \in 1..Len(chain) : chain'[h] = chain[h]
      /\ chain'[Len(chain) + 1] = txs /\ txs \in Seq(Inputs)
  <2>1. chain' \in Seq(Seq(Inputs)) /\ chain \in Seq(Seq(Inputs))
    BY DEF IInv, TypeOK
  <2>2. /\ Len(chain') = Len(chain) + 1 /\ Len(chain) \in Nat
        /\ \A h \in 1..Len(chain) : chain'[h] = chain[h]
        /\ chain'[Len(chain) + 1] = txs
    BY <1>1, <2>1
  <2> QED BY <2>1, <2>2
<1>3. UNCHANGED <<replica, saved, step, up>> /\ InStep(n)
  BY DEF Decide, IInv
<1>4. saved[n] \in Nat /\ step[n] \in Nat /\ replica[n].height \in Nat
  BY DEF IInv, TypeOK, Replica
<1>5. CASE saved[n] < Len(chain)
  <2>1. chain'[saved[n] + 1] = chain[saved[n] + 1]
    BY <1>2, <1>4, <1>5
  <2> QED BY <1>2, <1>3, <1>4, <1>5, <2>1 DEF InStep, Busy, Current
<1>6. CASE saved[n] >= Len(chain)
  <2>1. saved[n] = Len(chain) /\ replica[n].height = saved[n]
    BY <1>2, <1>3, <1>4, <1>6 DEF InStep
  <2>2. Current(n)' = Block(txs) /\ Len(Current(n)') = Len(txs) + 3
    BY <1>2, <1>3, <2>1, BlockShape DEF Current
  <2>3. Len(txs) \in Nat
    BY <1>2
  <2>4. up[n] => step[n] = 0
    BY <1>3, <2>1 DEF InStep
  <2> QED BY <1>2, <1>3, <1>4, <2>1, <2>2, <2>3, <2>4 DEF InStep, Busy
<1> QED BY <1>2, <1>4, <1>5, <1>6

LEMMA HandleInStep ==
  ASSUME IInv, TypeOK', NEW n \in Nodes, Handle(n)
  PROVE  InStep(n)'
<1> DEFINE q == Upcoming(n)
           k == Len(chain[saved[n] + 1]) + 3
<1>1. /\ chain[saved[n] + 1] \in Seq(Inputs) /\ q \in Requests
      /\ up[n] /\ saved[n] < Len(chain) /\ step[n] < Len(Current(n))
  BY CurrentType DEF IInv, Handle, Busy
<1>2. /\ saved[n] \in Nat /\ step[n] \in Nat /\ replica[n] \in Replica
      /\ Len(chain) \in Nat /\ replica[n].height \in Nat
  BY DEF IInv, TypeOK, Replica
<1>3. Len(Current(n)) = k /\ k \in Nat
  BY <1>1, BlockShape DEF Current
<1>4. q = Commit <=> step[n] + 1 = k
  <2>1. step[n] + 1 \in 1..k
    BY <1>1, <1>2, <1>3
  <2> QED BY <1>1, <2>1, BlockShape DEF Upcoming, Current
<1>5. /\ replica'[n] = After(replica[n], q) /\ step'[n] = step[n] + 1
      /\ UNCHANGED <<chain, saved, up>>
  BY DEF Handle, IInv, TypeOK
<1>6. Current(n)' = Current(n)
  BY <1>5 DEF Current
<1>7. InStep(n) /\ replica[n].height = saved[n]
  BY <1>1, <1>2 DEF IInv, InStep
<1>8. /\ replica'[n].height = IF step[n] + 1 = k THEN saved[n] + 1 ELSE saved[n]
      /\ Len(replica'[n].hashes) = replica'[n].height
  BY <1>1, <1>2, <1>4, <1>5, <1>7, HeightAfter, SMTT(30) DEF InStep
<1> QED BY <1>1, <1>2, <1>3, <1>5, <1>6, <1>8, SMTT(30) DEF InStep, Busy

LEMMA HandlePanicInStep ==
  ASSUME IInv, TypeOK', NEW n \in Nodes, HandlePanic(n)
  PROVE  InStep(n)'
<1>1. Upcoming(n) \in Requests /\ Upcoming(n) # Commit /\ replica[n] \in Replica
  BY CurrentType, PanicIsDeliver DEF IInv, HandlePanic, TypeOK
<1>2. /\ replica'[n] = After(replica[n], Upcoming(n)) /\ ~up'[n]
      /\ UNCHANGED <<chain, saved, step>>
  BY DEF HandlePanic, IInv, TypeOK
<1>3. InStep(n)
  BY DEF IInv
<1>4. replica'[n].height = replica[n].height /\ Len(replica'[n].hashes) = replica[n].height
  BY <1>1, <1>2, <1>3, HeightAfter DEF InStep
<1> QED BY <1>2, <1>3, <1>4 DEF InStep, Busy

LEMMA SaveInStep ==
  ASSUME IInv, TypeOK', NEW n \in Nodes, Save(n)
  PROVE  InStep(n)'
<1>1. /\ up[n] /\ saved[n] < Len(chain) /\ step[n] = Len(Current(n))
      /\ saved[n] \in Nat /\ Len(chain) \in Nat /\ InStep(n)
  BY DEF Save, Busy, IInv, TypeOK
<1>2. /\ saved'[n] = saved[n] + 1 /\ step'[n] = 0
      /\ UNCHANGED <<chain, replica, up>>
  BY DEF Save, IInv, TypeOK
<1>3. replica[n].height = saved[n] + 1
  BY <1>1 DEF InStep
<1>4. ASSUME saved'[n] < Len(chain) PROVE Len(Current(n)') > 0
  <2>1. saved'[n] + 1 \in 1..Len(chain)
    BY <1>1, <1>2, <1>4
  <2>2. chain[saved'[n] + 1] \in Seq(Inputs)
    BY <2>1 DEF IInv, TypeOK
  <2>3. Current(n)' = Block(chain[saved'[n] + 1])
    BY <1>2 DEF Current
  <2> QED BY <2>2, <2>3, BlockShape
<1> QED BY <1>1, <1>2, <1>3, <1>4 DEF InStep, Busy

LEMMA AppCrashesInStep ==
  ASSUME IInv, TypeOK', NEW n \in Nodes, AppCrashes(n)
  PROVE  InStep(n)'
<1>1. /\ replica'[n].height = replica[n].height
      /\ replica'[n].hashes = replica[n].hashes
      /\ ~up'[n] /\ UNCHANGED <<chain, saved, step>>
  BY DEF AppCrashes, Restarted, IInv, TypeOK
<1> QED BY <1>1 DEF IInv, InStep, Busy

LEMMA ConnectInStep ==
  ASSUME IInv, TypeOK', NEW n \in Nodes, Connect(n)
  PROVE  InStep(n)'
<1>1. /\ saved'[n] = replica[n].height /\ step'[n] = 0 /\ up'[n]
      /\ UNCHANGED <<chain, replica>>
  BY DEF Connect, InfoHeight, IInv, TypeOK
<1>2. InStep(n) /\ replica[n].height \in Nat /\ Len(chain) \in Nat
  BY DEF IInv, TypeOK, Replica
<1>3. ASSUME saved'[n] < Len(chain) PROVE Len(Current(n)') > 0
  <2>1. saved'[n] + 1 \in 1..Len(chain)
    BY <1>1, <1>2, <1>3
  <2>2. chain[saved'[n] + 1] \in Seq(Inputs)
    BY <2>1 DEF IInv, TypeOK
  <2>3. Current(n)' = Block(chain[saved'[n] + 1])
    BY <1>1 DEF Current
  <2> QED BY <2>2, <2>3, BlockShape
<1> QED BY <1>1, <1>2, <1>3 DEF InStep, Busy

LEMMA NextInStep ==
  ASSUME IInv, TypeOK', [Next]_vars
  PROVE  IInv'
<1>0. TypeOK
  BY DEF IInv
<1>1. ASSUME NEW n \in Nodes, Decide(n) PROVE IInv'
  BY <1>1, DecideInStep DEF IInv
<1>2. ASSUME NEW n \in Nodes, UNCHANGED chain,
             \A m \in Nodes \ {n} : /\ replica'[m] = replica[m] /\ saved'[m] = saved[m]
                                    /\ step'[m] = step[m] /\ up'[m] = up[m],
             InStep(n)'
      PROVE  IInv'
  <2>1. \A m \in Nodes \ {n} : InStep(m)'
    BY <1>2, OthersInStep
  <2> QED BY <1>2, <2>1 DEF IInv
<1>3. ASSUME NEW n \in Nodes, Handle(n) PROVE IInv'
  BY <1>0, <1>2, <1>3, HandleInStep DEF Handle, TypeOK
<1>4. ASSUME NEW n \in Nodes, HandlePanic(n) PROVE IInv'
  BY <1>0, <1>2, <1>4, HandlePanicInStep DEF HandlePanic, TypeOK
<1>5. ASSUME NEW n \in Nodes, Save(n) PROVE IInv'
  BY <1>0, <1>2, <1>5, SaveInStep DEF Save, TypeOK
<1>6. ASSUME NEW n \in Nodes, EngineStops(n) PROVE IInv'
  <2>1. InStep(n)'
    BY <1>0, <1>6 DEF EngineStops, IInv, InStep, Busy, TypeOK
  <2> QED BY <1>0, <1>2, <1>6, <2>1 DEF EngineStops, TypeOK
<1>7. ASSUME NEW n \in Nodes, AppCrashes(n) PROVE IInv'
  BY <1>0, <1>2, <1>7, AppCrashesInStep DEF AppCrashes, TypeOK
<1>8. ASSUME NEW n \in Nodes, Connect(n) PROVE IInv'
  BY <1>0, <1>2, <1>8, ConnectInStep DEF Connect, TypeOK
<1>9. CASE UNCHANGED vars
  BY <1>9, OthersInStep DEF vars, IInv
<1> QED BY <1>1, <1>3, <1>4, <1>5, <1>6, <1>7, <1>8, <1>9 DEF Next

LEMMA InitInStep == Init => IInv
<1> SUFFICES ASSUME Init PROVE IInv
  OBVIOUS
<1>1. \A n \in Nodes : InStep(n)
  BY DEF Init, InStep, Busy, NewReplica
<1> QED BY <1>1, InitType DEF IInv

(***************************************************************************)
(* Every block is committed exactly once for each node, whatever stops.    *)
(***************************************************************************)
THEOREM OneCommitEach == Spec => []CommittedOnce
<1>1. IInv /\ TypeOK' /\ [Next]_vars => IInv'
  BY NextInStep
<1>2. IInv => CommittedOnce
  BY DEF IInv, InStep, CommittedOnce
<1> QED BY InitInStep, <1>1, <1>2, TypeCorrect, PTL DEF Spec

-----------------------------------------------------------------------------
(***************************************************************************)
(* The memory and the walls.  Whether a transaction panics depends on the  *)
(* memory, but for applications that never lost theirs it is settled by    *)
(* the chain: Wall(h, j) says that transaction j of block h panics on what *)
(* the transactions before it store.  Nobody gets past one, so nobody      *)
(* stores anything behind one, so it panics for everybody, a poisoned lock *)
(* or not; and what a poisoned lock swallows was stored before the panic   *)
(* that poisoned it.                                                       *)
(***************************************************************************)
Held(app) == app.classes \cup app.contracts

Fatal(raw, stored) ==
  \/ raw = Undecodable
  \/ raw # Undecodable /\ HashPanics(raw.type)
  \/ /\ raw # Undecodable /\ ~HashFails(raw.type) /\ Integral(raw)
     /\ raw.type.kind = "Invoke"
     /\ \/ raw.type.address = TooShort
        \/ /\ Parses(raw.type.address) /\ UnknownContractFails
           /\ raw.type.address \notin stored

(* Delivering a transaction: what is stored, ...                            *)
LEMMA ApplyHolds ==
  ASSUME NEW app \in App, NEW t \in TransactionType, ~HashPanics(t), ~HashFails(t)
  PROVE  /\ Held(ApplyTx(app, t).app) =
              Held(app) \cup (IF t.kind # "Invoke" /\ ~app.poisoned
                                THEN {ComputeAndHash(t)} ELSE {})
         /\ t.kind = "Declare" /\ app.poisoned => ApplyTx(app, t).reply = "panic"
         /\ t.kind # "Invoke" /\ ~app.poisoned => ApplyTx(app, t).reply # "panic"
<1>1. CASE t \in Declares
  BY <1>1 DEF Declares, ApplyTx, DeclareTx, Outcome, Held, ComputeAndHash, App
<1>2. CASE t \in Deploys
  BY <1>2 DEF Deploys, ApplyTx, DeployTx, Outcome, Held, ComputeAndHash, App
<1>3. CASE t \in Invokes
  <2>1. t.kind = "Invoke" /\ ApplyTx(app, t) = InvokeTx(app, t)
    BY <1>3 DEF Invokes, ApplyTx
  <2>2. InvokeTx(app, t).app \in {app, [app EXCEPT !.poisoned = TRUE]}
    BY DEF InvokeTx, Outcome
  <2> QED BY <2>1, <2>2 DEF Held, App
<1> QED BY <1>1, <1>2, <1>3 DEF TransactionType

LEMMA DeliverHolds ==
  ASSUME NEW app \in App, NEW raw \in Raw
  PROVE  Held(Deliver(app, raw).app) =
           Held(app) \cup (IF Stores(raw) /\ ~app.poisoned THEN {raw.hash} ELSE {})
<1>1. Counted(app) \in App /\ Held(Counted(app)) = Held(app)
      /\ Counted(app).poisoned = app.poisoned
  BY DEF Counted, App, Held
<1>2. CASE raw = Undecodable
  BY <1>2, StarknetAppAssumption DEF Deliver, Outcome, Stores
<1>3. CASE raw # Undecodable
  <2>1. raw \in Transaction /\ raw.type \in TransactionType /\ raw.hash \in Hashes
    BY <1>3 DEF Raw, Transaction
  <2>2. CASE HashPanics(raw.type)
    BY <1>3, <2>2 DEF Deliver, Outcome, HashPanics, HashFails, Stores
  <2>3. CASE ~HashPanics(raw.type) /\ HashFails(raw.type)
    BY <1>1, <1>3, <2>3 DEF Deliver, Outcome, Stores
  <2>4. CASE ~HashPanics(raw.type) /\ ~HashFails(raw.type)
    <3> DEFINE fed == Hashed(Counted(app), raw.hash)
    <3>1. fed \in App /\ Held(fed) = Held(app) /\ fed.poisoned = app.poisoned
      BY <1>1, <2>1, HashedType DEF Hashed, App, Held
    <3>2. CASE Integral(raw)
      <4>1. Deliver(app, raw) = ApplyTx(fed, raw.type)
        BY <1>3, <2>4, <3>2 DEF Deliver
      <4>2. raw.type.kind \in {"Declare", "DeployAccount", "Invoke"}
        BY <2>1 DEF TransactionType, Declares, Deploys, Invokes
      <4>3. Stores(raw) <=> raw.type.kind # "Invoke"
        BY <2>1, <2>4, <3>2, <4>2 DEF Stores
      <4>4. raw.hash = ComputeAndHash(raw.type)
        BY <3>2 DEF Integral
      <4> QED BY <2>1, <2>4, <3>1, <4>1, <4>3, <4>4, ApplyHolds
    <3>3. CASE ~Integral(raw)
      BY <1>1, <1>3, <2>4, <3>3 DEF Deliver, Outcome, Stores
    <3> QED BY <3>2, <3>3
  <2> QED BY <2>2, <2>3, <2>4
<1> QED BY <1>2, <1>3

(* ... what panics, and what becomes of the lock.                           *)
LEMMA FatalPanics ==
  ASSUME NEW app \in App, NEW raw \in Raw, NEW stored, Fatal(raw, stored),
         app.poisoned \/ app.contracts \subseteq stored
  PROVE  Deliver(app, raw).reply = "panic"
<1>1. CASE raw = Undecodable
  BY <1>1 DEF Deliver, Outcome
<1>2. CASE raw # Undecodable /\ HashPanics(raw.type)
  BY <1>2 DEF Deliver, Outcome, HashPanics, HashFails
<1>3. CASE raw # Undecodable /\ ~HashPanics(raw.type)
  <2> DEFINE fed == Hashed(Counted(app), raw.hash)
             t == raw.type
  <2>1. /\ ~HashFails(t) /\ Integral(raw) /\ t.kind = "Invoke"
        /\ \/ t.address = TooShort
           \/ Parses(t.address) /\ UnknownContractFails /\ t.address \notin stored
    BY <1>3 DEF Fatal
  <2>2. Deliver(app, raw) = ApplyTx(fed, t)
    BY <1>3, <2>1 DEF Deliver
  <2>3. ApplyTx(fed, t) = InvokeTx(fed, t)
    BY <2>1 DEF ApplyTx
  <2>4. fed.poisoned = app.poisoned /\ fed.contracts = app.contracts
    BY DEF Hashed, Counted, App
  <2>5. CASE t.address = TooShort
    BY <2>2, <2>3, <2>5, NamesAreDistinct DEF InvokeTx, Outcome, Parses
  <2>6. CASE t.address # TooShort
    <3>1. Parses(t.address) /\ t.address # NotHex /\ UnknownContractFails
          /\ (fed.poisoned \/ t.address \notin fed.contracts)
      BY <2>1, <2>4, <2>6 DEF Parses
    <3>2. CASE fed.poisoned
      BY <2>2, <2>3, <2>6, <3>1, <3>2 DEF InvokeTx, Outcome, Parses
    <3>3. CASE ~fed.poisoned
      BY <2>2, <2>3, <2>6, <3>1, <3>3 DEF InvokeTx, Outcome, Parses
    <3> QED BY <2>2, <2>3, <3>2, <3>3
  <2> QED BY <2>5, <2>6
<1> QED BY <1>1, <1>2, <1>3

LEMMA PanicHolds ==
  ASSUME NEW app \in App, NEW raw \in Raw, Deliver(app, raw).reply = "panic"
  PROVE  Held(Deliver(app, raw).app) = Held(app)
<1>1. ASSUME Stores(raw), ~app.poisoned PROVE Deliver(app, raw).reply # "panic"
  <2> DEFINE fed == Hashed(Counted(app), raw.hash)
             t == raw.type
  <2>1. /\ raw # Undecodable /\ Integral(raw) /\ ~HashFails(t) /\ ~HashPanics(t)
        /\ t.kind # "Invoke" /\ t \in TransactionType /\ raw.hash \in Hashes
    BY <1>1, StarknetAppAssumption DEF Stores, Transaction
  <2>2. Deliver(app, raw) = ApplyTx(fed, t)
    BY <2>1 DEF Deliver
  <2>3. Counted(app) \in App /\ fed \in App /\ ~fed.poisoned
    <3>1. Counted(app) \in App /\ ~Counted(app).poisoned
      BY <1>1, SMTT(30) DEF Counted, App
    <3> QED BY <2>1, <3>1, HashedType DEF Hashed, App
  <2> QED BY <2>1, <2>2, <2>3, ApplyHolds
<1> QED BY <1>1, DeliverHolds

LEMMA PanicIsFatal ==
  ASSUME NEW app \in App, NEW raw \in Raw, ~app.poisoned,
         Deliver(app, raw).reply = "panic" \/ Deliver(app, raw).app.poisoned
  PROVE  Fatal(raw, Held(app))
<1>1. CASE raw = Undecodable \/ HashPanics(raw.type)
  BY <1>1 DEF Fatal
<1>2. CASE raw # Undecodable /\ ~HashPanics(raw.type)
  <2> DEFINE fed == Hashed(Counted(app), raw.hash)
             t == raw.type
  <2>1. raw \in Transaction /\ t \in TransactionType
    BY <1>2 DEF Raw, Transaction
  <2>2. ~Counted(app).poisoned /\ ~fed.poisoned /\ fed.contracts = app.contracts
    BY DEF Hashed, Counted, App
  <2>3. ~HashFails(t)
    BY <1>2, <2>2 DEF Deliver, Outcome
  <2>4. Integral(raw)
    BY <1>2, <2>2, <2>3 DEF Deliver, Outcome
  <2>5. Deliver(app, raw) = ApplyTx(fed, t)
    BY <1>2, <2>3, <2>4 DEF Deliver
  <2>6. t \in Invokes
    <3>1. CASE t \in Declares
      BY <2>2, <2>5, <3>1 DEF Declares, ApplyTx, DeclareTx, Outcome
    <3>2. CASE t \in Deploys
      BY <2>2, <2>5, <3>2 DEF Deploys, ApplyTx, DeployTx, Outcome
    <3> QED BY <2>1, <3>1, <3>2 DEF TransactionType
  <2>7. t.kind = "Invoke" /\ t.address \in Addresses \cup {NotHex, TooShort}
    BY <2>6 DEF Invokes
  <2>8. Deliver(app, raw) = InvokeTx(fed, t)
    BY <2>5, <2>7 DEF ApplyTx
  <2>9. \/ t.address = TooShort
        \/ /\ Parses(t.address) /\ UnknownContractFails
           /\ t.address \notin app.contracts
    BY <2>2, <2>8 DEF InvokeTx, Outcome, Parses
  <2>10. Parses(t.address) => t.address \notin app.classes
    <3>1. Parses(t.address) => t.address \in Addresses
      BY <2>7 DEF Parses
    <3> QED BY <3>1, ClassIsNoAddress DEF App
  <2> QED BY <1>2, <2>3, <2>4, <2>7, <2>9, <2>10 DEF Fatal, Held
<1> QED BY <1>1, <1>2 DEF Fatal

(* A request that is no delivery leaves the memory and the lock alone.      *)
LEMMA OtherRequests ==
  ASSUME NEW r \in Replica, NEW q \in {Begin, End, Commit}
  PROVE  /\ Held(After(r, q).app) = Held(r.app)
         /\ After(r, q).app.poisoned = r.app.poisoned
BY DEF After, BeginBlock, CommitReplica, Held, Begin, End, Commit, Replica, App

StoredBefore(h, j) ==
  StoredUpTo(h - 1)
    \cup {chain[h][i].hash : i \in {k \in 1..j - 1 : Stores(chain[h][k])}}

Wall(h, j) == Fatal(chain[h][j], StoredBefore(h, j))

Walled(h) == \E j \in 1..Len(chain[h]) : Wall(h, j)

(* What every application holds, memory lost or not.                        *)
Bounded(n) ==
  Held(replica[n].app) \subseteq
    StoredUpTo(IF saved[n] < Len(chain) THEN saved[n] + 1 ELSE saved[n])

(* What one that never lost its memory knows.  It stores all that its       *)
(* committed blocks accept, and there was no wall in them.                  *)
Kept(n)   == StoredUpTo(replica[n].height) \subseteq Held(replica[n].app)
Passed(n) == \A h \in 1..replica[n].height : ~Walled(h)

(* The same for the transactions it has answered of the block at hand.      *)
Underway(n) ==
  Busy(n) => \A i \in 1..Len(chain[saved[n] + 1]) : i < step[n] =>
    /\ Stores(chain[saved[n] + 1][i]) =>
         chain[saved[n] + 1][i].hash \in Held(replica[n].app)
    /\ ~Wall(saved[n] + 1, i)

(* It stores nothing from behind a wall of the next block.                  *)
AtBlock(n) == replica[n].height + 1

NotBehind(n) ==
  replica[n].height < Len(chain) =>
    \A j \in 1..Len(chain[AtBlock(n)]) :
      Wall(AtBlock(n), j) => Held(replica[n].app) \subseteq StoredBefore(AtBlock(n), j)

(* If its lock is poisoned, it stands before a wall, with all that is       *)
(* before the wall stored.                                                  *)
Stuck(n) ==
  /\ replica[n].height < Len(chain)
  /\ \E j \in 1..Len(chain[AtBlock(n)]) :
       /\ Wall(AtBlock(n), j)
       /\ StoredBefore(AtBlock(n), j) \subseteq Held(replica[n].app)

Remembers(n) ==
  /\ Kept(n)
  /\ Passed(n)
  /\ Underway(n)
  /\ NotBehind(n)
  /\ replica[n].app.poisoned => Stuck(n)

WallsAreWalls == \A h \in walls : h \in 1..Len(chain) /\ Walled(h)

MInv ==
  /\ IInv
  /\ \A n \in Nodes : Bounded(n) /\ (~lost[n] => Remembers(n))
  /\ WallsAreWalls

(***************************************************************************)
(* What the chain stores.                                                  *)
(***************************************************************************)
LEMMA StoredGrows ==
  ASSUME NEW g \in Nat, NEW h \in Nat, g <= h
  PROVE  /\ StoredUpTo(g) \subseteq StoredUpTo(h)
         /\ StoredUpTo(g)' \subseteq StoredUpTo(h)'
<1>1. 1..g \subseteq 1..h
  OBVIOUS
<1> QED BY <1>1 DEF StoredUpTo

LEMMA StoredOneMore ==
  ASSUME NEW h \in Nat
  PROVE  StoredUpTo(h + 1) = StoredUpTo(h) \cup StoredBy(h + 1)
<1>1. 1..h+1 = 1..h \cup {h + 1}
  OBVIOUS
<1> QED BY <1>1 DEF StoredUpTo

LEMMA StoredBelow ==
  ASSUME NEW h \in Nat, NEW j
  PROVE  /\ StoredUpTo(h) \subseteq StoredBefore(h + 1, j)
         /\ StoredUpTo(h)' \subseteq StoredBefore(h + 1, j)'
<1>1. h + 1 - 1 = h
  OBVIOUS
<1> QED BY <1>1 DEF StoredBefore

(* A block that is decided changes nothing about the earlier ones.          *)
LEMMA ChainGrows ==
  ASSUME TypeOK, NEW txs, chain' = Append(chain, txs), NEW h \in 0..Len(chain)
  PROVE  /\ StoredUpTo(h)' = StoredUpTo(h)
         /\ h > 0 => /\ chain'[h] = chain[h]
                     /\ \A j : StoredBefore(h, j)' = StoredBefore(h, j)
                     /\ \A j : Wall(h, j)' = Wall(h, j)
                     /\ Walled(h)' = Walled(h)
<1>1. chain \in Seq(Seq(Inputs)) /\ Len(chain) \in Nat
  BY DEF TypeOK
<1>2. \A g \in 1..Len(chain) : chain'[g] = chain[g]
  BY <1>1
<1>3. \A g \in 1..Len(chain) : StoredBy(g)' = StoredBy(g)
  BY <1>2 DEF StoredBy
<1>4. \A g \in 0..Len(chain) : StoredUpTo(g)' = StoredUpTo(g)
  <2> SUFFICES ASSUME NEW g \in 0..Len(chain) PROVE StoredUpTo(g)' = StoredUpTo(g)
    OBVIOUS
  <2>1. 1..g \subseteq 1..Len(chain)
    BY <1>1
  <2> QED BY <1>3, <2>1 DEF StoredUpTo
<1>5. ASSUME h > 0
      PROVE  /\ chain'[h] = chain[h]
             /\ \A j : StoredBefore(h, j)' = StoredBefore(h, j)
  <2>1. h \in 1..Len(chain) /\ h - 1 \in 0..Len(chain)
    BY <1>1, <1>5
  <2>2. chain'[h] = chain[h] /\ StoredUpTo(h - 1)' = StoredUpTo(h - 1)
    BY <1>2, <1>4, <2>1
  <2> QED BY <2>2 DEF StoredBefore
<1>6. ASSUME h > 0 PROVE (\A j : Wall(h, j)' = Wall(h, j)) /\ Walled(h)' = Walled(h)
  <2>1. \A j : Wall(h, j)' = Wall(h, j)
    BY <1>5, <1>6 DEF Wall
  <2> QED BY <1>5, <1>6, <2>1 DEF Walled
<1> QED BY <1>4, <1>5, <1>6

(* The request a node executes, by its number in the block.                 *)
LEMMA Position ==
  ASSUME IInv, NEW n \in Nodes, Busy(n), step[n] < Len(Current(n))
  PROVE  LET h == saved[n] + 1
             k == Len(chain[h])
         IN  /\ h \in 1..Len(chain) /\ chain[h] \in Seq(Inputs) /\ k \in Nat
             /\ replica[n].height = saved[n]
             /\ step[n] \in 0..k + 2
             /\ step[n] \in 1..k => Upcoming(n) = DeliverReq(chain[h][step[n]])
             /\ step[n] \notin 1..k => Upcoming(n) \in {Begin, End, Commit}
             /\ Upcoming(n) = Commit => step[n] = k + 2
<1> DEFINE h == saved[n] + 1
           k == Len(chain[h])
<1>1. /\ h \in 1..Len(chain) /\ saved[n] \in Nat /\ step[n] \in Nat /\ InStep(n)
      /\ replica[n].height \in Nat
  BY DEF IInv, TypeOK, Busy, Replica
<1>2. chain[h] \in Seq(Inputs) /\ k \in Nat
  BY <1>1 DEF IInv, TypeOK
<1>3. Len(Current(n)) = k + 3
  BY <1>2, BlockRequests DEF Current
<1>4. replica[n].height = saved[n]
  BY <1>1 DEF InStep, Busy
<1>5. step[n] \in 0..k + 2
  BY <1>1, <1>2, <1>3
<1>6. Upcoming(n) = Block(chain[h])[step[n] + 1]
  BY DEF Upcoming, Current
<1>7. ASSUME step[n] \in 1..k PROVE Upcoming(n) = DeliverReq(chain[h][step[n]])
  <2>1. step[n] + 1 \in 2..k + 1 /\ step[n] + 1 - 1 = step[n]
    BY <1>2, <1>7
  <2>2. \A i \in 2..k + 1 : Block(chain[h])[i] = DeliverReq(chain[h][i - 1])
    BY <1>2, BlockRequests
  <2>3. Block(chain[h])[step[n] + 1] = DeliverReq(chain[h][step[n] + 1 - 1])
    BY <1>2, <1>5, <2>1, <2>2
  <2> QED BY <1>6, <2>1, <2>3
<1>8. ASSUME step[n] \notin 1..k PROVE Upcoming(n) \in {Begin, End, Commit}
  <2>1. step[n] + 1 = 1 \/ step[n] + 1 = k + 2 \/ step[n] + 1 = k + 3
    BY <1>2, <1>5, <1>8
  <2>2. /\ Block(chain[h])[1] = Begin /\ Block(chain[h])[k + 2] = End
        /\ Block(chain[h])[k + 3] = Commit
    BY <1>2, BlockRequests
  <2> QED BY <1>6, <2>1, <2>2
<1>9. ASSUME Upcoming(n) = Commit PROVE step[n] = k + 2
  <2>1. step[n] + 1 \in 1..k + 3
    BY <1>2, <1>5
  <2>2. step[n] + 1 = k + 3
    BY <1>2, <1>6, <1>9, <2>1, BlockShape
  <2> QED BY <1>2, <1>5, <2>2
<1> QED BY <1>1, <1>2, <1>4, <1>5, <1>7, <1>8, <1>9

-----------------------------------------------------------------------------
(***************************************************************************)
(* Each step keeps MInv: first steps that leave the chain, then Decide.    *)
(***************************************************************************)
LEMMA ChainStays ==
  ASSUME UNCHANGED chain
  PROVE  /\ \A h : StoredUpTo(h)' = StoredUpTo(h)
         /\ \A h, j : StoredBefore(h, j)' = StoredBefore(h, j)
         /\ \A h, j : Wall(h, j)' = Wall(h, j)
         /\ \A h : Walled(h)' = Walled(h)
<1>1. \A h : StoredUpTo(h)' = StoredUpTo(h)
  BY DEF StoredUpTo, StoredBy
<1>2. \A h, j : StoredBefore(h, j)' = StoredBefore(h, j)
  BY <1>1 DEF StoredBefore
<1>3. \A h, j : Wall(h, j)' = Wall(h, j)
  BY <1>2 DEF Wall
<1>4. \A h : Walled(h)' = Walled(h)
  BY <1>3 DEF Walled
<1> QED BY <1>1, <1>2, <1>3, <1>4

LEMMA NotBehindStays ==
  ASSUME UNCHANGED chain, NEW n \in Nodes,
         replica'[n].height = replica[n].height,
         \/ NotBehind(n) /\ Held(replica'[n].app) = Held(replica[n].app)
         \/ \A j \in 1..Len(chain[AtBlock(n)]) :
              Wall(AtBlock(n), j) =>
                Held(replica'[n].app) \subseteq StoredBefore(AtBlock(n), j)
  PROVE  NotBehind(n)'
<1>1. PICK g : g = AtBlock(n)
  OBVIOUS
<1>2. AtBlock(n)' = g
  BY <1>1 DEF AtBlock
<1>3. \A j : Wall(g, j)' = Wall(g, j) /\ StoredBefore(g, j)' = StoredBefore(g, j)
  BY ChainStays
<1>4. ASSUME replica[n].height < Len(chain), NEW j \in 1..Len(chain[g]), Wall(g, j)
      PROVE  Held(replica'[n].app) \subseteq StoredBefore(g, j)
  BY <1>1, <1>4 DEF NotBehind
<1> QED BY <1>2, <1>3, <1>4 DEF NotBehind

LEMMA OthersRemember ==
  ASSUME MInv, NEW n \in Nodes, UNCHANGED chain,
         replica'[n] = replica[n], saved'[n] = saved[n], step'[n] = step[n],
         up'[n] = up[n], lost'[n] = lost[n]
  PROVE  Bounded(n)' /\ (~lost'[n] => Remembers(n)')
<1>1. Bounded(n) /\ (~lost[n] => Remembers(n))
  BY DEF MInv
<1>2. Bounded(n)'
  BY <1>1, ChainStays DEF Bounded
<1>3. ASSUME ~lost[n] PROVE Remembers(n)'
  <2>1. Remembers(n)
    BY <1>1, <1>3
  <2>2. Kept(n)' /\ Passed(n)'
    BY <2>1, ChainStays DEF Remembers, Kept, Passed
  <2>3. Underway(n)'
    BY <2>1, ChainStays DEF Remembers, Underway, Busy
  <2>4. NotBehind(n)'
    BY <2>1, NotBehindStays DEF Remembers
  <2>5. Stuck(n)' = Stuck(n)
    BY ChainStays DEF Stuck, AtBlock
  <2> QED BY <2>1, <2>2, <2>3, <2>4, <2>5 DEF Remembers
<1> QED BY <1>2, <1>3

(* An engine that stops, saves or connects changes nothing that the         *)
(* application remembers; it only starts or ends a block.                   *)
LEMMA EngineRemembers ==
  ASSUME MInv, NEW n \in Nodes, UNCHANGED chain,
         replica'[n] = replica[n], lost'[n] = lost[n],
         saved'[n] \in Nat, saved[n] <= saved'[n], saved'[n] <= Len(chain),
         up'[n] => step'[n] = 0
  PROVE  Bounded(n)' /\ (~lost'[n] => Remembers(n)')
<1>1. Bounded(n) /\ (~lost[n] => Remembers(n)) /\ saved[n] \in Nat /\ Len(chain) \in Nat
  BY DEF MInv, IInv, TypeOK
<1>2. Bounded(n)'
  <2> DEFINE last == IF saved[n] < Len(chain) THEN saved[n] + 1 ELSE saved[n]
             new  == IF saved'[n] < Len(chain) THEN saved'[n] + 1 ELSE saved'[n]
  <2>1. last \in Nat /\ new \in Nat /\ last <= new
    BY <1>1
  <2>2. StoredUpTo(last) \subseteq StoredUpTo(new)
    BY <2>1, StoredGrows
  <2> QED BY <1>1, <2>2, ChainStays DEF Bounded
<1>3. ASSUME ~lost[n] PROVE Remembers(n)'
  <2>1. Remembers(n)
    BY <1>1, <1>3
  <2>2. Kept(n)' /\ Passed(n)'
    BY <2>1, ChainStays DEF Remembers, Kept, Passed
  <2>3. Underway(n)'
    BY DEF Underway, Busy
  <2>4. NotBehind(n)'
    BY <2>1, NotBehindStays DEF Remembers
  <2>5. Stuck(n)' = Stuck(n)
    BY ChainStays DEF Stuck, AtBlock
  <2> QED BY <2>1, <2>2, <2>3, <2>4, <2>5 DEF Remembers
<1> QED BY <1>2, <1>3

LEMMA CrashRemembers ==
  ASSUME MInv, NEW n \in Nodes, AppCrashes(n)
  PROVE  Bounded(n)' /\ (~lost'[n] => Remembers(n)')
<1>1. lost'[n] /\ replica'[n].app = NewApp
  BY DEF AppCrashes, Restarted, MInv, IInv, TypeOK
<1> QED BY <1>1 DEF Bounded, Held, NewApp

LEMMA DecideRemembers ==
  ASSUME MInv, TypeOK', NEW m \in Nodes, Decide(m), NEW n \in Nodes
  PROVE  Bounded(n)' /\ (~lost'[n] => Remembers(n)')
<1>0. Len(chain) \in Nat /\ saved[n] \in Nat /\ replica[n].height \in Nat
  <2>1. TypeOK
    BY DEF MInv, IInv
  <2>2. Len(chain) \in Nat /\ saved[n] \in Nat /\ replica[n] \in Replica
    BY <2>1 DEF TypeOK
  <2> QED BY <2>2 DEF Replica
<1>1. PICK l \in Nat, s \in Nat, r \in Nat :
        l = Len(chain) /\ s = saved[n] /\ r = replica[n].height
  BY <1>0
<1> DEFINE held == Held(replica[n].app)
           last == IF s < l THEN s + 1 ELSE s
           new  == IF s < l + 1 THEN s + 1 ELSE s
<1>2. /\ UNCHANGED <<replica, saved, step, up, lost>>
      /\ step[n] \in Nat /\ r <= l /\ r \in {s, s + 1}
      /\ Bounded(n) /\ (~lost[n] => Remembers(n)) /\ InStep(n) /\ TypeOK
  BY <1>1 DEF Decide, MInv, IInv, InStep, TypeOK
<1>3. PICK txs : chain' = Append(chain, txs)
  BY DEF Decide
<1>4. Len(chain') = l + 1
  BY <1>1, <1>2, <1>3 DEF TypeOK
<1>5. \A h \in 0..l : StoredUpTo(h)' = StoredUpTo(h)
  BY <1>1, <1>2, <1>3, ChainGrows
<1>6. \A h \in 1..l : /\ chain'[h] = chain[h]
                      /\ \A j : StoredBefore(h, j)' = StoredBefore(h, j)
                      /\ \A j : Wall(h, j)' = Wall(h, j)
                      /\ Walled(h)' = Walled(h)
  <2> SUFFICES ASSUME NEW h \in 1..l
               PROVE  /\ chain'[h] = chain[h]
                      /\ \A j : StoredBefore(h, j)' = StoredBefore(h, j)
                      /\ \A j : Wall(h, j)' = Wall(h, j)
                      /\ Walled(h)' = Walled(h)
    OBVIOUS
  <2>1. h \in 0..Len(chain) /\ h > 0
    BY <1>1
  <2> QED BY <1>2, <1>3, <2>1, ChainGrows
<1>7. last \in 0..l /\ held \subseteq StoredUpTo(last)
  BY <1>1, <1>2 DEF Bounded
<1>8. held \subseteq StoredUpTo(l)'
  <2>1. StoredUpTo(last) \subseteq StoredUpTo(l)
    BY <1>7, StoredGrows
  <2> QED BY <1>1, <1>5, <1>7, <2>1
<1>9. Bounded(n)'
  <2>1. new \in Nat /\ last <= new
    BY <1>1
  <2>2. held \subseteq StoredUpTo(new)'
    <3>1. StoredUpTo(last)' = StoredUpTo(last)
      BY <1>5, <1>7
    <3>2. StoredUpTo(last)' \subseteq StoredUpTo(new)'
      BY <1>7, <2>1, StoredGrows
    <3> QED BY <1>7, <3>1, <3>2
  <2> QED BY <1>1, <1>2, <1>4, <2>2 DEF Bounded
<1>10. ASSUME ~lost[n] PROVE Remembers(n)'
  <2>1. Remembers(n)
    BY <1>2, <1>10
  <2>2. Kept(n)'
    <3>1. StoredUpTo(r)' = StoredUpTo(r) /\ StoredUpTo(r) \subseteq held
      BY <1>1, <1>2, <1>5, <2>1 DEF Remembers, Kept
    <3> QED BY <1>1, <1>2, <3>1 DEF Kept
  <2>3. Passed(n)'
    <3>1. \A h \in 1..r : h \in 1..l /\ ~Walled(h)
      BY <1>1, <1>2, <2>1 DEF Remembers, Passed
    <3> QED BY <1>1, <1>2, <1>6, <3>1 DEF Passed
  <2>4. Underway(n)'
    <3>1. CASE s < l
      <4>1. s + 1 \in 1..l
        BY <1>1, <3>1
      <4>2. Underway(n) /\ Busy(n) = Busy(n)'
        BY <1>1, <1>2, <1>4, <2>1, <3>1 DEF Remembers, Busy
      <4>3. chain'[s + 1] = chain[s + 1] /\ \A j : Wall(s + 1, j)' = Wall(s + 1, j)
        BY <1>6, <4>1
      <4> QED BY <1>1, <1>2, <4>2, <4>3 DEF Underway
    <3>2. CASE ~(s < l)
      <4>1. up[n] => step[n] = 0
        BY <1>1, <1>2, <3>2 DEF InStep
      <4> QED BY <1>2, <4>1 DEF Underway, Busy
    <3> QED BY <3>1, <3>2
  <2>5. NotBehind(n)'
    <3>1. CASE r < l
      <4>1. r + 1 \in 1..l
        BY <1>1, <3>1
      <4>2. /\ chain'[r + 1] = chain[r + 1]
            /\ \A j : StoredBefore(r + 1, j)' = StoredBefore(r + 1, j)
            /\ \A j : Wall(r + 1, j)' = Wall(r + 1, j)
        BY <1>6, <4>1
      <4> QED BY <1>1, <1>2, <2>1, <3>1, <4>2 DEF Remembers, NotBehind, AtBlock
    <3>2. CASE r = l
      <4>1. \A j : held \subseteq StoredBefore(r + 1, j)'
        BY <1>1, <1>8, <3>2, StoredBelow
      <4> QED BY <1>1, <1>2, <4>1 DEF NotBehind, AtBlock
    <3> QED BY <1>1, <1>2, <3>1, <3>2
  <2>6. ASSUME replica[n].app.poisoned PROVE Stuck(n)'
    <3>1. Stuck(n) /\ r < l
      BY <1>1, <2>1, <2>6 DEF Remembers, Stuck
    <3>2. r + 1 \in 1..l
      BY <1>1, <3>1
    <3>3. /\ chain'[r + 1] = chain[r + 1]
          /\ \A j : StoredBefore(r + 1, j)' = StoredBefore(r + 1, j)
          /\ \A j : Wall(r + 1, j)' = Wall(r + 1, j)
      BY <1>6, <3>2
    <3>4. r < l + 1
      BY <1>1, <3>1
    <3> QED BY <1>1, <1>2, <1>4, <3>1, <3>3, <3>4 DEF Stuck, AtBlock
  <2> QED BY <1>2, <2>2, <2>3, <2>4, <2>5, <2>6 DEF Remembers
<1> QED BY <1>2, <1>9, <1>10

(* A transaction that is answered: it was no wall, and what it stores comes *)
(* before every wall.                                                       *)
LEMMA DeliverRemembers ==
  ASSUME MInv, NEW n \in Nodes, Handle(n), step[n] \in 1..Len(chain[saved[n] + 1])
  PROVE  Bounded(n)' /\ (~lost'[n] => Remembers(n)')
<1> DEFINE h == saved[n] + 1
           i == step[n]
           raw == chain[h][i]
           app == replica[n].app
           new == Deliver(app, raw).app
           held == Held(app)
<1>1. /\ Busy(n) /\ step[n] < Len(Current(n)) /\ IInv /\ TypeOK
      /\ UNCHANGED <<chain, saved, up, lost>>
      /\ replica'[n] = After(replica[n], Upcoming(n)) /\ step'[n] = i + 1
      /\ Answer(replica[n], Upcoming(n)) # "panic"
  BY DEF Handle, MInv, IInv, TypeOK
<1>2. /\ h \in 1..Len(chain) /\ chain[h] \in Seq(Inputs) /\ saved[n] \in Nat
      /\ replica[n].height = saved[n] /\ Upcoming(n) = DeliverReq(raw)
      /\ Len(chain) \in Nat /\ i \in Nat /\ replica[n] \in Replica
  BY <1>1, Position DEF TypeOK
<1>3. raw \in Raw /\ app \in App
  <2>1. raw \in Inputs
    BY <1>2
  <2> QED BY <1>2, <2>1, ReplicaAssumption DEF Replica
<1>4. /\ replica'[n].app = new /\ replica'[n].height = saved[n]
      /\ Deliver(app, raw).reply # "panic"
  BY <1>1, <1>2 DEF After, Answer, DeliverReq, Replica
<1>5. Held(new) = held \cup (IF Stores(raw) /\ ~app.poisoned THEN {raw.hash} ELSE {})
  BY <1>3, DeliverHolds
<1>6. raw.hash \in StoredUpTo(h) \/ ~Stores(raw)
  BY <1>2 DEF StoredUpTo, StoredBy, Elements
<1>7. Bounded(n)'
  <2>1. held \subseteq StoredUpTo(h)
    BY <1>1, <1>2 DEF MInv, Bounded, Busy
  <2>2. Held(new) \subseteq StoredUpTo(h)
    BY <1>5, <1>6, <2>1
  <2>3. saved[n] < Len(chain)
    BY <1>1 DEF Busy
  <2> QED BY <1>1, <1>4, <2>2, <2>3, ChainStays DEF Bounded
<1>8. ASSUME ~lost[n] PROVE Remembers(n)'
  <2>1. Remembers(n)
    BY <1>8 DEF MInv
  <2>2. Kept(n)' /\ Passed(n)'
    BY <1>1, <1>2, <1>4, <1>5, <2>1, ChainStays DEF Remembers, Kept, Passed
  <2>3. \A j \in 1..Len(chain[h]) : Wall(h, j) => held \subseteq StoredBefore(h, j)
    BY <1>1, <1>2, <2>1 DEF Remembers, NotBehind, AtBlock, Busy
  <2>4. ~Wall(h, i)
    <3>1. ASSUME Wall(h, i) PROVE FALSE
      <4>1. Fatal(raw, StoredBefore(h, i))
        BY <3>1 DEF Wall
      <4>2. app.contracts \subseteq StoredBefore(h, i)
        BY <2>3, <3>1 DEF Held
      <4> QED BY <1>3, <1>4, <4>1, <4>2, FatalPanics
    <3> QED BY <3>1
  <2>5. \A j \in 1..Len(chain[h]) : j < i => ~Wall(h, j)
    BY <1>1, <2>1 DEF Remembers, Underway
  <2>6. \A j \in 1..Len(chain[h]) : Wall(h, j) => i < j
    BY <1>2, <2>4, <2>5
  <2>7. ASSUME NEW j \in 1..Len(chain[h]), Wall(h, j), Stores(raw)
        PROVE  raw.hash \in StoredBefore(h, j)
    <3>1. i \in 1..j - 1
      BY <1>2, <2>6, <2>7
    <3> QED BY <2>7, <3>1 DEF StoredBefore
  <2>8. Stores(raw) => raw.hash \in Held(new)
    <3>1. CASE app.poisoned
      <4>1. PICK j \in 1..Len(chain[h]) : Wall(h, j) /\ StoredBefore(h, j) \subseteq held
        BY <1>2, <2>1, <3>1 DEF Remembers, Stuck, AtBlock
      <4> QED BY <1>5, <2>7, <4>1
    <3>2. CASE ~app.poisoned
      BY <1>5, <3>2
    <3> QED BY <3>1, <3>2
  <2>9. Underway(n)'
    <3>1. ASSUME NEW j \in 1..Len(chain[h]), j < i + 1
          PROVE  (Stores(chain[h][j]) => chain[h][j].hash \in Held(new)) /\ ~Wall(h, j)
      <4>1. CASE j = i
        BY <2>4, <2>8, <4>1
      <4>2. CASE j # i
        <5>1. j < i
          BY <1>2, <3>1, <4>2
        <5> QED BY <1>1, <1>5, <2>1, <5>1 DEF Remembers, Underway
      <4> QED BY <4>1, <4>2
    <3> QED BY <1>1, <1>4, <3>1, ChainStays DEF Underway
  <2>10. NotBehind(n)'
    <3>1. \A j \in 1..Len(chain[h]) : Wall(h, j) => Held(new) \subseteq StoredBefore(h, j)
      BY <1>5, <2>3, <2>7
    <3> QED BY <1>1, <1>2, <1>4, <3>1, NotBehindStays DEF AtBlock
  <2>11. ASSUME new.poisoned PROVE Stuck(n)'
    <3>1. app.poisoned
      <4>1. ASSUME ~app.poisoned PROVE FALSE
        <5>1. Fatal(raw, held)
          BY <1>3, <2>11, <4>1, PanicIsFatal
        <5> QED BY <1>3, <1>4, <5>1, FatalPanics DEF Held
      <4> QED BY <4>1
    <3>2. Stuck(n)
      BY <2>1, <3>1 DEF Remembers
    <3> QED BY <1>1, <1>2, <1>4, <1>5, <3>2, ChainStays DEF Stuck, AtBlock
  <2> QED BY <1>4, <2>2, <2>9, <2>10, <2>11 DEF Remembers
<1> QED BY <1>1, <1>7, <1>8

(* Any other request: only a commit is news, of a block without a wall.     *)
LEMMA OtherRemembers ==
  ASSUME MInv, NEW n \in Nodes, Handle(n), step[n] \notin 1..Len(chain[saved[n] + 1])
  PROVE  Bounded(n)' /\ (~lost'[n] => Remembers(n)')
<1> DEFINE h == saved[n] + 1
           k == Len(chain[h])
           q == Upcoming(n)
           held == Held(replica[n].app)
<1>1. /\ Busy(n) /\ step[n] < Len(Current(n)) /\ IInv /\ TypeOK
      /\ UNCHANGED <<chain, saved, up, lost>>
      /\ replica'[n] = After(replica[n], q) /\ step'[n] = step[n] + 1
  BY DEF Handle, MInv, IInv, TypeOK
<1>2. /\ h \in 1..Len(chain) /\ saved[n] \in Nat /\ k \in Nat
      /\ replica[n].height = saved[n] /\ q \in {Begin, End, Commit}
      /\ Len(chain) \in Nat /\ step[n] \in 0..k + 2 /\ replica[n] \in Replica
      /\ q = Commit => step[n] = k + 2
      /\ Len(replica[n].hashes) = replica[n].height
  <2>1. Len(replica[n].hashes) = replica[n].height
    BY <1>1 DEF IInv, InStep
  <2> QED BY <1>1, <2>1, Position DEF TypeOK
<1>3. /\ Held(replica'[n].app) = held
      /\ replica'[n].app.poisoned = replica[n].app.poisoned
  BY <1>1, <1>2, OtherRequests
<1>4. replica'[n].height = IF q = Commit THEN h ELSE saved[n]
  <2>1. q \in Requests
    BY <1>2 DEF Requests
  <2> QED BY <1>1, <1>2, <2>1, HeightAfter
<1>5. Bounded(n)'
  <2>1. Bounded(n)
    BY DEF MInv
  <2> QED BY <1>1, <1>3, <2>1, ChainStays DEF Bounded
<1>6. ASSUME ~lost[n] PROVE Remembers(n)'
  <2>1. Remembers(n)
    BY <1>6 DEF MInv
  <2>2. ASSUME NEW j \in 1..k, j < step[n] + 1
        PROVE  (Stores(chain[h][j]) => chain[h][j].hash \in held) /\ ~Wall(h, j)
    <3>1. j < step[n]
      BY <1>2, <2>2
    <3> QED BY <1>1, <2>1, <3>1 DEF Remembers, Underway
  <2>3. Underway(n)'
    BY <1>1, <1>3, <2>2, ChainStays DEF Underway
  <2>4. CASE q # Commit
    <3>1. Kept(n)' /\ Passed(n)'
      BY <1>1, <1>2, <1>3, <1>4, <2>1, <2>4, ChainStays DEF Remembers, Kept, Passed
    <3>2. NotBehind(n)'
      BY <1>1, <1>2, <1>3, <1>4, <2>1, <2>4, ChainStays DEF Remembers, NotBehind, AtBlock
    <3>3. Stuck(n) => Stuck(n)'
      BY <1>1, <1>2, <1>3, <1>4, <2>4, ChainStays DEF Stuck, AtBlock
    <3> QED BY <1>3, <2>1, <2>3, <3>1, <3>2, <3>3 DEF Remembers
  <2>5. CASE q = Commit
    <3>1. \A j \in 1..k : (Stores(chain[h][j]) => chain[h][j].hash \in held) /\ ~Wall(h, j)
      BY <1>2, <2>2, <2>5
    <3>2. ~Walled(h)
      BY <3>1 DEF Walled
    <3>3. Kept(n)'
      <4>1. StoredUpTo(saved[n]) \subseteq held
        BY <1>2, <2>1 DEF Remembers, Kept
      <4>2. StoredBy(h) \subseteq held
        BY <3>1 DEF StoredBy, Elements
      <4>3. StoredUpTo(h) \subseteq held
        BY <1>2, <4>1, <4>2, StoredOneMore
      <4> QED BY <1>1, <1>3, <1>4, <2>5, <4>3, ChainStays DEF Kept
    <3>4. Passed(n)'
      <4>1. \A g \in 1..h : g = h \/ g \in 1..saved[n]
        BY <1>2
      <4>2. \A g \in 1..h : ~Walled(g)
        BY <1>2, <2>1, <3>2, <4>1 DEF Remembers, Passed
      <4> QED BY <1>1, <1>4, <2>5, <4>2, ChainStays DEF Passed
    <3>5. NotBehind(n)'
      <4>1. held \subseteq StoredUpTo(h)
        BY <1>1, <1>2 DEF MInv, Bounded, Busy
      <4>2. h \in Nat
        BY <1>2
      <4>3. \A j : held \subseteq StoredBefore(h + 1, j)
        BY <4>1, <4>2, StoredBelow
      <4> QED BY <1>1, <1>3, <1>4, <2>5, <4>3, ChainStays DEF NotBehind, AtBlock
    <3>6. ~replica[n].app.poisoned
      BY <1>2, <2>1, <3>1 DEF Remembers, Stuck, AtBlock
    <3> QED BY <1>3, <2>3, <3>3, <3>4, <3>5, <3>6 DEF Remembers
  <2> QED BY <2>4, <2>5
<1> QED BY <1>1, <1>5, <1>6

(* A transaction that panics marks a wall, and what comes before is stored. *)
LEMMA PanicRemembers ==
  ASSUME MInv, NEW n \in Nodes, HandlePanic(n)
  PROVE  /\ Bounded(n)' /\ (~lost'[n] => Remembers(n)')
         /\ ~lost[n] => Walled(saved[n] + 1)
<1> DEFINE h == saved[n] + 1
           i == step[n]
           raw == chain[h][i]
           app == replica[n].app
           new == Deliver(app, raw).app
           held == Held(app)
<1>1. /\ Busy(n) /\ step[n] < Len(Current(n)) /\ IInv /\ TypeOK
      /\ UNCHANGED <<chain, saved, step, lost>> /\ ~up'[n]
      /\ replica'[n] = After(replica[n], Upcoming(n))
      /\ Answer(replica[n], Upcoming(n)) = "panic"
  BY DEF HandlePanic, MInv, IInv, TypeOK
<1>2. /\ h \in 1..Len(chain) /\ chain[h] \in Seq(Inputs) /\ saved[n] \in Nat
      /\ replica[n].height = saved[n]
      /\ i \in 1..Len(chain[h]) /\ Upcoming(n) = DeliverReq(raw)
      /\ Len(chain) \in Nat /\ replica[n] \in Replica
  <2>1. Upcoming(n) \notin {Begin, End, Commit}
    BY <1>1, PanicIsDeliver DEF Begin, End, Commit
  <2> QED BY <1>1, <2>1, Position DEF TypeOK
<1>3. raw \in Raw /\ app \in App
  <2>1. raw \in Inputs
    BY <1>2
  <2> QED BY <1>2, <2>1, ReplicaAssumption DEF Replica
<1>4. /\ replica'[n].app = new /\ replica'[n].height = saved[n]
      /\ Deliver(app, raw).reply = "panic"
  BY <1>1, <1>2 DEF After, Answer, DeliverReq, Replica
<1>5. Held(new) = held
  BY <1>3, <1>4, PanicHolds
<1>6. Bounded(n)'
  <2>1. Bounded(n)
    BY DEF MInv
  <2> QED BY <1>1, <1>4, <1>5, <2>1, ChainStays DEF Bounded
<1>7. ASSUME ~lost[n] PROVE Stuck(n) /\ Remembers(n)
  <2>1. Remembers(n)
    BY <1>7 DEF MInv
  <2>2. CASE app.poisoned
    BY <2>1, <2>2 DEF Remembers
  <2>3. CASE ~app.poisoned
    <3>1. StoredBefore(h, i) \subseteq held
      <4>1. StoredUpTo(h - 1) \subseteq held
        <5>1. h - 1 = saved[n]
          BY <1>2
        <5> QED BY <1>2, <2>1, <5>1 DEF Remembers, Kept
      <4>2. ASSUME NEW j \in 1..i - 1, Stores(chain[h][j])
            PROVE  chain[h][j].hash \in held
        <5>1. j \in 1..Len(chain[h]) /\ j < step[n]
          BY <1>2
        <5> QED BY <1>1, <2>1, <4>2, <5>1 DEF Remembers, Underway
      <4> QED BY <4>1, <4>2 DEF StoredBefore
    <3>2. Fatal(raw, held)
      BY <1>3, <1>4, <2>3, PanicIsFatal
    <3>3. Wall(h, i)
      BY <3>1, <3>2 DEF Wall, Fatal
    <3> QED BY <1>1, <1>2, <2>1, <3>1, <3>3 DEF Stuck, AtBlock, Busy
  <2> QED BY <2>1, <2>2, <2>3
<1>8. ASSUME ~lost[n] PROVE Remembers(n)'
  <2>1. Kept(n)' /\ Passed(n)'
    BY <1>1, <1>2, <1>4, <1>5, <1>7, <1>8, ChainStays DEF Remembers, Kept, Passed
  <2>2. Underway(n)'
    BY <1>1 DEF Underway, Busy
  <2>3. NotBehind(n)'
    BY <1>1, <1>2, <1>4, <1>5, <1>7, <1>8, NotBehindStays DEF Remembers
  <2>4. Stuck(n)'
    BY <1>1, <1>2, <1>4, <1>5, <1>7, <1>8, ChainStays DEF Stuck, AtBlock
  <2> QED BY <2>1, <2>2, <2>3, <2>4 DEF Remembers
<1>9. ASSUME ~lost[n] PROVE Walled(h)
  BY <1>2, <1>7, <1>9 DEF Stuck, AtBlock, Walled
<1> QED BY <1>1, <1>6, <1>8, <1>9

LEMMA NextRemembers ==
  ASSUME MInv, TypeOK', IInv', [Next]_vars
  PROVE  MInv'
<1>0. IInv /\ TypeOK
  BY DEF MInv, IInv
<1>1. ASSUME UNCHANGED <<chain, walls>>,
             \A m \in Nodes : Bounded(m)' /\ (~lost'[m] => Remembers(m)')
      PROVE  MInv'
  <2>1. WallsAreWalls'
    BY <1>1, ChainStays DEF MInv, WallsAreWalls
  <2> QED BY <1>1, <2>1 DEF MInv
<1>2. ASSUME NEW n \in Nodes, UNCHANGED chain,
             \A m \in Nodes \ {n} :
               /\ replica'[m] = replica[m] /\ saved'[m] = saved[m] /\ step'[m] = step[m]
               /\ up'[m] = up[m] /\ lost'[m] = lost[m],
             Bounded(n)' /\ (~lost'[n] => Remembers(n)')
      PROVE  \A m \in Nodes : Bounded(m)' /\ (~lost'[m] => Remembers(m)')
  <2>1. \A m \in Nodes \ {n} : Bounded(m)' /\ (~lost'[m] => Remembers(m)')
    BY <1>2, OthersRemember
  <2> QED BY <1>2, <2>1
<1>3. ASSUME NEW n \in Nodes, Decide(n) PROVE MInv'
  <2>1. \A m \in Nodes : Bounded(m)' /\ (~lost'[m] => Remembers(m)')
    BY <1>3, DecideRemembers
  <2>2. PICK txs : chain' = Append(chain, txs)
    BY <1>3 DEF Decide
  <2>3. Len(chain) \in Nat /\ Len(chain') = Len(chain) + 1
    BY <1>0, <2>2 DEF TypeOK
  <2>4. WallsAreWalls'
    <3> SUFFICES ASSUME NEW h \in walls' PROVE (h \in 1..Len(chain) /\ Walled(h))'
      BY DEF WallsAreWalls
    <3>1. h \in 1..Len(chain) /\ Walled(h)
      BY <1>3 DEF Decide, MInv, WallsAreWalls
    <3>2. h \in 0..Len(chain) /\ h > 0 /\ h \in 1..Len(chain')
      BY <2>3, <3>1
    <3>3. Walled(h)' = Walled(h)
      BY <1>0, <2>2, <3>2, ChainGrows
    <3> QED BY <3>1, <3>2, <3>3
  <2> QED BY <2>1, <2>4 DEF MInv
<1>4. ASSUME NEW n \in Nodes, Handle(n) PROVE MInv'
  <2>1. Bounded(n)' /\ (~lost'[n] => Remembers(n)')
    BY <1>4, DeliverRemembers, OtherRemembers
  <2>2. \A m \in Nodes : Bounded(m)' /\ (~lost'[m] => Remembers(m)')
    BY <1>0, <1>2, <1>4, <2>1 DEF Handle, TypeOK
  <2> QED BY <1>1, <1>4, <2>2 DEF Handle
<1>5. ASSUME NEW n \in Nodes, HandlePanic(n) PROVE MInv'
  <2>1. \A m \in Nodes : Bounded(m)' /\ (~lost'[m] => Remembers(m)')
    BY <1>0, <1>2, <1>5, PanicRemembers DEF HandlePanic, TypeOK
  <2>2. saved[n] + 1 \in 1..Len(chain)
    BY <1>0, <1>5 DEF HandlePanic, Busy, TypeOK
  <2>3. ~lost[n] => Walled(saved[n] + 1)
    BY <1>5, PanicRemembers
  <2>4. \A h \in walls' : h \in 1..Len(chain) /\ Walled(h)
    BY <1>5, <2>2, <2>3 DEF HandlePanic, MInv, WallsAreWalls
  <2>5. WallsAreWalls'
    BY <1>5, <2>4, ChainStays DEF HandlePanic, WallsAreWalls
  <2> QED BY <2>1, <2>5 DEF MInv
<1>6. ASSUME NEW n \in Nodes, Save(n) PROVE MInv'
  <2>1. /\ saved[n] \in Nat /\ Len(chain) \in Nat /\ saved[n] < Len(chain)
        /\ saved'[n] = saved[n] + 1 /\ step'[n] = 0
    BY <1>0, <1>6 DEF Save, Busy, TypeOK
  <2>2. saved'[n] \in Nat /\ saved[n] <= saved'[n] /\ saved'[n] <= Len(chain)
    BY <2>1
  <2>3. Bounded(n)' /\ (~lost'[n] => Remembers(n)')
    BY <1>6, <2>1, <2>2, EngineRemembers DEF Save
  <2>4. \A m \in Nodes : Bounded(m)' /\ (~lost'[m] => Remembers(m)')
    BY <1>0, <1>2, <1>6, <2>3 DEF Save, TypeOK
  <2> QED BY <1>1, <1>6, <2>4 DEF Save
<1>7. ASSUME NEW n \in Nodes, EngineStops(n) PROVE MInv'
  <2>1. /\ saved'[n] \in Nat /\ saved'[n] = saved[n] /\ saved[n] <= saved'[n]
        /\ saved'[n] <= Len(chain) /\ ~up'[n]
    <3>1. replica[n] \in Replica /\ saved[n] \in Nat /\ Len(chain) \in Nat /\ InStep(n)
      BY <1>0 DEF IInv, TypeOK
    <3>2. replica[n].height \in Nat
      BY <3>1 DEF Replica
    <3>3. saved[n] <= Len(chain)
      BY <3>1, <3>2 DEF InStep
    <3> QED BY <1>0, <1>7, <3>1, <3>3 DEF EngineStops, TypeOK
  <2>2. Bounded(n)' /\ (~lost'[n] => Remembers(n)')
    BY <1>7, <2>1, EngineRemembers DEF EngineStops
  <2>3. \A m \in Nodes : Bounded(m)' /\ (~lost'[m] => Remembers(m)')
    BY <1>0, <1>2, <1>7, <2>2 DEF EngineStops, TypeOK
  <2> QED BY <1>1, <1>7, <2>3 DEF EngineStops
<1>8. ASSUME NEW n \in Nodes, AppCrashes(n) PROVE MInv'
  <2>1. \A m \in Nodes : Bounded(m)' /\ (~lost'[m] => Remembers(m)')
    BY <1>0, <1>2, <1>8, CrashRemembers DEF AppCrashes, TypeOK
  <2> QED BY <1>1, <1>8, <2>1 DEF AppCrashes
<1>9. ASSUME NEW n \in Nodes, Connect(n) PROVE MInv'
  <2>1. /\ saved[n] \in Nat /\ Len(chain) \in Nat /\ replica[n].height \in Nat
        /\ replica[n].height \in {saved[n], saved[n] + 1}
        /\ replica[n].height <= Len(chain)
        /\ saved'[n] = replica[n].height /\ step'[n] = 0
    BY <1>0, <1>9 DEF Connect, InfoHeight, IInv, InStep, TypeOK, Replica
  <2>2. saved'[n] \in Nat /\ saved[n] <= saved'[n] /\ saved'[n] <= Len(chain)
    BY <2>1
  <2>3. Bounded(n)' /\ (~lost'[n] => Remembers(n)')
    BY <1>9, <2>1, <2>2, EngineRemembers DEF Connect
  <2>4. \A m \in Nodes : Bounded(m)' /\ (~lost'[m] => Remembers(m)')
    BY <1>0, <1>2, <1>9, <2>3 DEF Connect, TypeOK
  <2> QED BY <1>1, <1>9, <2>4 DEF Connect
<1>10. CASE UNCHANGED vars
  <2>1. \A m \in Nodes : Bounded(m)' /\ (~lost'[m] => Remembers(m)')
    BY <1>10, OthersRemember DEF vars
  <2> QED BY <1>1, <1>10, <2>1 DEF vars
<1> QED BY <1>3, <1>4, <1>5, <1>6, <1>7, <1>8, <1>9, <1>10 DEF Next

LEMMA InitRemembers == Init => MInv
<1> SUFFICES ASSUME Init PROVE MInv
  OBVIOUS
<1>1. ASSUME NEW n \in Nodes PROVE Bounded(n) /\ Remembers(n)
  <2>1. /\ Held(replica[n].app) = {} /\ ~replica[n].app.poisoned
        /\ replica[n].height = 0 /\ Len(chain) = 0 /\ saved[n] = 0
    BY DEF Init, NewReplica, NewApp, Held
  <2>2. Kept(n)
    BY <2>1 DEF Kept, StoredUpTo
  <2>3. Passed(n) /\ Underway(n) /\ NotBehind(n)
    BY <2>1 DEF Passed, Underway, Busy, NotBehind
  <2> QED BY <2>1, <2>2, <2>3 DEF Bounded, Remembers
<1>2. WallsAreWalls
  BY DEF Init, WallsAreWalls
<1> QED BY <1>1, <1>2, InitInStep DEF MInv

(* The invariant of the memory holds of every reachable state.              *)
THEOREM MemoryInductive == Spec => []MInv
<1>1. IInv /\ TypeOK' /\ [Next]_vars => IInv'
  BY NextInStep
<1>2. MInv /\ TypeOK' /\ IInv' /\ [Next]_vars => MInv'
  BY NextRemembers
<1>3. MInv => IInv
  BY DEF MInv
<1> QED BY InitRemembers, <1>1, <1>2, <1>3, TypeCorrect, PTL DEF Spec

(***************************************************************************)
(* Executing a block again, on a poisoned lock or not, does a memory that  *)
(* was never lost no harm: it stores what its finished blocks accepted,    *)
(* and no memory ever stores what no block up to its own accepted.         *)
(***************************************************************************)
THEOREM MemoryFollowsChain == Spec => []MemoryIsTheChain
<1>1. MInv => MemoryIsTheChain
  <2> SUFFICES ASSUME MInv, NEW n \in Nodes
               PROVE  /\ ~lost[n] => StoredUpTo(saved[n]) \subseteq Held(replica[n].app)
                      /\ Bounded(n)
    BY DEF MemoryIsTheChain, Held, Bounded
  <2>1. ASSUME ~lost[n] PROVE StoredUpTo(saved[n]) \subseteq Held(replica[n].app)
    <3>1. /\ saved[n] \in Nat /\ replica[n].height \in Nat
          /\ replica[n].height \in {saved[n], saved[n] + 1}
      BY DEF MInv, IInv, InStep, TypeOK, Replica
    <3>2. StoredUpTo(saved[n]) \subseteq StoredUpTo(replica[n].height)
      BY <3>1, StoredGrows
    <3> QED BY <2>1, <3>2 DEF MInv, Remembers, Kept
  <2> QED BY <2>1 DEF MInv
<1> QED BY <1>1, MemoryInductive, PTL

(***************************************************************************)
(* Nobody with all its memory gets past a block at which one with all its  *)
(* memory panicked, however often it is executed again.                    *)
(***************************************************************************)
THEOREM NobodyPasses == Spec => []NobodyPassesAWall
<1>1. MInv => NobodyPassesAWall
  <2> SUFFICES ASSUME MInv, NEW n \in Nodes, ~lost[n], NEW h \in walls
               PROVE  saved[n] < h
    BY DEF NobodyPassesAWall
  <2>1. /\ saved[n] \in Nat /\ replica[n].height \in Nat
        /\ replica[n].height \in {saved[n], saved[n] + 1}
    BY DEF MInv, IInv, InStep, TypeOK, Replica
  <2>2. h \in 1..Len(chain) /\ Walled(h)
    BY DEF MInv, WallsAreWalls
  <2>3. h \notin 1..replica[n].height
    BY <2>2 DEF MInv, Remembers, Passed
  <2> QED BY <2>1, <2>2, <2>3
<1> QED BY <1>1, MemoryInductive, PTL
=============================================================================
