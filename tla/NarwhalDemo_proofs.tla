------------------------- MODULE NarwhalDemo_proofs -------------------------
(***************************************************************************)
(* Proofs about the Narwhal demo, for any primaries, transactions, number  *)
(* of requests and of blocks.                                              *)
(*                                                                         *)
(* The counter of an application is right at the end of a block because at *)
(* every place in it, it is the number of transactions before that place   *)
(* (Counting).  Nobody gets past a block that has stopped somebody because *)
(* no application has passed a transaction that panics (Passed), and who   *)
(* stopped has one in its block (Stopped).                                 *)
(***************************************************************************)
EXTENDS NarwhalDemo, TLAPS

InBlock(n) ==
  /\ done[n] <= output[n] /\ output[n] <= Len(blocks)
  /\ next[n] > 0 => done[n] < output[n] /\ next[n] <= Len(Block(n)) + 1

Counting(n) == next[n] > 0 => app[n] = next[n] - 1

Passed(n) ==
  /\ \A k \in 1..done[n] : ~Poisoned(blocks[k])
  /\ next[n] > 0 => \A i \in 1..next[n] - 1 : ~DeliverPanics(Block(n)[i])

Stopped(n) ==
  ~running[n] => done[n] < output[n] /\ Poisoned(Block(n))

IInv == TypeOK /\ \A n \in Nodes : Counting(n) /\ Passed(n) /\ Stopped(n)

-----------------------------------------------------------------------------
LEMMA Unfolded ==
  ASSUME TypeOK, NEW n \in Nodes
  PROVE  /\ InBlock(n)
         /\ done[n] \in Nat /\ output[n] \in Nat /\ next[n] \in Nat /\ app[n] \in Nat
         /\ Len(blocks) \in Nat
BY DEF TypeOK, InBlock

(* The block in hand of an engine that has output to work on.               *)
LEMMA BlockType ==
  ASSUME TypeOK, NEW n \in Nodes, done[n] < output[n]
  PROVE  /\ done[n] + 1 \in 1..Len(blocks) /\ Block(n) \in Seq(Inputs)
         /\ Len(Block(n)) \in Nat /\ DOMAIN Block(n) = 1..Len(Block(n))
<1>1. done[n] + 1 \in 1..Len(blocks)
  BY Unfolded DEF InBlock
<1>2. Block(n) \in Seq(Inputs)
  BY <1>1 DEF Block, TypeOK
<1> QED BY <1>1, <1>2

(* Requests and what the consensus does leave every engine where it is.     *)
LEMMA OutsideIInv ==
  ASSUME IInv, UNCHANGED engine,
         sends' \in 0..MaxSends,
         worker' \in [Nodes -> Seq(Inputs)],
         blocks' \in Seq(Seq(Inputs)), Len(blocks') <= MaxBlocks,
         Len(blocks) <= Len(blocks'),
         \A k \in 1..Len(blocks) : blocks'[k] = blocks[k],
         output' \in [Nodes -> Nat],
         \A n \in Nodes : output[n] <= output'[n] /\ output'[n] <= Len(blocks')
  PROVE  IInv'
<1>1. ASSUME NEW n \in Nodes
      PROVE  /\ done'[n] <= output'[n] /\ output'[n] <= Len(blocks')
             /\ next'[n] > 0 => done'[n] < output'[n] /\ next'[n] <= Len(Block(n)') + 1
             /\ Counting(n)' /\ Passed(n)' /\ Stopped(n)'
  <2>1. /\ InBlock(n) /\ Counting(n) /\ Passed(n) /\ Stopped(n)
        /\ done[n] \in Nat /\ output[n] \in Nat /\ next[n] \in Nat /\ Len(blocks) \in Nat
        /\ output'[n] \in Nat /\ output[n] <= output'[n]
        /\ done'[n] = done[n] /\ next'[n] = next[n] /\ app'[n] = app[n]
        /\ running'[n] = running[n]
    BY Unfolded DEF IInv, engine
  <2>2. done[n] <= output'[n] /\ (done[n] < output[n] => done[n] < output'[n])
    BY <2>1 DEF InBlock
  <2>3. done[n] < output[n] => Block(n)' = Block(n)
    <3>1. done[n] < output[n] => done[n] + 1 \in 1..Len(blocks)
      BY BlockType DEF IInv
    <3> QED BY <2>1, <3>1 DEF Block
  <2>4. \A k \in 1..done[n] : blocks'[k] = blocks[k]
    <3>1. \A k \in 1..done[n] : k \in 1..Len(blocks)
      BY <2>1 DEF InBlock
    <3> QED BY <3>1
  <2>5. Passed(n)'
    BY <2>1, <2>3, <2>4 DEF Passed, Poisoned, InBlock
  <2>6. Stopped(n)'
    BY <2>1, <2>2, <2>3 DEF Stopped, Poisoned
  <2> QED BY <2>1, <2>2, <2>3, <2>5, <2>6 DEF InBlock, Counting
<1>2. TypeOK'
  BY <1>1 DEF IInv, TypeOK, engine
<1> QED BY <1>1, <1>2 DEF IInv

(* The step of an engine changes the place of that engine only.             *)
LEMMA EngineIInv ==
  ASSUME IInv, NEW m \in Nodes,
         UNCHANGED <<sends, worker, blocks, output>>,
         NEW d \in Nat, NEW p \in Nat, NEW a \in Nat, NEW r \in BOOLEAN,
         done' = [done EXCEPT ![m] = d], next' = [next EXCEPT ![m] = p],
         app' = [app EXCEPT ![m] = a], running' = [running EXCEPT ![m] = r],
         InBlock(m)', Counting(m)', Passed(m)', Stopped(m)'
  PROVE  IInv'
<1>1. /\ done' \in [Nodes -> Nat] /\ next' \in [Nodes -> Nat]
      /\ app' \in [Nodes -> Nat] /\ running' \in [Nodes -> BOOLEAN]
  <2>1. done' \in [Nodes -> Nat] /\ next' \in [Nodes -> Nat] /\ app' \in [Nodes -> Nat]
    BY DEF IInv, TypeOK
  <2>2. running' \in [Nodes -> BOOLEAN]
    BY DEF IInv, TypeOK
  <2> QED BY <2>1, <2>2
<1>2. ASSUME NEW n \in Nodes
      PROVE  InBlock(n)' /\ Counting(n)' /\ Passed(n)' /\ Stopped(n)'
  <2>1. CASE n = m
    BY <2>1
  <2>2. CASE n # m
    <3>1. /\ done'[n] = done[n] /\ next'[n] = next[n] /\ app'[n] = app[n]
          /\ running'[n] = running[n]
      BY <2>2 DEF IInv, TypeOK
    <3>2. InBlock(n) /\ Counting(n) /\ Passed(n) /\ Stopped(n)
      BY Unfolded DEF IInv
    <3> QED BY <3>1, <3>2 DEF InBlock, Counting, Passed, Stopped, Block
  <2> QED BY <2>1, <2>2
<1>3. TypeOK'
  BY <1>1, <1>2 DEF IInv, TypeOK, InBlock
<1> QED BY <1>2, <1>3 DEF IInv

LEMMA RunIInv == ASSUME IInv, NEW m \in Nodes, Run(m) PROVE IInv'
<1> DEFINE b == Block(m)
<1>1. /\ TypeOK /\ InBlock(m) /\ Counting(m) /\ Passed(m) /\ Stopped(m)
      /\ done[m] \in Nat /\ output[m] \in Nat /\ next[m] \in Nat /\ app[m] \in Nat
      /\ Len(blocks) \in Nat
  BY Unfolded DEF IInv
<1>2. running[m] /\ done[m] < output[m]
  BY DEF Run, CallBegin, CallDeliver, DeliverFails, CallCommit, Ready
<1>3. Len(b) \in Nat /\ DOMAIN b = 1..Len(b) /\ done[m] + 1 \in 1..Len(blocks)
  BY <1>1, <1>2, BlockType
<1>4. CASE CallBegin(m)
  <2>1. /\ done' = [done EXCEPT ![m] = done[m]] /\ next' = [next EXCEPT ![m] = 1]
        /\ app' = [app EXCEPT ![m] = 0] /\ running' = [running EXCEPT ![m] = running[m]]
        /\ UNCHANGED <<sends, worker, blocks, output, done, running>>
    BY <1>4 DEF CallBegin, BeginBlock, IInv, TypeOK
  <2>2. next'[m] = 1 /\ app'[m] = 0 /\ b' = b
    BY <2>1 DEF IInv, TypeOK, Block
  <2>3. InBlock(m)' /\ Counting(m)'
    BY <1>1, <1>2, <1>3, <2>1, <2>2 DEF InBlock, Counting
  <2>4. Passed(m)' /\ Stopped(m)'
    BY <1>1, <2>1, <2>2 DEF Passed, Stopped, Poisoned
  <2>5. running[m] \in BOOLEAN
    BY DEF IInv, TypeOK
  <2> QED BY <1>1, <2>1, <2>3, <2>4, <2>5, EngineIInv
<1>5. CASE CallDeliver(m)
  <2>1. /\ next[m] \in 1..Len(b) /\ ~DeliverPanics(b[next[m]])
        /\ done' = [done EXCEPT ![m] = done[m]] /\ next' = [next EXCEPT ![m] = next[m] + 1]
        /\ app' = [app EXCEPT ![m] = app[m] + 1]
        /\ running' = [running EXCEPT ![m] = running[m]]
        /\ UNCHANGED <<sends, worker, blocks, output, done, running>>
    BY <1>3, <1>5 DEF CallDeliver, DeliverTx, Upcoming, IInv, TypeOK
  <2>2. next'[m] = next[m] + 1 /\ app'[m] = app[m] + 1 /\ b' = b
    BY <2>1 DEF IInv, TypeOK, Block
  <2>3. InBlock(m)' /\ Counting(m)'
    BY <1>1, <1>2, <1>3, <2>1, <2>2 DEF InBlock, Counting
  <2>4. \A i \in 1..next'[m] - 1 : ~DeliverPanics(b[i])
    <3>1. \A i \in 1..next'[m] - 1 : i \in 1..next[m] - 1 \/ i = next[m]
      BY <1>1, <2>2
    <3> QED BY <1>1, <2>1, <3>1 DEF Passed
  <2>5. Passed(m)' /\ Stopped(m)'
    BY <1>1, <1>2, <2>1, <2>2, <2>4 DEF Passed, Stopped, Poisoned
  <2>6. running[m] \in BOOLEAN
    BY DEF IInv, TypeOK
  <2>7. next[m] + 1 \in Nat /\ app[m] + 1 \in Nat
    BY <1>1
  <2> QED BY <1>1, <2>1, <2>3, <2>5, <2>6, <2>7, EngineIInv
<1>6. CASE DeliverFails(m)
  <2>1. /\ next[m] \in 1..Len(b) /\ DeliverPanics(b[next[m]])
        /\ done' = [done EXCEPT ![m] = done[m]] /\ next' = [next EXCEPT ![m] = next[m]]
        /\ app' = [app EXCEPT ![m] = app[m]]
        /\ running' = [running EXCEPT ![m] = FALSE]
        /\ UNCHANGED <<sends, worker, blocks, output, done, next, app>>
    BY <1>3, <1>6 DEF DeliverFails, Upcoming, IInv, TypeOK
  <2>2. b' = b /\ Poisoned(b)
    BY <1>3, <2>1 DEF Block, Poisoned
  <2>3. InBlock(m)' /\ Counting(m)' /\ Passed(m)'
    BY <1>1, <2>1, <2>2 DEF InBlock, Counting, Passed
  <2>4. Stopped(m)'
    BY <1>2, <2>1, <2>2 DEF Stopped, Poisoned
  <2> QED BY <1>1, <2>1, <2>3, <2>4, EngineIInv
<1>7. CASE CallCommit(m)
  <2>1. /\ next[m] = Len(b) + 1
        /\ done' = [done EXCEPT ![m] = done[m] + 1] /\ next' = [next EXCEPT ![m] = 0]
        /\ app' = [app EXCEPT ![m] = app[m]]
        /\ running' = [running EXCEPT ![m] = running[m]]
        /\ UNCHANGED <<sends, worker, blocks, output, app, running>>
    BY <1>7 DEF CallCommit, IInv, TypeOK
  <2>2. done'[m] = done[m] + 1 /\ next'[m] = 0
    BY <2>1 DEF IInv, TypeOK
  <2>3. InBlock(m)' /\ Counting(m)'
    BY <1>1, <1>2, <2>1, <2>2 DEF InBlock, Counting
  <2>4. ~Poisoned(blocks[done[m] + 1])
    <3>1. \A i \in 1..Len(b) : ~DeliverPanics(b[i])
      BY <1>1, <1>3, <2>1 DEF Passed
    <3> QED BY <1>3, <3>1 DEF Poisoned, Block
  <2>5. \A k \in 1..done[m] + 1 : ~Poisoned(blocks[k])
    <3>1. \A k \in 1..done[m] + 1 : k \in 1..done[m] \/ k = done[m] + 1
      BY <1>1
    <3> QED BY <1>1, <2>4, <3>1 DEF Passed
  <2>6. Passed(m)' /\ Stopped(m)'
    BY <1>2, <2>1, <2>2, <2>5 DEF Passed, Stopped, Poisoned
  <2>7. running[m] \in BOOLEAN
    BY DEF IInv, TypeOK
  <2>8. done[m] + 1 \in Nat /\ 0 \in Nat
    BY <1>1
  <2> QED BY <1>1, <2>1, <2>3, <2>6, <2>7, <2>8, EngineIInv
<1> QED BY <1>4, <1>5, <1>6, <1>7 DEF Run

LEMMA NextIInv == ASSUME IInv, [Next]_vars PROVE IInv'
<1>1. /\ sends \in 0..MaxSends /\ worker \in [Nodes -> Seq(Inputs)]
      /\ blocks \in Seq(Seq(Inputs)) /\ Len(blocks) <= MaxBlocks /\ Len(blocks) \in Nat
      /\ output \in [Nodes -> Nat]
      /\ \A n \in Nodes : output[n] <= output[n] /\ output[n] <= Len(blocks)
  BY Unfolded, DemoAssumption DEF IInv, TypeOK, InBlock
<1>2. CASE UNCHANGED vars
  BY <1>1, <1>2, OutsideIInv DEF vars, engine
<1>3. ASSUME NEW n \in Nodes, NEW raw \in Inputs, Broadcast(n, raw) PROVE IInv'
  <2>1. sends' \in 0..MaxSends
    BY <1>1, <1>3, DemoAssumption DEF Broadcast, Request
  <2>2. worker' \in [Nodes -> Seq(Inputs)]
    <3>1. Append(worker[n], raw) \in Seq(Inputs)
      BY <1>1
    <3> QED BY <1>1, <1>3, <3>1 DEF Broadcast
  <2> QED BY <1>1, <1>3, <2>1, <2>2, OutsideIInv DEF Broadcast
<1>4. ASSUME NEW n \in Nodes, BroadcastFails(n) PROVE IInv'
  <2>1. sends' \in 0..MaxSends
    BY <1>1, <1>4, DemoAssumption DEF BroadcastFails, Request
  <2> QED BY <1>1, <1>4, <2>1, OutsideIInv DEF BroadcastFails
<1>5. ASSUME NEW n \in Nodes, Order(n) PROVE IInv'
  <2>1. /\ blocks' = Append(blocks, worker[n]) /\ worker[n] \in Seq(Inputs)
        /\ Len(blocks) < MaxBlocks /\ UNCHANGED <<sends, output, engine>>
    BY <1>1, <1>5 DEF Order
  <2>2. /\ blocks' \in Seq(Seq(Inputs)) /\ Len(blocks') = Len(blocks) + 1
        /\ \A k \in 1..Len(blocks) : blocks'[k] = blocks[k]
    BY <1>1, <2>1
  <2>3. Len(blocks') <= MaxBlocks /\ Len(blocks) <= Len(blocks')
    BY <1>1, <2>1, <2>2, DemoAssumption
  <2>4. worker' \in [Nodes -> Seq(Inputs)]
    BY <1>1, <1>5 DEF Order
  <2>5. \A m \in Nodes : output[m] <= output'[m] /\ output'[m] <= Len(blocks')
    BY <1>1, <2>1, <2>2
  <2> QED BY <1>1, <2>1, <2>2, <2>3, <2>4, <2>5, OutsideIInv
<1>6. ASSUME NEW n \in Nodes, Output(n) PROVE IInv'
  <2>1. /\ output' = [output EXCEPT ![n] = output[n] + 1] /\ output[n] < Len(blocks)
        /\ UNCHANGED <<sends, worker, blocks, engine>>
    BY <1>6 DEF Output
  <2>2. /\ output' \in [Nodes -> Nat]
        /\ \A m \in Nodes : output[m] <= output'[m] /\ output'[m] <= Len(blocks')
    BY <1>1, <2>1
  <2> QED BY <1>1, <2>1, <2>2, OutsideIInv
<1> QED BY <1>2, <1>3, <1>4, <1>5, <1>6, RunIInv DEF Next

(* The place, the counter and the wall of every engine, in every state.     *)
THEOREM Inductive == Spec => []IInv
<1>1. Init => IInv
  <2> SUFFICES ASSUME Init PROVE IInv
    OBVIOUS
  <2>1. TypeOK
    <3>1. Len(blocks) = 0 /\ blocks \in Seq(Seq(Inputs)) /\ << >> \in Seq(Inputs)
      BY DEF Init
    <3> QED BY <3>1, DemoAssumption DEF Init, TypeOK, NewApp
  <2>2. \A n \in Nodes : Counting(n) /\ Passed(n) /\ Stopped(n)
    BY DEF Init, Counting, Passed, Stopped
  <2> QED BY <2>1, <2>2 DEF IInv
<1> QED BY <1>1, NextIInv, PTL DEF Spec

(***************************************************************************)
(* Every variable keeps its type, and every engine its place: it takes     *)
(* what its consensus has put out, and no more calls than its block has.   *)
(***************************************************************************)
THEOREM TypeCorrect == Spec => []TypeOK
<1>1. IInv => TypeOK
  BY DEF IInv
<1> QED BY Inductive, <1>1, PTL

(***************************************************************************)
(* An application logs the number of transactions of the block at hand.    *)
(***************************************************************************)
THEOREM LogIsOfItsBlock == Spec => []LogsItsBlock
<1>1. IInv => LogsItsBlock
  <2> SUFFICES ASSUME IInv, NEW n \in Nodes, next[n] > 0, next[n] = Len(Block(n)) + 1
               PROVE  app[n] = Len(Block(n))
    BY DEF LogsItsBlock, Logged
  <2>1. done[n] < output[n] /\ next[n] \in Nat /\ app[n] = next[n] - 1
    BY Unfolded DEF IInv, InBlock, Counting
  <2>2. Len(Block(n)) \in Nat
    BY <2>1, BlockType DEF IInv
  <2> QED BY <2>1, <2>2
<1> QED BY Inductive, <1>1, PTL

(***************************************************************************)
(* A block that stops one node is a wall for all: no primary commits it,   *)
(* nor any block after it, and whoever else stops does so at it.  (That    *)
(* who sees it stops is PanicStopsWhoSeesIt, which needs fairness.)        *)
(***************************************************************************)
THEOREM NobodyGetsPast ==
  Spec => [](\A m, n \in Nodes : ~running[m] => done[n] <= done[m])
<1>1. IInv => \A m, n \in Nodes : ~running[m] => done[n] <= done[m]
  <2> SUFFICES ASSUME IInv, NEW m \in Nodes, NEW n \in Nodes, ~running[m]
               PROVE  done[n] <= done[m]
    OBVIOUS
  <2>1. done[m] \in Nat /\ done[n] \in Nat /\ Poisoned(blocks[done[m] + 1])
    BY Unfolded DEF IInv, Stopped, Block
  <2>2. ~(done[m] + 1 \in 1..done[n])
    BY <2>1 DEF IInv, Passed
  <2> QED BY <2>1, <2>2
<1> QED BY Inductive, <1>1, PTL
=============================================================================
