-------------------------- MODULE Sequencer_proofs --------------------------
(***************************************************************************)
(* Proofs about the sequencer, for any nodes, inputs and bounds.           *)
(*                                                                         *)
(* Agreement between replicas rests on the history variable: a replica     *)
(* that has answered k requests holds executed[k+1], and every entry of    *)
(* executed is what the previous one becomes under its request (IInv).     *)
(***************************************************************************)
EXTENDS Sequencer, BlockExecution_proofs

(***************************************************************************)
(* Every variable keeps its type: in particular a replica's memory stays a *)
(* memory whatever transactions, failed and corrupted ones included, its   *)
(* engine delivers.                                                        *)
(***************************************************************************)
THEOREM TypeCorrect == Spec => []TypeOK
<1>1. Init => TypeOK
  <2> SUFFICES ASSUME Init PROVE TypeOK
    OBVIOUS
  <2>1. NewReplica \in Replica
    BY DEF NewReplica, Replica, NewApp, App
  <2> QED BY <2>1 DEF Init, TypeOK
<1>2. TypeOK /\ [Next]_vars => TypeOK'
  <2> SUFFICES ASSUME TypeOK, [Next]_vars PROVE TypeOK'
    OBVIOUS
  <2> USE DEF TypeOK
  <2>1. ASSUME NEW n \in Nodes, NEW raw \in Inputs, CheckTxOk(n, raw) PROVE TypeOK'
    <3>1. mempool' \in Seq(Inputs)
      BY <2>1 DEF CheckTxOk
    <3> QED BY <2>1, <3>1 DEF CheckTxOk
  <2>2. ASSUME NEW n \in Nodes, NEW raw \in Inputs, CheckTxPanic(n, raw) PROVE TypeOK'
    BY <2>2 DEF CheckTxPanic
  <2>3. ASSUME NEW n \in Nodes, Decide(n) PROVE TypeOK'
    <3> DEFINE txs == PrepareProposal(mempool)
    <3>1. mempool' \in Seq(Inputs)
      BY <2>3, ProposalType DEF Decide
    <3>2. Block(txs) \in Seq(Requests)
      BY ProposalType, BlockType
    <3>3. reqs' \in Seq(Requests)
      BY <2>3, <3>2 DEF Decide
    <3> QED BY <2>3, <3>1, <3>3 DEF Decide
  <2>4. ASSUME NEW n \in Nodes, Ready(n)
        PROVE  After(replica[n], Upcoming(n)) \in Replica
    <3>1. Upcoming(n) \in Requests
      BY <2>4 DEF Ready, Upcoming
    <3> QED BY <3>1, AfterType
  <2>5. ASSUME NEW n \in Nodes, Handle(n) PROVE TypeOK'
    <3> DEFINE r == After(replica[n], Upcoming(n))
    <3>1. r \in Replica
      BY <2>4, <2>5 DEF Handle
    <3>2. replica' \in [Nodes -> Replica] /\ pos' \in [Nodes -> Nat]
      BY <2>5, <3>1 DEF Handle
    <3>3. executed' \in Seq(Replica)
      BY <2>5, <3>1 DEF Handle
    <3> QED BY <2>5, <3>2, <3>3 DEF Handle
  <2>6. ASSUME NEW n \in Nodes, HandlePanic(n) PROVE TypeOK'
    <3>1. replica' \in [Nodes -> Replica]
      BY <2>4, <2>6 DEF HandlePanic
    <3> QED BY <2>6, <3>1 DEF HandlePanic
  <2>7. CASE UNCHANGED vars
    BY <2>7 DEF vars
  <2> QED BY <2>1, <2>2, <2>3, <2>5, <2>6, <2>7 DEF Next
<1> QED BY <1>1, <1>2, PTL DEF Spec

(***************************************************************************)
(* In every reachable state the hasher of every replica covers exactly the *)
(* classes and contracts it stores, up to a panic under the state lock.    *)
(* With types, the property is inductive as it stands.                     *)
(***************************************************************************)
THEOREM HasherCoversState == Spec => []HashCoversState
<1>1. Init => HashCoversState
  BY DEF Init, HashCoversState, Covers, Fed, NewReplica, NewApp
<1>2. TypeOK /\ HashCoversState /\ [Next]_vars => HashCoversState'
  <2> SUFFICES ASSUME TypeOK, HashCoversState, [Next]_vars
               PROVE  HashCoversState'
    OBVIOUS
  <2>1. ASSUME NEW n \in Nodes, Ready(n),
               replica' = [replica EXCEPT ![n] = After(replica[n], Upcoming(n))]
        PROVE  HashCoversState'
    <3>1. Upcoming(n) \in Requests /\ replica[n] \in Replica
      BY <2>1 DEF Ready, Upcoming, TypeOK
    <3>2. Covers(After(replica[n], Upcoming(n)).app)
      BY <3>1, AfterCovers DEF HashCoversState
    <3>3. \A m \in Nodes : Covers(replica'[m].app)
      BY <2>1, <3>2 DEF HashCoversState, TypeOK
    <3> QED BY <3>3 DEF HashCoversState
  <2>2. ASSUME UNCHANGED replica PROVE HashCoversState'
    BY <2>2 DEF HashCoversState
  <2>3. ASSUME NEW n \in Nodes, Handle(n) PROVE HashCoversState'
    BY <2>1, <2>3 DEF Handle
  <2>4. ASSUME NEW n \in Nodes, HandlePanic(n) PROVE HashCoversState'
    BY <2>1, <2>4 DEF HandlePanic
  <2>5. ASSUME NEW n \in Nodes, NEW raw \in Inputs,
               CheckTxOk(n, raw) \/ CheckTxPanic(n, raw)
        PROVE  HashCoversState'
    BY <2>2, <2>5 DEF CheckTxOk, CheckTxPanic
  <2>6. ASSUME NEW n \in Nodes, Decide(n) PROVE HashCoversState'
    BY <2>2, <2>6 DEF Decide
  <2>7. CASE UNCHANGED vars
    BY <2>2, <2>7 DEF vars
  <2> QED BY <2>3, <2>4, <2>5, <2>6, <2>7 DEF Next
<1> QED BY <1>1, <1>2, TypeCorrect, PTL DEF Spec

-----------------------------------------------------------------------------
(***************************************************************************)
(* Agreement.  The inductive invariant says where each replica stands on   *)
(* the one line of executed replicas, and that the line follows reqs.      *)
(***************************************************************************)
Linked ==
  \A k \in 1..Len(executed)-1 :
    /\ k <= Len(reqs)
    /\ executed[k+1] = After(executed[k], reqs[k])
    /\ Answer(executed[k], reqs[k]) # "panic"

Placed(n) ==
  /\ pos[n] < Len(executed)
  /\ pos[n] <= Len(reqs)
  /\ ~Panicked(n) => replica[n] = executed[pos[n]+1]
  /\ Panicked(n) => /\ pos[n] < Len(reqs)
                    /\ Answer(executed[pos[n]+1], reqs[pos[n]+1]) = "panic"
                    /\ replica[n] = After(executed[pos[n]+1], reqs[pos[n]+1])

Continues(r1, r2) ==
  /\ Len(r1.hashes) <= Len(r2.hashes)
  /\ \A h \in 1..Len(r1.hashes) : r2.hashes[h] = r1.hashes[h]

Growing ==
  \A j, k \in 1..Len(executed) : j <= k => Continues(executed[j], executed[k])

IInv ==
  /\ TypeOK
  /\ Len(executed) >= 1
  /\ Linked
  /\ \A n \in Nodes : Placed(n)
  /\ Growing

LEMMA AfterContinues ==
  ASSUME NEW r \in Replica, NEW q \in Requests
  PROVE  Continues(r, After(r, q))
<1>1. r.hashes \in Seq(Hash)
  BY DEF Replica
<1>2. CASE q = Commit
  BY <1>1, <1>2, AfterHashes DEF Continues
<1>3. CASE q # Commit
  BY <1>1, <1>3, AfterHashes DEF Continues
<1> QED BY <1>2, <1>3

LEMMA ContinuesTransitive ==
  ASSUME NEW a \in Replica, NEW b \in Replica, NEW c \in Replica,
         Continues(a, b), Continues(b, c)
  PROVE  Continues(a, c)
<1>1. Len(a.hashes) \in Nat /\ Len(b.hashes) \in Nat /\ Len(c.hashes) \in Nat
  BY DEF Replica
<1> QED BY <1>1 DEF Continues

(***************************************************************************)
(* One lemma per kind of step.                                             *)
(***************************************************************************)
LEMMA InitIInv == Init => IInv
<1> SUFFICES ASSUME Init PROVE IInv
  OBVIOUS
<1>1. TypeOK
  <2>1. NewReplica \in Replica
    BY DEF NewReplica, Replica, NewApp, App
  <2> QED BY <2>1 DEF Init, TypeOK
<1>2. Len(executed) = 1 /\ executed[1] = NewReplica
  BY DEF Init
<1>3. Linked
  BY <1>2 DEF Linked
<1>4. \A n \in Nodes : Placed(n)
  BY <1>2 DEF Placed, Init, Panicked
<1>5. Growing
  BY <1>2 DEF Growing, Continues, NewReplica
<1> QED BY <1>1, <1>2, <1>3, <1>4, <1>5 DEF IInv

(* Requests are only ever added at the end.                                 *)
LEMMA RequestsAppendIInv ==
  ASSUME IInv, TypeOK', NEW more \in Seq(Requests), reqs' = reqs \o more,
         UNCHANGED <<pos, replica, executed>>,
         \A n \in Nodes : Panicked(n)' = Panicked(n)
  PROVE  IInv'
<1> USE DEF IInv
<1>1. /\ Len(reqs) <= Len(reqs')
      /\ \A k \in 1..Len(reqs) : reqs'[k] = reqs[k]
  BY DEF TypeOK
<1>2. Linked'
  <2>1. Len(reqs) \in Nat /\ Len(reqs') \in Nat /\ Len(executed) \in Nat
    BY DEF TypeOK
  <2> SUFFICES ASSUME NEW k \in 1..Len(executed) - 1
               PROVE  /\ k <= Len(reqs')
                      /\ executed[k + 1] = After(executed[k], reqs'[k])
                      /\ Answer(executed[k], reqs'[k]) # "panic"
    BY DEF Linked
  <2>2. /\ k <= Len(reqs)
        /\ executed[k + 1] = After(executed[k], reqs[k])
        /\ Answer(executed[k], reqs[k]) # "panic"
    BY DEF Linked
  <2>3. k \in 1..Len(reqs) /\ k \in Nat
    BY <2>1, <2>2
  <2>4. reqs'[k] = reqs[k]
    BY <1>1, <2>3
  <2> QED BY <1>1, <2>1, <2>2, <2>3, <2>4
<1>3. \A n \in Nodes : Placed(n)'
  <2> SUFFICES ASSUME NEW n \in Nodes PROVE Placed(n)'
    OBVIOUS
  <2>1. Placed(n) /\ pos[n] \in Nat /\ Len(reqs) \in Nat
    BY DEF TypeOK
  <2>2. pos[n] < Len(reqs) => reqs'[pos[n]+1] = reqs[pos[n]+1]
    BY <1>1, <2>1
  <2>3. Len(reqs') \in Nat /\ (pos[n] < Len(reqs) => pos[n] < Len(reqs'))
    BY <1>1, <2>1 DEF TypeOK
  <2>4. pos[n] <= Len(reqs')
    BY <1>1, <2>1, <2>3 DEF Placed
  <2> QED BY <2>1, <2>2, <2>3, <2>4 DEF Placed
<1>4. Growing'
  BY DEF Growing
<1> QED BY <1>2, <1>3, <1>4

LEMMA HandleIInv ==
  ASSUME IInv, TypeOK', NEW n \in Nodes, Handle(n)
  PROVE  IInv'
<1> USE DEF IInv
<1> DEFINE k == pos[n] + 1
           r == After(replica[n], Upcoming(n))
<1>1. /\ k \in 1..Len(reqs) /\ k \in 1..Len(executed)
      /\ Len(executed) \in Nat /\ Len(reqs) \in Nat
      /\ Upcoming(n) = reqs[k] /\ reqs[k] \in Requests
      /\ replica[n] = executed[k] /\ executed[k] \in Replica
      /\ Answer(executed[k], reqs[k]) # "panic"
  BY DEF Handle, Ready, Upcoming, Placed, Panicked, TypeOK
<1>2. r = After(executed[k], reqs[k]) /\ r \in Replica
  BY <1>1, AfterType
<1>3. /\ pos' = [pos EXCEPT ![n] = k] /\ replica' = [replica EXCEPT ![n] = r]
      /\ UNCHANGED <<reqs, down>>
  BY DEF Handle
<1>4. CASE Len(executed) = k
  <2>1. executed' = Append(executed, r)
    BY <1>4 DEF Handle
  <2>2. /\ Len(executed') = k + 1
        /\ executed'[k+1] = r
        /\ \A i \in 1..k : executed'[i] = executed[i]
    BY <1>1, <1>4, <2>1 DEF TypeOK
  <2>3. Linked'
    BY <1>1, <1>2, <1>3, <1>4, <2>2, SMTT(30) DEF Linked
  <2>4. \A m \in Nodes : Placed(m)'
    <3> SUFFICES ASSUME NEW m \in Nodes PROVE Placed(m)'
      OBVIOUS
    <3>1. CASE m = n
      <4>1. pos'[n] = k /\ replica'[n] = r /\ ~Panicked(n)'
        BY <1>3 DEF Handle, Ready, Panicked, TypeOK
      <4> QED BY <1>1, <1>3, <2>2, <3>1, <4>1 DEF Placed
    <3>2. CASE m # n
      <4>1. pos'[m] = pos[m] /\ replica'[m] = replica[m] /\ Panicked(m)' = Panicked(m)
        BY <1>3, <3>2 DEF Panicked, TypeOK
      <4>2. Placed(m) /\ pos[m] \in Nat /\ executed'[pos[m]+1] = executed[pos[m]+1]
        BY <1>1, <1>4, <2>2, SMTT(30) DEF Placed, TypeOK
      <4> QED BY <1>1, <1>3, <1>4, <2>2, <4>1, <4>2, SMTT(30) DEF Placed
    <3> QED BY <3>1, <3>2
  <2>5. Growing'
    <3> SUFFICES ASSUME NEW i \in 1..Len(executed'), NEW j \in 1..Len(executed'), i <= j
                 PROVE  Continues(executed'[i], executed'[j])
      BY DEF Growing, Continues
    <3>1. CASE j <= k
      BY <1>1, <1>4, <2>2, <3>1 DEF Growing
    <3>2. CASE i = k + 1 /\ j = k + 1
      <4>1. Len(r.hashes) \in Nat
        BY <1>2 DEF Replica
      <4> QED BY <2>2, <3>2, <4>1 DEF Continues
    <3>3. CASE i <= k /\ j = k + 1
      <4>1. Continues(executed[i], executed[k]) /\ executed[i] \in Replica
        BY <1>1, <1>4, <3>3 DEF Growing, TypeOK
      <4>2. Continues(executed[k], r)
        BY <1>1, <1>2, AfterContinues
      <4>3. Continues(executed[i], r)
        BY <1>1, <1>2, <4>1, <4>2, ContinuesTransitive
      <4> QED BY <1>1, <2>2, <3>3, <4>3
    <3> QED BY <1>1, <2>2, <3>1, <3>2, <3>3
  <2> QED BY <1>1, <2>2, <2>3, <2>4, <2>5
<1>5. CASE Len(executed) # k
  <2>1. executed' = executed
    BY <1>5 DEF Handle
  <2>2. executed[k+1] = r /\ k + 1 \in 1..Len(executed)
    BY <1>1, <1>2, <1>5 DEF Linked
  <2>3. Linked'
    BY <1>3, <2>1 DEF Linked
  <2>4. \A m \in Nodes : Placed(m)'
    <3> SUFFICES ASSUME NEW m \in Nodes PROVE Placed(m)'
      OBVIOUS
    <3>1. CASE m = n
      <4>1. pos'[n] = k /\ replica'[n] = r /\ ~Panicked(n)'
        BY <1>3 DEF Handle, Ready, Panicked, TypeOK
      <4> QED BY <1>1, <1>3, <2>1, <2>2, <3>1, <4>1 DEF Placed
    <3>2. CASE m # n
      <4>1. pos'[m] = pos[m] /\ replica'[m] = replica[m] /\ Panicked(m)' = Panicked(m)
        BY <1>3, <3>2 DEF Panicked, TypeOK
      <4> QED BY <1>3, <2>1, <4>1 DEF Placed
    <3> QED BY <3>1, <3>2
  <2>5. Growing'
    BY <2>1 DEF Growing
  <2> QED BY <2>1, <2>3, <2>4, <2>5
<1> QED BY <1>4, <1>5

LEMMA HandlePanicIInv ==
  ASSUME IInv, TypeOK', NEW n \in Nodes, HandlePanic(n)
  PROVE  IInv'
<1> USE DEF IInv
<1>1. UNCHANGED <<reqs, pos, executed>>
  BY DEF HandlePanic
<1>2. Linked' /\ Growing'
  BY <1>1 DEF Linked, Growing
<1>3. \A m \in Nodes : Placed(m)'
  <2> SUFFICES ASSUME NEW m \in Nodes PROVE Placed(m)'
    OBVIOUS
  <2>1. CASE m = n
    <3>1. /\ replica[n] = executed[pos[n]+1] /\ pos[n] < Len(reqs)
          /\ Answer(replica[n], reqs[pos[n]+1]) = "panic"
      BY DEF HandlePanic, Ready, Upcoming, Placed, Panicked
    <3>2. Panicked(n)' /\ replica'[n] = After(replica[n], reqs[pos[n]+1])
      BY DEF HandlePanic, Upcoming, Panicked, TypeOK
    <3> QED BY <1>1, <2>1, <3>1, <3>2 DEF Placed
  <2>2. CASE m # n
    <3>1. replica'[m] = replica[m] /\ Panicked(m)' = Panicked(m)
      BY <2>2 DEF HandlePanic, Panicked, TypeOK
    <3> QED BY <1>1, <3>1 DEF Placed
  <2> QED BY <2>1, <2>2
<1> QED BY <1>1, <1>2, <1>3

LEMMA NextIInv ==
  ASSUME IInv, TypeOK', [Next]_vars
  PROVE  IInv'
<1>0. TypeOK
  BY DEF IInv
<1>1. ASSUME UNCHANGED <<reqs, pos, replica, executed>>,
             \A n \in Nodes : Panicked(n)' = Panicked(n)
      PROVE  IInv'
  BY <1>1 DEF IInv, Linked, Placed, Growing
<1>2. ASSUME NEW n \in Nodes, NEW raw \in Inputs, CheckTxOk(n, raw) PROVE IInv'
  BY <1>1, <1>2 DEF CheckTxOk, Panicked
<1>3. ASSUME NEW n \in Nodes, NEW raw \in Inputs, CheckTxPanic(n, raw) PROVE IInv'
  <2>1. \A m \in Nodes : Panicked(m)' = Panicked(m)
    BY <1>0, <1>3 DEF CheckTxPanic, Panicked, TypeOK
  <2> QED BY <1>1, <1>3, <2>1 DEF CheckTxPanic
<1>4. ASSUME NEW n \in Nodes, Decide(n) PROVE IInv'
  <2>1. Block(PrepareProposal(mempool)) \in Seq(Requests)
    BY <1>0, ProposalType, BlockType DEF TypeOK
  <2> QED BY <1>4, <2>1, RequestsAppendIInv DEF Decide, Panicked
<1>5. ASSUME NEW n \in Nodes, Handle(n) PROVE IInv'
  BY <1>5, HandleIInv
<1>6. ASSUME NEW n \in Nodes, HandlePanic(n) PROVE IInv'
  BY <1>6, HandlePanicIInv
<1>7. CASE UNCHANGED vars
  BY <1>1, <1>7 DEF vars, Panicked
<1> QED BY <1>2, <1>3, <1>4, <1>5, <1>6, <1>7 DEF Next

(* The invariant holds of every reachable state.                            *)
THEOREM Inductive == Spec => []IInv
<1>1. IInv /\ TypeOK' /\ [Next]_vars => IInv'
  BY NextIInv
<1> QED BY InitIInv, <1>1, TypeCorrect, PTL DEF Spec

(* A replica has put out the hashes of its place on the line, also after a  *)
(* panic, which puts out none.                                              *)
LEMMA HashesOfPlace ==
  ASSUME IInv, NEW n \in Nodes
  PROVE  /\ pos[n] + 1 \in 1..Len(executed)
         /\ replica[n].hashes = executed[pos[n]+1].hashes
<1>1. /\ pos[n] + 1 \in 1..Len(executed) /\ Placed(n)
      /\ Len(reqs) \in Nat /\ pos[n] \in Nat
  BY DEF IInv, Placed, TypeOK
<1>2. CASE ~Panicked(n)
  BY <1>1, <1>2 DEF Placed
<1>3. CASE Panicked(n)
  <2> DEFINE e == executed[pos[n]+1]
             q == reqs[pos[n]+1]
  <2>1. e \in Replica /\ q \in Requests /\ Answer(e, q) = "panic"
    BY <1>1, <1>3 DEF Placed, IInv, TypeOK
  <2>2. After(e, q).hashes = e.hashes
    BY <2>1, PanicIsDeliver, AfterHashes
  <2> QED BY <1>1, <1>3, <2>2 DEF Placed
<1> QED BY <1>2, <1>3

LEMMA IInvAgreement ==
  ASSUME IInv
  PROVE  StateAgreement /\ AppHashAgreement /\ HaltTogether
<1>1. StateAgreement
  BY DEF IInv, Placed, StateAgreement
<1>2. AppHashAgreement
  <2> SUFFICES ASSUME NEW m \in Nodes, NEW n \in Nodes,
                      NEW h \in 1..Len(replica[m].hashes),
                      h <= Len(replica[n].hashes)
               PROVE  replica[m].hashes[h] = replica[n].hashes[h]
    BY DEF AppHashAgreement
  <2> DEFINE M == pos[m] + 1
             N == pos[n] + 1
  <2>1. /\ M \in 1..Len(executed) /\ replica[m].hashes = executed[M].hashes
        /\ N \in 1..Len(executed) /\ replica[n].hashes = executed[N].hashes
    BY HashesOfPlace
  <2>2. Continues(executed[M], executed[N]) \/ Continues(executed[N], executed[M])
    BY <2>1 DEF IInv, Growing
  <2>3. Len(executed[M].hashes) \in Nat /\ Len(executed[N].hashes) \in Nat
    <3>1. executed[M] \in Replica /\ executed[N] \in Replica
      BY <2>1 DEF IInv, TypeOK
    <3> QED BY <3>1 DEF Replica
  <2> QED BY <2>1, <2>2, <2>3 DEF Continues
<1>3. HaltTogether
  <2> SUFFICES ASSUME NEW m \in Nodes, NEW n \in Nodes, Panicked(m)
               PROVE  pos[n] <= pos[m]
    BY DEF HaltTogether
  <2>1. /\ Placed(m) /\ Placed(n) /\ Linked
        /\ pos[m] \in Nat /\ pos[n] \in Nat /\ Len(executed) \in Nat
    BY DEF IInv, TypeOK
  <2>2. pos[m] + 1 \notin 1..Len(executed)-1
    BY <2>1 DEF Linked, Placed
  <2> QED BY <2>1, <2>2 DEF Placed
<1> QED BY <1>1, <1>2, <1>3

(***************************************************************************)
(* Replicas that have answered the same requests hold the same state.      *)
(***************************************************************************)
THEOREM ReplicasAgree == Spec => []StateAgreement
BY Inductive, IInvAgreement, PTL

(***************************************************************************)
(* No two nodes ever commit different hashes for a height.                 *)
(***************************************************************************)
THEOREM HashesAgree == Spec => []AppHashAgreement
BY Inductive, IInvAgreement, PTL

(***************************************************************************)
(* No replica gets past a request that made another replica panic.         *)
(***************************************************************************)
THEOREM PanicStopsAll == Spec => []HaltTogether
BY Inductive, IInvAgreement, PTL

(***************************************************************************)
(* The sequencer implements the log of application hashes of AppHashLog.   *)
(* A commit adds one hash to one log, and that it does not contradict a    *)
(* log that is ahead is AppHashAgreement of the state after the step.      *)
(***************************************************************************)
THEOREM ImplementsAppHashLog == Spec => NoFork
<1>1. Init => HashLog!Init
  BY DEF Init, HashLog!Init, HashesOut, NewReplica
<1>2. ASSUME IInv, IInv', [Next]_vars PROVE [HashLog!Next]_HashesOut
  <2>0. TypeOK
    BY <1>2 DEF IInv
  <2>1. ASSUME NEW n \in Nodes, Ready(n),
               replica' = [replica EXCEPT ![n] = After(replica[n], Upcoming(n))]
        PROVE  [HashLog!Next]_HashesOut
    <3> DEFINE q == Upcoming(n)
               old == replica[n].hashes
               new == After(replica[n], q).hashes
    <3>1. q \in Requests /\ replica[n] \in Replica /\ old \in Seq(Hash)
      BY <2>0, <2>1 DEF Ready, Upcoming, TypeOK, Replica
    <3>2. HashesOut' = [HashesOut EXCEPT ![n] = new]
      BY <2>0, <2>1 DEF HashesOut, TypeOK
    <3>3. CASE q # Commit
      <4>1. new = HashesOut[n]
        BY <3>1, <3>3, AfterHashes DEF HashesOut
      <4> QED BY <3>2, <4>1 DEF HashesOut
    <3>4. CASE q = Commit
      <4> DEFINE h == CommitHash(replica[n].app)
      <4>1. new = Append(old, h)
        BY <3>1, <3>4, AfterHashes
      <4>2. HashesOut[n] = old /\ HashesOut'[n] = new
        BY <3>2 DEF HashesOut
      <4>3. Len(new) = Len(old) + 1 /\ new[Len(old)+1] = h
        BY <3>1, <4>1
      <4>4. ASSUME NEW m \in Nodes, Len(HashesOut[n]) < Len(HashesOut[m])
            PROVE  HashesOut[m][Len(HashesOut[n]) + 1] = h
        <5>1. Len(old) \in Nat /\ Len(HashesOut[m]) \in Nat
          BY <2>0, <3>1 DEF HashesOut, TypeOK, Replica
        <5>2. m # n
          BY <4>2, <4>4, <5>1
        <5>3. HashesOut'[m] = HashesOut[m]
          BY <3>2, <5>2 DEF HashesOut
        <5>4. replica'[m].hashes = HashesOut[m] /\ replica'[n].hashes = new
          BY <4>2, <5>3 DEF HashesOut
        <5>5. AppHashAgreement'
          BY <1>2, IInvAgreement, PTL
        <5>6. Len(old) + 1 \in 1..Len(new) /\ Len(old) + 1 <= Len(HashesOut[m])
          BY <4>2, <4>3, <4>4, <5>1
        <5>7. replica'[n].hashes[Len(old)+1] = replica'[m].hashes[Len(old)+1]
          BY <5>4, <5>5, <5>6 DEF AppHashAgreement
        <5> QED BY <4>2, <4>3, <5>4, <5>7
      <4>5. HashLog!Published(n) = h
        BY <4>2, <4>3 DEF HashLog!Published
      <4>6. HashLog!Publish(n)
        BY <3>2, <4>1, <4>2, <4>3, <4>4, <4>5 DEF HashLog!Publish, HashesOut
      <4> QED BY <4>6 DEF HashLog!Next
    <3> QED BY <3>3, <3>4
  <2>2. ASSUME UNCHANGED replica PROVE [HashLog!Next]_HashesOut
    BY <2>2 DEF HashesOut
  <2>3. ASSUME NEW n \in Nodes, Handle(n) PROVE [HashLog!Next]_HashesOut
    BY <2>1, <2>3 DEF Handle
  <2>4. ASSUME NEW n \in Nodes, HandlePanic(n) PROVE [HashLog!Next]_HashesOut
    BY <2>1, <2>4 DEF HandlePanic
  <2>5. ASSUME NEW n \in Nodes, NEW raw \in Inputs,
               CheckTxOk(n, raw) \/ CheckTxPanic(n, raw)
        PROVE  [HashLog!Next]_HashesOut
    BY <2>2, <2>5 DEF CheckTxOk, CheckTxPanic
  <2>6. ASSUME NEW n \in Nodes, Decide(n) PROVE [HashLog!Next]_HashesOut
    BY <2>2, <2>6 DEF Decide
  <2>7. CASE UNCHANGED vars
    BY <2>2, <2>7 DEF vars
  <2> QED BY <1>2, <2>3, <2>4, <2>5, <2>6, <2>7 DEF Next
<1> QED BY <1>1, <1>2, Inductive, PTL DEF Spec, NoFork, HashLog!Spec

-----------------------------------------------------------------------------
(***************************************************************************)
(* What is let in.  The mempool is where the promise about blocks is kept: *)
(* with it, the property is inductive.                                     *)
(***************************************************************************)
Decodable == \A i \in 1..Len(mempool) : mempool[i] # Undecodable

LEMMA DecideDecodes ==
  ASSUME TypeOK, Decodable, DecidedDecodes, NEW n \in Nodes, Decide(n)
  PROVE  Decodable' /\ DecidedDecodes'
<1> DEFINE txs == PrepareProposal(mempool)
           k == Len(txs)
<1>1. /\ mempool \in Seq(Inputs) /\ reqs \in Seq(Requests)
      /\ txs \in Seq(Inputs) /\ k \in Nat /\ k <= Len(mempool)
  BY ProposalType DEF TypeOK
<1>2. \A i \in 1..k : txs[i] = mempool[i]
  BY <1>1, ReplicaAssumption DEF PrepareProposal
<1>3. Decodable'
  <2>1. mempool' = SubSeq(mempool, k + 1, Len(mempool))
    BY DEF Decide
  <2> QED BY <1>1, <2>1 DEF Decodable
<1>4. Block(txs) \in Seq(Requests) /\ Len(Block(txs)) = k + 3
  BY <1>1, BlockType, BlockRequests
<1>5. ASSUME NEW i \in 1..k + 3 PROVE Block(txs)[i] # DeliverReq(Undecodable)
  <2>1. CASE i \in 2..k + 1
    <3>1. Block(txs)[i] = DeliverReq(txs[i - 1])
      BY <1>1, <2>1, BlockRequests
    <3>2. i - 1 \in 1..k /\ txs[i - 1] # Undecodable
      BY <1>1, <1>2, <2>1 DEF Decodable
    <3> QED BY <3>1, <3>2 DEF DeliverReq
  <2>2. CASE i \notin 2..k + 1
    <3>1. i = 1 \/ i = k + 2 \/ i = k + 3
      BY <1>1, <2>2
    <3> QED BY <1>1, <3>1, BlockRequests, RequestsDiffer
  <2> QED BY <2>1, <2>2
<1>6. reqs' = reqs \o Block(txs)
  BY DEF Decide
<1>7. ASSUME NEW i \in 1..Len(reqs') PROVE reqs'[i] # DeliverReq(Undecodable)
  <2>1. CASE i <= Len(reqs)
    BY <1>1, <1>4, <1>6, <2>1 DEF DecidedDecodes
  <2>2. CASE i > Len(reqs)
    <3>1. i - Len(reqs) \in 1..k + 3 /\ reqs'[i] = Block(txs)[i - Len(reqs)]
      BY <1>1, <1>4, <1>6, <2>2
    <3> QED BY <1>5, <3>1
  <2> QED BY <1>1, <2>1, <2>2
<1> QED BY <1>3, <1>7 DEF DecidedDecodes

(***************************************************************************)
(* No block ever holds bytes that deliver_tx could not decode: check_tx,   *)
(* which lets a client's bytes in, decodes them first.                     *)
(***************************************************************************)
THEOREM DecidedDecode == Spec => []DecidedDecodes
<1>1. Init => Decodable /\ DecidedDecodes
  BY DEF Init, Decodable, DecidedDecodes
<1>2. TypeOK /\ Decodable /\ DecidedDecodes /\ [Next]_vars => Decodable' /\ DecidedDecodes'
  <2> SUFFICES ASSUME TypeOK, Decodable, DecidedDecodes, [Next]_vars
               PROVE  Decodable' /\ DecidedDecodes'
    OBVIOUS
  <2>1. ASSUME UNCHANGED <<mempool, reqs>> PROVE Decodable' /\ DecidedDecodes'
    BY <2>1 DEF Decodable, DecidedDecodes
  <2>2. ASSUME NEW n \in Nodes, NEW raw \in Inputs, CheckTxOk(n, raw)
        PROVE  Decodable' /\ DecidedDecodes'
    <3>1. raw # Undecodable
      BY <2>2 DEF CheckTxOk, CheckTx
    <3>2. mempool' = Append(mempool, raw) /\ mempool \in Seq(Inputs)
      BY <2>2 DEF CheckTxOk, TypeOK
    <3>3. Decodable'
      BY <3>1, <3>2 DEF Decodable
    <3> QED BY <2>2, <3>3 DEF CheckTxOk, DecidedDecodes
  <2>3. ASSUME NEW n \in Nodes, NEW raw \in Inputs, CheckTxPanic(n, raw)
        PROVE  Decodable' /\ DecidedDecodes'
    BY <2>1, <2>3 DEF CheckTxPanic
  <2>4. ASSUME NEW n \in Nodes, Decide(n) PROVE Decodable' /\ DecidedDecodes'
    BY <2>4, DecideDecodes
  <2>5. ASSUME NEW n \in Nodes, Handle(n) \/ HandlePanic(n)
        PROVE  Decodable' /\ DecidedDecodes'
    BY <2>1, <2>5 DEF Handle, HandlePanic
  <2>6. CASE UNCHANGED vars
    BY <2>1, <2>6 DEF vars
  <2> QED BY <2>2, <2>3, <2>4, <2>5, <2>6 DEF Next
<1> QED BY <1>1, <1>2, TypeCorrect, PTL DEF Spec

-----------------------------------------------------------------------------
(***************************************************************************)
(* The counter that end_block logs.  Framed: inside a block no request but *)
(* begin_block and commit follows an end_block or a commit.  Counting: on  *)
(* the line of executed replicas, after every begin_block or deliver_tx    *)
(* the counter is the distance to the last begin_block.                    *)
(***************************************************************************)
Framed ==
  \A i \in 1..Len(reqs) :
    reqs[i] \notin {Begin, Commit} => i > 1 /\ reqs[i-1] \notin {End, Commit}

CountsTo(k, transactions) ==
  LET first == k - transactions
  IN  /\ first > 0 /\ reqs[first] = Begin
      /\ \A i \in first+1..k : reqs[i] \notin {Begin, End, Commit}

Counting ==
  \A k \in 1..Len(executed)-1 :
    reqs[k] \notin {End, Commit} => CountsTo(k, executed[k+1].app.transactions)

LEMMA DecideFramed ==
  ASSUME TypeOK, Framed, NEW n \in Nodes, Decide(n)
  PROVE  Framed'
<1> DEFINE txs == PrepareProposal(mempool)
           k == Len(txs)
           l == Len(reqs)
<1>1. /\ reqs \in Seq(Requests) /\ l \in Nat
      /\ txs \in Seq(Inputs) /\ k \in Nat
  BY ProposalType DEF TypeOK
<1>2. Block(txs) \in Seq(Requests) /\ Len(Block(txs)) = k + 3
  BY <1>1, BlockType, BlockRequests
<1>3. reqs' = reqs \o Block(txs)
  BY DEF Decide
<1>4. /\ Len(reqs') = l + k + 3
      /\ \A i \in 1..l : reqs'[i] = reqs[i]
      /\ \A i \in 1..k + 3 : reqs'[l + i] = Block(txs)[i]
  <2>1. ASSUME NEW s \in Seq(Requests), NEW b \in Seq(Requests), Len(b) = k + 3
        PROVE  /\ Len(s \o b) = Len(s) + k + 3
               /\ \A i \in 1..Len(s) : (s \o b)[i] = s[i]
               /\ \A i \in 1..k + 3 : (s \o b)[Len(s) + i] = b[i]
    <3>1. Len(s \o b) = Len(s) + Len(b) /\ Len(s) \in Nat
      OBVIOUS
    <3>2. \A i \in 1..Len(s) : (s \o b)[i] = s[i]
      OBVIOUS
    <3>3. \A i \in 1..Len(b) : (s \o b)[Len(s) + i] = b[i]
      BY ConcatElements
    <3> QED BY <1>1, <2>1, <3>1, <3>2, <3>3
  <2> QED BY <1>1, <1>2, <1>3, <2>1
<1>5. ASSUME NEW i \in 1..k + 3, Block(txs)[i] \notin {Begin, Commit}
      PROVE  i > 1 /\ Block(txs)[i-1] \notin {End, Commit}
  <2>1. i \in 2..k + 2
    BY <1>1, <1>5, BlockRequests
  <2>2. i - 1 = 1 \/ i - 1 \in 2..k + 1
    BY <1>1, <2>1
  <2>3. Block(txs)[i-1] = Begin \/ \E raw : Block(txs)[i-1] = DeliverReq(raw)
    BY <1>1, <2>2, BlockRequests
  <2> QED BY <2>1, <2>3, RequestsDiffer
<1>6. ASSUME NEW i \in 1..Len(reqs'), reqs'[i] \notin {Begin, Commit}
      PROVE  i > 1 /\ reqs'[i-1] \notin {End, Commit}
  <2>1. CASE i <= l
    <3>1. reqs'[i] = reqs[i] /\ i > 1 /\ reqs[i-1] \notin {End, Commit}
      BY <1>1, <1>4, <1>6, <2>1 DEF Framed
    <3>2. i - 1 \in 1..l
      BY <1>1, <2>1, <3>1
    <3> QED BY <1>4, <3>1, <3>2
  <2>2. CASE i > l
    <3> DEFINE j == i - l
    <3>1. j \in 1..k + 3 /\ i = l + j
      BY <1>1, <1>4, <2>2
    <3>2. reqs'[i] = Block(txs)[j]
      BY <1>4, <3>1
    <3>3. j > 1 /\ Block(txs)[j-1] \notin {End, Commit}
      BY <1>5, <1>6, <3>1, <3>2
    <3>4. j - 1 \in 1..k + 3 /\ i - 1 = l + (j - 1) /\ i > 1
      BY <1>1, <3>1, <3>3
    <3>5. reqs'[i-1] = Block(txs)[j-1]
      BY <1>4, <3>4
    <3> QED BY <3>3, <3>4, <3>5
  <2> QED BY <1>1, <2>1, <2>2
<1> QED BY <1>6 DEF Framed

(* Requests that are decided later do not disturb the count of earlier ones. *)
LEMMA DecideCounting ==
  ASSUME IInv, Counting, NEW n \in Nodes, Decide(n)
  PROVE  Counting'
<1>1. reqs \in Seq(Requests) /\ executed' = executed /\ Len(executed) \in Nat
  BY DEF Decide, IInv, TypeOK
<1>2. PrepareProposal(mempool) \in Seq(Inputs) /\ Block(PrepareProposal(mempool)) \in Seq(Requests)
  BY ProposalType, BlockType DEF IInv, TypeOK
<1>3. \A i \in 1..Len(reqs) : reqs'[i] = reqs[i]
  BY <1>1, <1>2 DEF Decide
<1>4. ASSUME NEW k \in 1..Len(executed)-1, reqs[k] \notin {End, Commit}
      PROVE  CountsTo(k, executed[k+1].app.transactions)'
  <2> DEFINE t == executed[k+1].app.transactions
             first == k - t
  <2>1. first > 0 /\ reqs[first] = Begin
        /\ \A i \in first+1..k : reqs[i] \notin {Begin, End, Commit}
    BY <1>4 DEF Counting, CountsTo
  <2>2. k \in 1..Len(reqs) /\ k + 1 \in 1..Len(executed)
    BY <1>1, <1>4 DEF IInv, Linked
  <2>3. t \in Nat
    <3>1. executed[k+1] \in Replica
      BY <2>2 DEF IInv, TypeOK
    <3> QED BY <3>1 DEF Replica, App
  <2>4. first \in 1..Len(reqs) /\ first+1..k \subseteq 1..Len(reqs)
    BY <1>1, <2>1, <2>2, <2>3, SMTT(30)
  <2>5. reqs'[first] = Begin /\ \A i \in first+1..k : reqs'[i] \notin {Begin, End, Commit}
    BY <1>3, <2>1, <2>4
  <2> QED BY <1>1, <2>1, <2>5 DEF CountsTo
<1>5. \A k \in 1..Len(executed)-1 : reqs'[k] = reqs[k]
  BY <1>1, <1>3 DEF IInv, Linked
<1> QED BY <1>1, <1>4, <1>5 DEF Counting

(* One more request answered: reset by begin_block, counted by deliver_tx.  *)
LEMMA HandleCounting ==
  ASSUME IInv, Framed, Counting, NEW n \in Nodes, Handle(n)
  PROVE  Counting'
<1> DEFINE k == pos[n] + 1
           r == After(replica[n], Upcoming(n))
<1>1. /\ k \in 1..Len(reqs) /\ k \in 1..Len(executed)
      /\ Len(executed) \in Nat /\ Len(reqs) \in Nat
      /\ reqs[k] \in Requests /\ executed[k] \in Replica
      /\ r = After(executed[k], reqs[k])
      /\ Answer(executed[k], reqs[k]) # "panic"
      /\ reqs' = reqs
  BY DEF Handle, Ready, Upcoming, IInv, Placed, Panicked, TypeOK
<1>2. CASE Len(executed) # k
  BY <1>1, <1>2 DEF Handle, Counting, CountsTo
<1>3. CASE Len(executed) = k
  <2>1. executed' = Append(executed, r)
    BY <1>3 DEF Handle
  <2>2. /\ Len(executed') = k + 1 /\ executed'[k+1] = r
        /\ \A i \in 1..k : executed'[i] = executed[i]
    BY <1>1, <1>3, <2>1 DEF IInv, TypeOK
  <2>3. ASSUME NEW i \in 1..k-1, reqs[i] \notin {End, Commit}
        PROVE  CountsTo(i, executed'[i+1].app.transactions)
    <3>1. i + 1 \in 1..k /\ i \in 1..Len(executed)-1
      BY <1>1, <1>3, <2>3
    <3> QED BY <2>2, <2>3, <3>1 DEF Counting
  <2>4. ASSUME reqs[k] \notin {End, Commit} PROVE CountsTo(k, r.app.transactions)
    <3>1. CASE reqs[k] = Begin
      <4>1. r.app.transactions = 0
        BY <1>1, <3>1, AfterCounts
      <4> QED BY <1>1, <3>1, <4>1 DEF CountsTo
    <3>2. CASE reqs[k] # Begin
      <4> DEFINE t == executed[k].app.transactions
      <4>1. k > 1 /\ reqs[k-1] \notin {End, Commit}
        BY <1>1, <2>4, <3>2 DEF Framed
      <4>2. t \in Nat /\ r.app.transactions = t + 1
        <5>1. r.app.transactions = t + 1
          BY <1>1, <2>4, <3>2, AfterCounts
        <5> QED BY <1>1, <5>1 DEF Replica, App
      <4>3. k - 1 \in 1..Len(executed)-1 /\ k - 1 + 1 = k
        BY <1>1, <1>3, <4>1
      <4>4. CountsTo(k - 1, t)
        BY <4>1, <4>3 DEF Counting
      <4>5. k - 1 - t = k - (t + 1)
        <5>1. k \in Nat /\ t \in Nat
          BY <1>1, <4>2
        <5> HIDE DEF k, t
        <5> QED BY <5>1
      <4>6. ASSUME NEW i \in (k - (t + 1)) + 1..k PROVE i = k \/ i \in (k - (t + 1)) + 1..k-1
        BY <1>1, <4>2
      <4> QED BY <2>4, <3>2, <4>2, <4>4, <4>5, <4>6 DEF CountsTo
    <3> QED BY <3>1, <3>2
  <2> SUFFICES ASSUME NEW i \in 1..Len(executed')-1, reqs'[i] \notin {End, Commit}
               PROVE  CountsTo(i, executed[i+1].app.transactions)'
    BY DEF Counting
  <2>5. CountsTo(i, executed'[i+1].app.transactions)
    <3>1. CASE i = k
      BY <1>1, <2>2, <2>4, <3>1
    <3>2. CASE i # k
      <4>1. i \in 1..k-1
        BY <1>1, <2>2, <3>2
      <4> QED BY <1>1, <2>3, <4>1
    <3> QED BY <3>1, <3>2
  <2> QED BY <1>1, <2>5 DEF CountsTo
<1> QED BY <1>2, <1>3

(***************************************************************************)
(* What end_block logs as the number of the block's transactions is their  *)
(* number, refused ones included: the counter reaches back exactly to the  *)
(* begin_block, with nothing but deliver_tx between.                       *)
(***************************************************************************)
THEOREM CountsAreRight == Spec => []EndBlockCountsBlock
<1>1. Init => Framed /\ Counting
  BY DEF Init, Framed, Counting
<1>2. IInv /\ Framed /\ Counting /\ [Next]_vars => Framed' /\ Counting'
  <2> SUFFICES ASSUME IInv, Framed, Counting, [Next]_vars PROVE Framed' /\ Counting'
    OBVIOUS
  <2>1. ASSUME UNCHANGED <<reqs, executed>> PROVE Framed' /\ Counting'
    BY <2>1 DEF Framed, Counting, CountsTo
  <2>2. ASSUME NEW n \in Nodes, NEW raw \in Inputs, CheckTxOk(n, raw) \/ CheckTxPanic(n, raw)
        PROVE  Framed' /\ Counting'
    BY <2>1, <2>2 DEF CheckTxOk, CheckTxPanic
  <2>3. ASSUME NEW n \in Nodes, Decide(n) PROVE Framed' /\ Counting'
    BY <2>3, DecideFramed, DecideCounting DEF IInv
  <2>4. ASSUME NEW n \in Nodes, Handle(n) PROVE Framed' /\ Counting'
    <3>1. Framed'
      BY <2>4 DEF Handle, Framed
    <3> QED BY <2>4, <3>1, HandleCounting
  <2>5. ASSUME NEW n \in Nodes, HandlePanic(n) PROVE Framed' /\ Counting'
    BY <2>1, <2>5 DEF HandlePanic
  <2>6. CASE UNCHANGED vars
    BY <2>1, <2>6 DEF vars
  <2> QED BY <2>2, <2>3, <2>4, <2>5, <2>6 DEF Next
<1>3. IInv /\ Framed /\ Counting => EndBlockCountsBlock
  <2> SUFFICES ASSUME IInv, Framed, Counting, NEW n \in Nodes,
                      pos[n] < Len(reqs), Upcoming(n) = End
               PROVE  CountsTo(pos[n], replica[n].app.transactions)
    BY DEF EndBlockCountsBlock, CountsTo
  <2>1. /\ pos[n] \in Nat /\ Len(reqs) \in Nat /\ Len(executed) \in Nat
        /\ reqs[pos[n]+1] = End /\ Placed(n)
    BY DEF Upcoming, IInv, TypeOK
  <2>2. ~Panicked(n)
    BY <2>1, PanicIsDeliver DEF Placed, End
  <2>3. replica[n] = executed[pos[n]+1] /\ pos[n] + 1 \in 1..Len(executed)
    BY <2>1, <2>2 DEF Placed
  <2>4. pos[n] + 1 > 1 /\ reqs[pos[n]] \notin {End, Commit}
    <3>1. pos[n] + 1 \in 1..Len(reqs) /\ pos[n] + 1 - 1 = pos[n]
      BY <2>1
    <3> QED BY <2>1, <3>1, RequestsDiffer DEF Framed
  <2>5. pos[n] \in 1..Len(executed)-1
    BY <2>1, <2>3, <2>4
  <2> QED BY <2>3, <2>4, <2>5 DEF Counting
<1> QED BY <1>1, <1>2, <1>3, Inductive, PTL DEF Spec
=============================================================================
