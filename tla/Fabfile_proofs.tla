--------------------------- MODULE Fabfile_proofs ----------------------------
(***************************************************************************)
(* Proofs about the tasks, on both testbeds.                               *)
(*                                                                         *)
(* The local testbed (Testbed), for any number of nodes, workers and       *)
(* faults: the committee gives no port twice, also not to an application   *)
(* and its primary or within one process, and no engine ever drives the    *)
(* application of another node.  The first rests on the invariant that     *)
(* every port given so far is below the next one (Allotted); the second on *)
(* the first, with the order in which run starts things (Started): whoever *)
(* listens has an address in a committee that is complete, also when it    *)
(* was left by an interrupted run, since the next one kills before it      *)
(* makes a committee of its own.                                           *)
(*                                                                         *)
(* The remote testbed, for any number of regions and machines, of tasks    *)
(* and of calls that fail: what a task says it has done is so, destroy may *)
(* delete what it deletes, and kill stops all clients, or all but one of a *)
(* machine if it is called inside tmux.                                    *)
(*                                                                         *)
(* The invariant says, for each step of a task, how far it has got: for    *)
(* the regions behind the one it is at, for the machines that it listed,   *)
(* and for those that it did not list (OnTheWay).  Between tasks it needs  *)
(* two facts: where there is a machine there are the groups of all regions *)
(* (GroupsFirst), and a client runs on no machine that is off or has not   *)
(* booted (AwakeOnly).                                                     *)
(***************************************************************************)
EXTENDS Fabfile, SequenceTheorems, FiniteSetTheorems, FunctionTheorems, TLAPS

Allotted ==
  \A i \in 1..Len(authorities) : \A p \in Endpoints(authorities[i]) : p < port

Started ==
  /\ phase = "committee" => listening = {} /\ apps = 0 /\ primaries = 0
  /\ phase \in {"apps", "primaries"} => Len(authorities) = Size
  /\ listening # {} \/ apps # 0 \/ primaries # 0 => Len(authorities) = Size
  /\ apps <= Size /\ primaries <= Size

LocalInv == TypeOK /\ Allotted /\ EndpointsDistinct /\ Started /\ EnginesHaveTheirApp

-----------------------------------------------------------------------------
(* The ports of a process as a set.                                         *)
LEMMA ListedPorts ==
  ASSUME NEW a, NEW w
  PROVE  /\ PrimaryEndpoints(a) =
              {a.primary_to_primary, a.worker_to_primary, a.api_rpc, a.api_abci}
         /\ WorkerEndpoints(w) = {w.primary_to_worker, w.transactions, w.worker_to_worker}
BY DEF PrimaryEndpoints, WorkerEndpoints, PrimaryList, WorkerList, Range

LEMMA FreshPrimary ==
  ASSUME NEW p \in Nat
  PROVE  /\ Primary(p) \in Authority
         /\ Len(Primary(p).workers) = 0
         /\ IsInjective(PrimaryList(Primary(p)))
         /\ \A q \in Endpoints(Primary(p)) : q \in Nat /\ p <= q /\ q < p + PrimaryPorts
<1>1. Primary(p) \in Authority /\ Len(Primary(p).workers) = 0
  BY DEF Primary, Authority
<1>2. Endpoints(Primary(p)) = {p, p + 1, p + 2, p + 3}
  <2>1. PrimaryEndpoints(Primary(p)) = {p, p + 1, p + 2, p + 3}
    BY ListedPorts DEF Primary
  <2>2. 1..Len(Primary(p).workers) = {}
    BY <1>1
  <2> QED BY <2>1, <2>2 DEF Endpoints
<1>3. IsInjective(PrimaryList(Primary(p)))
  BY DEF IsInjective, PrimaryList, Primary
<1> QED BY <1>1, <1>2, <1>3 DEF PrimaryPorts

LEMMA FreshWorker ==
  ASSUME NEW p \in Nat
  PROVE  /\ Worker(p) \in WorkerRecord
         /\ IsInjective(WorkerList(Worker(p)))
         /\ \A q \in WorkerEndpoints(Worker(p)) : q \in Nat /\ p <= q /\ q < p + WorkerPorts
<1>1. IsInjective(WorkerList(Worker(p)))
  BY DEF IsInjective, WorkerList, Worker
<1>2. WorkerEndpoints(Worker(p)) = {p, p + 1, p + 2}
  BY ListedPorts DEF Worker
<1> QED BY <1>1, <1>2 DEF Worker, WorkerRecord, WorkerPorts

(* An authority with one more worker.                                       *)
LEMMA MoreWorkers ==
  ASSUME NEW a \in Authority, NEW w \in WorkerRecord, NEW b,
         b = [a EXCEPT !.workers = Append(@, w)]
  PROVE  /\ b \in Authority
         /\ PrimaryList(b) = PrimaryList(a)
         /\ PrimaryEndpoints(b) = PrimaryEndpoints(a)
         /\ Len(b.workers) = Len(a.workers) + 1
         /\ \A j \in 1..Len(a.workers) : b.workers[j] = a.workers[j]
         /\ b.workers[Len(b.workers)] = w
         /\ Endpoints(b) = Endpoints(a) \cup WorkerEndpoints(w)
<1> DEFINE n == Len(a.workers)
<1>1. a.workers \in Seq(WorkerRecord) /\ n \in Nat
  BY DEF Authority
<1>2. b.workers = Append(a.workers, w)
  BY DEF Authority
<1>3. /\ b.workers \in Seq(WorkerRecord)
      /\ Len(b.workers) = n + 1
      /\ \A j \in 1..n : b.workers[j] = a.workers[j]
      /\ b.workers[n + 1] = w
  BY <1>1, <1>2
<1>4. /\ b \in Authority
      /\ b.primary_to_primary = a.primary_to_primary
      /\ b.worker_to_primary = a.worker_to_primary
      /\ b.api_rpc = a.api_rpc /\ b.api_abci = a.api_abci
  BY <1>3 DEF Authority
<1>5. PrimaryList(b) = PrimaryList(a) /\ PrimaryEndpoints(b) = PrimaryEndpoints(a)
  BY <1>4 DEF PrimaryList, PrimaryEndpoints
<1>6. ASSUME NEW p
      PROVE  p \in Endpoints(b) <=> p \in Endpoints(a) \/ p \in WorkerEndpoints(w)
  <2>1. p \in Endpoints(b) <=> \/ p \in PrimaryEndpoints(b)
                              \/ \E j \in 1..(n + 1) : p \in WorkerEndpoints(b.workers[j])
    BY <1>3 DEF Endpoints
  <2>2. p \in Endpoints(a) <=> \/ p \in PrimaryEndpoints(a)
                              \/ \E j \in 1..n : p \in WorkerEndpoints(a.workers[j])
    BY DEF Endpoints
  <2>3. \A j \in 1..(n + 1) : j \in 1..n \/ j = n + 1
    BY <1>1
  <2>4. 1..n \subseteq 1..(n + 1) /\ n + 1 \in 1..(n + 1)
    BY <1>1
  <2>5. \A j \in 1..n : WorkerEndpoints(b.workers[j]) = WorkerEndpoints(a.workers[j])
    BY <1>3
  <2>6. WorkerEndpoints(b.workers[n + 1]) = WorkerEndpoints(w)
    BY <1>3
  <2> HIDE DEF n
  <2> QED BY <2>1, <2>2, <2>3, <2>4, <2>5, <2>6, <1>5
<1>7. Endpoints(b) = Endpoints(a) \cup WorkerEndpoints(w)
  BY <1>6, Zenon
<1> QED BY <1>3, <1>4, <1>5, <1>7

(* Every port of a worker is one of its authority.                          *)
LEMMA WorkersAreEndpoints ==
  ASSUME NEW a, NEW j \in 1..Len(a.workers)
  PROVE  /\ WorkerEndpoints(a.workers[j]) \subseteq Endpoints(a)
         /\ PrimaryEndpoints(a) \subseteq Endpoints(a)
BY DEF Endpoints

LEMMA EndpointsAreNat ==
  ASSUME NEW a \in Authority PROVE Endpoints(a) \subseteq Nat
<1>1. PrimaryEndpoints(a) \subseteq Nat
  BY ListedPorts DEF Authority
<1>2. ASSUME NEW j \in 1..Len(a.workers) PROVE WorkerEndpoints(a.workers[j]) \subseteq Nat
  <2>1. a.workers \in Seq(WorkerRecord)
    BY DEF Authority
  <2>2. a.workers[j] \in WorkerRecord
    BY <2>1
  <2>3. PICK w \in WorkerRecord : w = a.workers[j]
    BY <2>2
  <2>4. WorkerEndpoints(w) = {w.primary_to_worker, w.transactions, w.worker_to_worker}
    BY ListedPorts
  <2>5. w.primary_to_worker \in Nat /\ w.transactions \in Nat /\ w.worker_to_worker \in Nat
    BY DEF WorkerRecord
  <2> QED BY <2>3, <2>4, <2>5
<1> QED BY <1>1, <1>2 DEF Endpoints

LEMMA AbciIsEndpoint ==
  ASSUME NEW a PROVE a.api_abci \in Endpoints(a)
BY ListedPorts DEF Endpoints

-----------------------------------------------------------------------------
LEMMA InitLocalInv == Init => LocalInv
BY TestbedAssumption
   DEF Init, LocalInv, TypeOK, Allotted, EndpointsDistinct, Started,
       EnginesHaveTheirApp, NoApp

LEMMA AddPrimaryLocalInv == ASSUME LocalInv, AddPrimary PROVE LocalInv'
<1> USE DEF LocalInv
<1> DEFINE n == Len(authorities)
           a == Primary(port)
<1>1. port \in Nat /\ authorities \in Seq(Authority) /\ n \in Nat
  BY DEF TypeOK
<1>2. /\ a \in Authority /\ Len(a.workers) = 0 /\ IsInjective(PrimaryList(a))
      /\ \A q \in Endpoints(a) : q \in Nat /\ port <= q /\ q < port + PrimaryPorts
  BY <1>1, FreshPrimary
<1>3. authorities' = Append(authorities, a) /\ port' = port + PrimaryPorts
  BY DEF AddPrimary
<1>4. /\ authorities' \in Seq(Authority) /\ Len(authorities') = n + 1
      /\ \A i \in 1..n : authorities'[i] = authorities[i]
      /\ authorities'[n + 1] = a
  BY <1>1, <1>2, <1>3
<1>5. port' \in Nat /\ port <= port'
  BY <1>1, <1>3 DEF PrimaryPorts
<1>6. phase = "committee" /\ UNCHANGED <<phase, processes>>
  BY DEF AddPrimary
<1>7. TypeOK'
  BY <1>4, <1>5, <1>6 DEF TypeOK, processes
<1>8. Allotted'
  <2> SUFFICES ASSUME NEW i \in 1..n + 1, NEW p \in Endpoints(authorities'[i])
               PROVE  p < port'
    BY <1>4 DEF Allotted
  <2>1. CASE i = n + 1
    BY <2>1, <1>2, <1>3, <1>4
  <2>2. CASE i # n + 1
    <3>1. i \in 1..n
      BY <1>1, <2>2
    <3>2. p \in Endpoints(authorities[i]) /\ p < port
      BY <3>1, <1>4 DEF Allotted
    <3>3. p \in Nat
      BY <3>1, <3>2, <1>1, EndpointsAreNat
    <3> QED BY <3>2, <3>3, <1>1, <1>5
  <2> QED BY <2>1, <2>2
<1>9. EndpointsDistinct'
  <2>1. ASSUME NEW i \in 1..n PROVE Apart(Endpoints(authorities[i]), Endpoints(a))
    <3>1. \A p \in Endpoints(authorities[i]) : p \in Nat /\ p < port
      BY <1>1, EndpointsAreNat DEF Allotted
    <3> QED BY <3>1, <1>1, <1>2 DEF Apart
  <2>2. ASSUME NEW i \in 1..n + 1, NEW k \in 1..n + 1, i # k
        PROVE  Apart(Endpoints(authorities'[i]), Endpoints(authorities'[k]))
    <3>1. CASE i \in 1..n /\ k \in 1..n
      BY <3>1, <2>2, <1>4 DEF EndpointsDistinct
    <3>2. CASE i = n + 1
      <4>1. k \in 1..n
        BY <1>1, <2>2, <3>2
      <4> QED BY <4>1, <3>2, <2>1, <1>4 DEF Apart
    <3>3. CASE k = n + 1
      <4>1. i \in 1..n
        BY <1>1, <2>2, <3>3
      <4> QED BY <4>1, <3>3, <2>1, <1>4 DEF Apart
    <3> QED BY <1>1, <3>1, <3>2, <3>3
  <2>3. ASSUME NEW i \in 1..n + 1, NEW j \in 1..Len(authorities'[i].workers)
        PROVE  i \in 1..n /\ authorities'[i] = authorities[i]
    BY <1>1, <1>2, <1>4
  <2>4. ASSUME NEW i \in 1..n + 1 PROVE IsInjective(PrimaryList(authorities'[i]))
    <3>1. CASE i \in 1..n
      BY <3>1, <1>4 DEF EndpointsDistinct
    <3>2. CASE i = n + 1
      BY <3>2, <1>2, <1>4
    <3> QED BY <1>1, <3>1, <3>2
  <2> QED BY <2>2, <2>3, <2>4, <1>4 DEF EndpointsDistinct
<1>10. Started' /\ EnginesHaveTheirApp'
  BY <1>6 DEF Started, EnginesHaveTheirApp, processes
<1> QED BY <1>7, <1>8, <1>9, <1>10

LEMMA AddWorkerLocalInv == ASSUME LocalInv, AddWorker PROVE LocalInv'
<1> USE DEF LocalInv
<1> DEFINE n == Len(authorities)
           a == authorities[n]
           w == Worker(port)
           b == [a EXCEPT !.workers = Append(@, w)]
           m == Len(a.workers)
<1>1. port \in Nat /\ authorities \in Seq(Authority) /\ n \in Nat
  BY DEF TypeOK
<1>2. n \in 1..n
  BY <1>1 DEF AddWorker, NeedsWorker
<1>3. a \in Authority /\ m \in Nat
  <2>1. a \in Authority
    BY <1>1, <1>2
  <2> QED BY <2>1 DEF Authority
<1>4. /\ w \in WorkerRecord /\ IsInjective(WorkerList(w))
      /\ \A q \in WorkerEndpoints(w) : q \in Nat /\ port <= q /\ q < port + WorkerPorts
  BY <1>1, FreshWorker
<1>5. /\ b \in Authority
      /\ PrimaryList(b) = PrimaryList(a)
      /\ PrimaryEndpoints(b) = PrimaryEndpoints(a)
      /\ Len(b.workers) = m + 1
      /\ \A j \in 1..m : b.workers[j] = a.workers[j]
      /\ b.workers[m + 1] = w
      /\ Endpoints(b) = Endpoints(a) \cup WorkerEndpoints(w)
  <2> HIDE DEF a, w
  <2> QED BY <1>3, <1>4, MoreWorkers
<1>6. /\ authorities' = [authorities EXCEPT ![n] = b]
      /\ port' = port + WorkerPorts
      /\ phase = "committee" /\ UNCHANGED <<phase, processes>>
  BY DEF AddWorker, Current
<1> HIDE DEF b, w
<1>7. /\ authorities' \in Seq(Authority) /\ Len(authorities') = n
      /\ \A i \in 1..n : i # n => authorities'[i] = authorities[i]
      /\ authorities'[n] = b
  BY <1>1, <1>2, <1>5, <1>6
<1>8. port' \in Nat /\ port <= port'
  BY <1>1, <1>6 DEF WorkerPorts
<1>9. \A i \in 1..n : \A p \in Endpoints(authorities[i]) : p \in Nat /\ p < port
  BY <1>1, EndpointsAreNat DEF Allotted
<1>10. TypeOK'
  BY <1>6, <1>7, <1>8 DEF TypeOK, processes
<1>11. Allotted'
  <2> SUFFICES ASSUME NEW i \in 1..n, NEW p \in Endpoints(authorities'[i])
               PROVE  p < port'
    BY <1>7 DEF Allotted
  <2>1. CASE i # n
    BY <2>1, <1>1, <1>7, <1>8, <1>9
  <2>2. CASE i = n /\ p \in Endpoints(a)
    <3>1. p \in Nat /\ p < port
      BY <2>2, <1>2, <1>9
    <3> QED BY <3>1, <1>1, <1>8
  <2>3. CASE i = n /\ p \in WorkerEndpoints(w)
    BY <2>3, <1>4, <1>6
  <2> QED BY <2>1, <2>2, <2>3, <1>5, <1>7
<1>12. EndpointsDistinct'
  <2>1. ASSUME NEW i \in 1..n PROVE Apart(Endpoints(authorities[i]), WorkerEndpoints(w))
    BY <1>1, <1>4, <1>9 DEF Apart
  <2>2. ASSUME NEW i \in 1..n, NEW k \in 1..n, i # k
        PROVE  Apart(Endpoints(authorities'[i]), Endpoints(authorities'[k]))
    <3>1. Apart(Endpoints(authorities[i]), Endpoints(authorities[k]))
      BY <2>2 DEF EndpointsDistinct
    <3>2. CASE i # n /\ k # n
      BY <3>1, <3>2, <1>7
    <3>3. CASE i = n
      BY <2>1, <2>2, <3>1, <3>3, <1>5, <1>7 DEF Apart
    <3>4. CASE k = n
      BY <2>1, <2>2, <3>1, <3>4, <1>5, <1>7 DEF Apart
    <3> QED BY <3>2, <3>3, <3>4
  <2>3. ASSUME NEW i \in 1..n, NEW j \in 1..Len(authorities'[i].workers)
        PROVE  Apart(PrimaryEndpoints(authorities'[i]),
                     WorkerEndpoints(authorities'[i].workers[j]))
    <3>1. CASE i # n
      BY <2>3, <3>1, <1>7 DEF EndpointsDistinct
    <3>2. CASE i = n /\ j \in 1..m
      BY <1>2, <1>5, <1>7, <3>2 DEF EndpointsDistinct
    <3>3. CASE i = n /\ j = m + 1
      <4>1. PrimaryEndpoints(a) \subseteq Endpoints(a)
        BY DEF Endpoints
      <4>2. Apart(Endpoints(a), WorkerEndpoints(w))
        BY <1>2, <2>1
      <4> QED BY <4>1, <4>2, <3>3, <1>5, <1>7 DEF Apart
    <3>4. i = n => j \in 1..m \/ j = m + 1
      BY <1>3, <1>5, <1>7
    <3> QED BY <3>1, <3>2, <3>3, <3>4
  <2>4. ASSUME NEW i \in 1..n,
               NEW j \in 1..Len(authorities'[i].workers),
               NEW l \in 1..Len(authorities'[i].workers), j # l
        PROVE  Apart(WorkerEndpoints(authorities'[i].workers[j]),
                     WorkerEndpoints(authorities'[i].workers[l]))
    <3>1. CASE i # n
      BY <2>4, <3>1, <1>7 DEF EndpointsDistinct
    <3>2. CASE i = n /\ j \in 1..m /\ l \in 1..m
      BY <1>2, <1>5, <1>7, <2>4, <3>2 DEF EndpointsDistinct
    <3>3. ASSUME NEW k \in 1..m PROVE Apart(WorkerEndpoints(a.workers[k]), WorkerEndpoints(w))
      <4>1. WorkerEndpoints(a.workers[k]) \subseteq Endpoints(a)
        BY WorkersAreEndpoints
      <4>2. Apart(Endpoints(a), WorkerEndpoints(w))
        BY <1>2, <2>1
      <4> QED BY <4>1, <4>2 DEF Apart
    <3>4. CASE i = n /\ j = m + 1 /\ l \in 1..m
      BY <3>3, <3>4, <1>5, <1>7 DEF Apart
    <3>5. CASE i = n /\ l = m + 1 /\ j \in 1..m
      BY <3>3, <3>5, <1>5, <1>7 DEF Apart
    <3>6. i = n => (j \in 1..m \/ j = m + 1) /\ (l \in 1..m \/ l = m + 1)
      BY <1>3, <1>5, <1>7
    <3> QED BY <2>4, <3>1, <3>2, <3>4, <3>5, <3>6
  <2>5. ASSUME NEW i \in 1..n PROVE IsInjective(PrimaryList(authorities'[i]))
    <3>1. CASE i # n
      BY <3>1, <1>7 DEF EndpointsDistinct
    <3>2. CASE i = n
      BY <3>2, <1>2, <1>5, <1>7 DEF EndpointsDistinct
    <3> QED BY <3>1, <3>2
  <2>6. ASSUME NEW i \in 1..n, NEW j \in 1..Len(authorities'[i].workers)
        PROVE  IsInjective(WorkerList(authorities'[i].workers[j]))
    <3>1. CASE i # n
      BY <2>6, <3>1, <1>7 DEF EndpointsDistinct
    <3>2. CASE i = n /\ j \in 1..m
      BY <1>2, <1>5, <1>7, <3>2 DEF EndpointsDistinct
    <3>3. CASE i = n /\ j = m + 1
      BY <3>3, <1>4, <1>5, <1>7
    <3>4. i = n => j \in 1..m \/ j = m + 1
      BY <1>3, <1>5, <1>7
    <3> QED BY <3>1, <3>2, <3>3, <3>4
  <2> QED BY <2>2, <2>3, <2>4, <2>5, <2>6, <1>7 DEF EndpointsDistinct
<1>13. Started' /\ EnginesHaveTheirApp'
  BY <1>6 DEF Started, EnginesHaveTheirApp, processes
<1> QED BY <1>10, <1>11, <1>12, <1>13

-----------------------------------------------------------------------------
(* Two applications never listen at one address: the one found at the       *)
(* address of node i is the one of node i.                                  *)
LEMMA OwnAddress ==
  ASSUME LocalInv, NEW i \in 1..Size, i <= primaries, NEW k \in ListenersAt(AppAddress(i))
  PROVE  k = i
<1> USE DEF LocalInv
<1>1. /\ k \in listening /\ k \in 1..Size
      /\ authorities[k].api_abci = authorities[i].api_abci
  BY DEF ListenersAt, AppAddress, TypeOK
<1>2. Len(authorities) = Size
  BY <1>1 DEF Started, TypeOK
<1>3. /\ authorities[k].api_abci \in Endpoints(authorities[k])
      /\ authorities[i].api_abci \in Endpoints(authorities[i])
  BY AbciIsEndpoint
<1>4. k # i => Apart(Endpoints(authorities[k]), Endpoints(authorities[i]))
  BY <1>1, <1>2 DEF EndpointsDistinct
<1> QED BY <1>1, <1>3, <1>4 DEF Apart

(* The steps of run and of the processes leave the committee as it is.      *)
LEMMA CommitteeKept ==
  ASSUME LocalInv, UNCHANGED <<port, authorities>>
  PROVE  Allotted' /\ EndpointsDistinct'
BY DEF LocalInv, Allotted, EndpointsDistinct

LEMMA RunLocalInv ==
  ASSUME LocalInv,
         \/ StartApps \/ StartApp \/ SleepOne \/ StartPrimary \/ StartWorker
         \/ KillNodes \/ Interrupt
  PROVE  LocalInv'
<1> USE TestbedAssumption DEF LocalInv
<1>1. Good \in Nat /\ Good <= Size
  BY DEF Good
<1>2. UNCHANGED <<port, authorities>>
  BY DEF StartApps, StartApp, SleepOne, StartPrimary, StartWorker, KillNodes,
         Interrupt
<1>3. Allotted' /\ EndpointsDistinct'
  BY <1>2, CommitteeKept
<1>4. CASE StartApps \/ SleepOne
  <2>1. UNCHANGED processes /\ phase' \in {"apps", "primaries"} /\ Len(authorities') = Size
    BY <1>4 DEF StartApps, SleepOne, Started, Current
  <2> QED BY <1>2, <1>3, <2>1 DEF TypeOK, Started, EnginesHaveTheirApp, processes
<1>5. CASE StartApp \/ StartPrimary \/ StartWorker
  <2>1. /\ UNCHANGED <<listening, engine, phase>> /\ phase \in {"apps", "primaries"}
        /\ apps' \in Nat /\ primaries' \in Nat /\ workers' \in Nat
        /\ apps' <= Size /\ primaries' <= Size
    BY <1>1, <1>5, SMTT(30) DEF StartApp, StartPrimary, StartWorker, TypeOK, Started
  <2> QED BY <1>2, <1>3, <2>1 DEF TypeOK, Started, EnginesHaveTheirApp
<1>6. CASE KillNodes
  BY <1>2, <1>3, <1>6
     DEF KillNodes, NoProcess, TypeOK, Started, EnginesHaveTheirApp, NoApp
<1>7. CASE Interrupt
  BY <1>2, <1>3, <1>7
     DEF Interrupt, TypeOK, Started, EnginesHaveTheirApp, processes
<1> QED BY <1>4, <1>5, <1>6, <1>7

(* A new run has no committee and no process yet.                           *)
LEMMA TaskLocalInv == ASSUME LocalInv, LocalTask PROVE LocalInv'
<1> USE TestbedAssumption
<1>1. /\ phase' = "committee" /\ port' = BasePort /\ authorities' = << >>
      /\ apps' = 0 /\ primaries' = 0 /\ workers' = 0 /\ listening' = {}
      /\ engine' = [i \in 1..Size |-> NoApp]
  BY DEF LocalTask, NoProcess
<1>2. authorities' \in Seq(Authority) /\ Len(authorities') = 0
  BY <1>1
<1> QED BY <1>1, <1>2
           DEF LocalInv, TypeOK, Allotted, EndpointsDistinct, Started,
               EnginesHaveTheirApp, NoApp

LEMMA ProcessLocalInv ==
  ASSUME LocalInv, NEW i \in 1..Size, Listens(i) \/ Connects(i) \/ ConnectFails(i)
  PROVE  LocalInv'
<1> USE TestbedAssumption DEF LocalInv
<1>1. UNCHANGED <<port, authorities, phase, apps, primaries, workers>>
  BY DEF Listens, Connects, ConnectFails
<1>2. Allotted' /\ EndpointsDistinct'
  BY <1>1, CommitteeKept
<1>3. CASE Listens(i)
  <2>1. listening' \in SUBSET (1..Size) /\ UNCHANGED engine /\ i <= apps
    BY <1>3 DEF Listens, TypeOK
  <2>2. phase # "committee" /\ Len(authorities) = Size
    BY <2>1 DEF Started, TypeOK
  <2> QED BY <1>1, <1>2, <2>1, <2>2 DEF TypeOK, Started, EnginesHaveTheirApp
<1>4. CASE Connects(i)
  <2>1. i <= primaries /\ UNCHANGED listening
    BY <1>4 DEF Connects
  <2>2. engine' = [engine EXCEPT ![i] = i]
    BY <1>4, <2>1, OwnAddress, ZenonT(30) DEF Connects
  <2>3. engine' \in [1..Size -> 0..Size + 1]
    BY <2>2 DEF TypeOK
  <2>4. EnginesHaveTheirApp'
    BY <2>2 DEF EnginesHaveTheirApp, TypeOK
  <2> QED BY <1>1, <1>2, <2>1, <2>3, <2>4 DEF TypeOK, Started
<1>5. CASE ConnectFails(i)
  <2>1. engine' = [engine EXCEPT ![i] = Dead] /\ UNCHANGED listening
    BY <1>5 DEF ConnectFails
  <2>2. engine' \in [1..Size -> 0..Size + 1]
    BY <2>1 DEF TypeOK, Dead
  <2>3. EnginesHaveTheirApp'
    BY <2>1 DEF EnginesHaveTheirApp, TypeOK
  <2> QED BY <1>1, <1>2, <2>1, <2>2, <2>3 DEF TypeOK, Started
<1> QED BY <1>3, <1>4, <1>5

(* LocalInv is inductive.                                                   *)
LEMMA LocalInductive == Spec => []LocalInv
<1>1. ASSUME LocalInv, [Next]_vars PROVE LocalInv'
  <2>1. CASE Next
    BY <1>1, <2>1, TaskLocalInv, AddPrimaryLocalInv, AddWorkerLocalInv, RunLocalInv,
       ProcessLocalInv DEF Next
  <2>2. CASE UNCHANGED vars
    BY <1>1, <2>2
       DEF LocalInv, TypeOK, Allotted, EndpointsDistinct, Started, EnginesHaveTheirApp, vars
  <2> QED BY <1>1, <2>1, <2>2
<1> QED BY InitLocalInv, <1>1, PTL DEF Spec

(* Every variable keeps its type.                                           *)
THEOREM LocalTypeCorrect == Spec => []TypeOK
BY LocalInductive, PTL DEF LocalInv

(* Committee.__init__ gives no port to two endpoints.                       *)
THEOREM EndpointsApart == Spec => []EndpointsDistinct
BY LocalInductive, PTL DEF LocalInv

(* Engine::new connects a node to its own application or panics, whatever   *)
(* the order in which the processes that run starts boot.                   *)
THEOREM EnginesOwn == Spec => []EnginesHaveTheirApp
BY LocalInductive, PTL DEF LocalInv

-----------------------------------------------------------------------------
(***************************************************************************)
(* The remote testbed: the invariant of the tasks.                         *)
(***************************************************************************)
States == {"none", "pending", "running", "stopping", "stopped", "shutting-down"}

Types ==
  /\ status \in [Machine -> States]
  /\ group \in [Region -> {"none", "closed", "open"}]
  /\ next \in Nat \ {0}
  /\ sessions = [m \in Machine |-> sessions[m]]

(* Which task has which steps.                                              *)
OfCreate == {"group", "authorize", "run", "boot"}

OfDestroy == {"list_live", "terminate", "gone", "delete"}

OfStop == {"list_active", "stop"}

Quiet == {"list_halted", "start", "install", "select", "update", "config", "upload",
          "kill_run", "clients"}

Steps ==
  /\ step \in OfCreate \cup OfDestroy \cup OfStop \cup Quiet
                \cup {"none", "hosts", "kill", "end"}
  /\ task = "none" <=> step = "none"
  /\ task # "none" => said = "nothing"
  /\ step \in OfCreate => task = "create" /\ arg \in Nat \ {0}
  /\ step \in OfDestroy => task = "destroy"
  /\ step \in OfStop => task = "stop"
  /\ step \in Quiet \cup {"hosts"} => task \in {"start", "remote", "install", "kill"}
  /\ step \in Quiet => task # "kill"
  /\ step = "hosts" => task \in {"install", "kill"}
  /\ step = "kill" => task = "kill"
  /\ step = "end" => task # "create"
  /\ step \in {"group", "authorize", "run", "terminate", "delete", "start", "stop"} =>
       next <= Regions
  /\ step \in {"list_live", "list_halted", "list_active", "gone"} => next = 1

AllGroups == \A r \in Region : group[r] # "none"

GroupsFirst == (\E m \in Machine : status[m] # "none") => AllGroups

AwakeOnly ==
  \A m \in Machine : status[m] \in {"none", "pending", "stopped"} => sessions[m] = {}

Up(r) == \E m \in In(r) : status[m] \in {"pending", "running"}

(* What kill leaves in tmux on a machine.                                   *)
Killed(rest) == rest = {} \/ (inside /\ \E c \in rest : rest = {c})

Silent(m) == Killed(sessions[m]) \/ status[m] \in {"stopping", "shutting-down"}

OnTheWay ==
  /\ step = "group" => \A r \in Region : r < next => group[r] # "none"
  /\ step = "authorize" => \A r \in Region : r <= next => group[r] # "none"
  /\ step \in {"run", "boot", "terminate", "gone"} => AllGroups
  /\ step = "run" => \A r \in Region : r < next => Up(r)
  /\ step = "boot" => \A r \in Region : Up(r)
  /\ step = "terminate" =>
       \A m \in Machine : \/ status[m] \in {"none", "shutting-down"}
                          \/ m \in ids /\ m[1] >= next
  /\ step = "gone" => \A m \in Machine : status[m] \in {"none", "shutting-down"}
  /\ step = "delete" =>
       /\ \A m \in Machine : status[m] = "none"
       /\ \A r \in Region : r >= next => group[r] # "none"
  /\ step = "end" /\ task = "destroy" => \A m \in Machine : status[m] = "none"
  /\ step = "stop" =>
       \A m \in Machine : \/ status[m] \notin {"pending", "running"}
                          \/ m \in ids /\ m[1] >= next
  /\ step = "end" /\ task = "stop" =>
       \A m \in Machine : status[m] \notin {"pending", "running"}
  /\ step = "kill" => \A m \in Machine : m \in ids \/ Silent(m)
  /\ step = "end" /\ task = "kill" => \A m \in Machine : Silent(m)

Holds(c) ==
  /\ c = "create" =>
       /\ \A m \in Machine : status[m] # "pending"
       /\ \A r \in Region : \E m \in In(r) : status[m] = "running"
  /\ c = "destroy" => \A m \in Machine : status[m] \in {"none", "shutting-down"}
  /\ c = "stop" => \A m \in Machine : status[m] \notin {"pending", "running"}
  /\ c = "kill" => \A m \in Machine : Silent(m)

Claimed == said \in Claims \cup {"nothing"} /\ Holds(said)

IInv == Types /\ Steps /\ GroupsFirst /\ AwakeOnly /\ OnTheWay /\ Claimed

-----------------------------------------------------------------------------
LEMMA Machines ==
  ASSUME NEW m \in Machine
  PROVE  m[1] \in Region /\ m \in In(m[1]) /\ \A r \in Region : m \in In(r) => m[1] = r
BY DEF Machine, In

LEMMA Advancing ==
  ASSUME Types, next <= Regions, NEW again, NEW after, Advance(again, after)
  PROVE  /\ \/ next < Regions /\ next' = next + 1 /\ step' = again
            \/ next = Regions /\ next' = 1 /\ step' = after
         /\ UNCHANGED <<task, ids, arg, said, tasks>>
         /\ next' \in Nat \ {0} /\ next' <= Regions
         /\ next \in Nat \ {0} /\ Regions \in Nat
BY InstancesAssumption DEF Types, Advance

(* A task that ends, with a claim that holds.                               *)
LEMMA EndsIInv ==
  ASSUME IInv, NEW c \in Claims \cup {"nothing"}, Holds(c), Ends(c),
         UNCHANGED <<cloud, sessions>>, c = "kill" => UNCHANGED inside
  PROVE  IInv'
<1>1. step' = "none" /\ task' = "none" /\ said' = c /\ next' = 1
  BY DEF Ends
<1>2. UNCHANGED <<status, group, sessions>>
  BY DEF cloud
<1>3. Types' /\ GroupsFirst' /\ AwakeOnly'
  BY <1>1, <1>2 DEF IInv, Types, GroupsFirst, AwakeOnly, AllGroups
<1>4. Steps' /\ OnTheWay'
  BY <1>1 DEF Steps, OnTheWay, OfCreate, OfDestroy, OfStop, Quiet
<1>5. Claimed'
  BY <1>1, <1>2 DEF Claimed, Holds, Silent, Killed
<1> QED BY <1>3, <1>4, <1>5 DEF IInv

LEMMA NothingHolds == Holds("nothing")
BY DEF Holds

LEMMA GivesUp ==
  ASSUME IInv, Ends("nothing"), UNCHANGED <<cloud, sessions>>
  PROVE  IInv'
BY EndsIInv, NothingHolds

(* While a task runs, nothing is claimed.                                   *)
LEMMA Busy ==
  ASSUME IInv, step # "none"
  PROVE  task # "none" /\ said = "nothing"
BY DEF IInv, Steps

LEMMA NoClaim == ASSUME said' = "nothing" PROVE Claimed'
BY DEF Claimed, Holds

LEMMA BeginIInv ==
  ASSUME IInv, NEW t, NEW first, NEW n, Begin(t, first, n), UNCHANGED sessions,
         \/ first = "group" /\ t = "create" /\ n \in Nat \ {0}
         \/ first = "list_live" /\ t = "destroy"
         \/ first = "list_halted" /\ t = "start"
         \/ first = "list_active" /\ t = "stop"
         \/ first = "end" /\ t = "info"
         \/ first = "hosts" /\ t \in {"install", "kill"}
         \/ first = "select" /\ t = "remote"
  PROVE  IInv'
<1>1. /\ step' = first /\ task' = t /\ said' = "nothing" /\ next' = 1 /\ arg' = n
      /\ UNCHANGED <<status, group, sessions>>
  BY DEF Begin, cloud
<1>2. Types' /\ GroupsFirst' /\ AwakeOnly'
  BY <1>1 DEF IInv, Types, GroupsFirst, AwakeOnly, AllGroups
<1>3. Steps'
  BY <1>1, InstancesAssumption DEF Steps, OfCreate, OfDestroy, OfStop, Quiet
<1>4. OnTheWay'
  BY <1>1 DEF OnTheWay, Region
<1> QED BY <1>1, <1>2, <1>3, <1>4, NoClaim DEF IInv

-----------------------------------------------------------------------------
(* create: groups of the regions behind `next` are there, then machines.    *)
LEMMA CreateGroupIInv == ASSUME IInv, CreateGroup, UNCHANGED sessions PROVE IInv'
<1>1. /\ step = "group" /\ step' = "authorize" /\ next' = next
      /\ group' = [group EXCEPT ![next] = "closed"]
      /\ UNCHANGED <<status, task, ids, arg, said>>
  BY DEF CreateGroup
<1>2. next <= Regions /\ next \in Nat \ {0} /\ next \in Region
  BY <1>1, InstancesAssumption DEF IInv, Steps, Types, Region
<1>3. Types' /\ AwakeOnly'
  BY <1>1, <1>2 DEF IInv, Types, AwakeOnly
<1>4. Steps'
  BY <1>1, <1>2 DEF IInv, Steps, OfCreate, OfDestroy, OfStop, Quiet
<1>5. \A r \in Region : group'[r] # "none" <=> group[r] # "none" \/ r = next
  BY <1>1, <1>2 DEF IInv, Types
<1>6. GroupsFirst'
  BY <1>1, <1>5 DEF IInv, GroupsFirst, AllGroups
<1>7. \A r \in Region : r <= next => r < next \/ r = next
  BY <1>2 DEF Region
<1>8. OnTheWay'
  BY <1>1, <1>5, <1>7 DEF IInv, OnTheWay
<1>9. Claimed'
  BY <1>1, Busy, NoClaim
<1> QED BY <1>3, <1>4, <1>6, <1>8, <1>9 DEF IInv

(* The group of `next` is there: on to the next region, or to the machines. *)
LEMMA GroupDone ==
  ASSUME IInv, step \in {"group", "authorize"}, Advance("group", "run"),
         UNCHANGED <<status, sessions>>,
         group' \in [Region -> {"none", "closed", "open"}],
         \A r \in Region : group[r] # "none" => group'[r] # "none",
         \A r \in Region : r <= next => group'[r] # "none"
  PROVE  IInv'
<1>1. /\ next <= Regions /\ task = "create" /\ arg \in Nat \ {0} /\ said = "nothing"
      /\ Types
  BY DEF IInv, Steps, OfCreate, OfDestroy, OfStop, Quiet
<1>2. /\ \/ next < Regions /\ next' = next + 1 /\ step' = "group"
         \/ next = Regions /\ next' = 1 /\ step' = "run"
      /\ UNCHANGED <<task, ids, arg, said, tasks>>
      /\ next' \in Nat \ {0} /\ next' <= Regions
      /\ next \in Nat \ {0} /\ Regions \in Nat
  BY <1>1, Advancing
<1>3. Types' /\ AwakeOnly'
  BY <1>2 DEF IInv, Types, AwakeOnly
<1>4. Steps'
  BY <1>1, <1>2 DEF Steps, OfCreate, OfDestroy, OfStop, Quiet
<1>5. GroupsFirst'
  BY DEF IInv, GroupsFirst, AllGroups
<1>6. OnTheWay'
  <2>1. CASE next < Regions
    <3>1. \A r \in Region : r < next' => r <= next
      BY <1>2, <2>1 DEF Region
    <3> QED BY <1>2, <2>1, <3>1 DEF OnTheWay
  <2>2. CASE next = Regions
    <3>1. \A r \in Region : r <= next /\ ~(r < next')
      BY <1>2, <2>2 DEF Region
    <3>2. AllGroups'
      BY <3>1 DEF AllGroups
    <3> QED BY <1>2, <2>2, <3>1, <3>2 DEF OnTheWay
  <2> QED BY <1>2, <2>1, <2>2
<1>7. Claimed'
  BY <1>1, <1>2, NoClaim
<1> QED BY <1>3, <1>4, <1>5, <1>6, <1>7 DEF IInv

LEMMA AuthorizeIInv == ASSUME IInv, Authorize, UNCHANGED sessions PROVE IInv'
<1>1. /\ step = "authorize" /\ Advance("group", "run") /\ UNCHANGED status
      /\ group' = [group EXCEPT ![next] = "open"]
  BY DEF Authorize
<1>2. /\ group' \in [Region -> {"none", "closed", "open"}]
      /\ \A r \in Region : group[r] # "none" => group'[r] # "none"
  BY <1>1 DEF IInv, Types
<1>3. \A r \in Region : r <= next => group[r] # "none"
  BY <1>1 DEF IInv, OnTheWay
<1> QED BY <1>1, <1>2, <1>3, GroupDone

LEMMA DuplicateGroupIInv == ASSUME IInv, DuplicateGroup, UNCHANGED sessions PROVE IInv'
<1>1. /\ step = "group" /\ Advance("group", "run") /\ UNCHANGED <<status, group>>
      /\ group[next] # "none"
  BY DEF DuplicateGroup, cloud
<1>2. \A r \in Region : r <= next => r < next \/ r = next
  BY DEF IInv, Types, Region
<1>3. \A r \in Region : r <= next => group[r] # "none"
  BY <1>1, <1>2 DEF IInv, OnTheWay
<1> QED BY <1>1, <1>3, GroupDone DEF IInv, Types

LEMMA RunInstancesIInv == ASSUME IInv, RunInstances, UNCHANGED sessions PROVE IInv'
<1>1. PICK S \in SUBSET Free(next) : Cardinality(S) = arg /\ status' = Become(S, "pending")
  BY DEF RunInstances
<1>2. /\ step = "run" /\ Advance("run", "boot") /\ UNCHANGED group
      /\ next <= Regions /\ task = "create" /\ arg \in Nat \ {0} /\ said = "nothing"
      /\ Types
  BY DEF RunInstances, IInv, Steps, OfCreate, OfDestroy, OfStop, Quiet
<1>3. /\ \/ next < Regions /\ next' = next + 1 /\ step' = "run"
         \/ next = Regions /\ next' = 1 /\ step' = "boot"
      /\ UNCHANGED <<task, ids, arg, said, tasks>>
      /\ next' \in Nat \ {0} /\ next' <= Regions
      /\ next \in Nat \ {0} /\ Regions \in Nat
  BY <1>2, Advancing
<1>4. S \subseteq In(next) /\ S \subseteq Machine /\ \A m \in S : status[m] = "none"
  BY DEF Free, In
<1>5. \A m \in Machine : status'[m] = IF m \in S THEN "pending" ELSE status[m]
  BY <1>1 DEF Become
<1>6. PICK s \in S : TRUE
  BY <1>1, <1>2, FS_EmptySet
<1>7. Types'
  BY <1>1, <1>2, <1>3 DEF Types, Become, States
<1>8. Steps'
  BY <1>2, <1>3 DEF Steps, OfCreate, OfDestroy, OfStop, Quiet
<1>9. AllGroups /\ AllGroups'
  BY <1>2 DEF IInv, OnTheWay, AllGroups
<1>10. AwakeOnly'
  BY <1>4, <1>5 DEF IInv, AwakeOnly
<1>11. \A r \in Region : Up(r) => Up(r)'
  BY <1>5 DEF Up, In
<1>12. \A r \in Region : r = next => Up(r)'
  BY <1>4, <1>5, <1>6 DEF Up, In
<1>13. OnTheWay'
  <2>1. \A r \in Region : r < next => Up(r)'
    BY <1>2, <1>11 DEF IInv, OnTheWay
  <2>2. CASE next < Regions
    <3>1. \A r \in Region : r < next' => r < next \/ r = next
      BY <1>3, <2>2 DEF Region
    <3>2. \A r \in Region : r < next' => Up(r)'
      BY <3>1, <2>1, <1>12
    <3> QED BY <1>3, <2>2, <3>2, <1>9 DEF OnTheWay
  <2>3. CASE next = Regions
    <3>1. \A r \in Region : r < next \/ r = next
      BY <1>3, <2>3 DEF Region
    <3>2. \A r \in Region : Up(r)'
      BY <3>1, <2>1, <1>12
    <3> QED BY <1>3, <2>3, <3>2, <1>9 DEF OnTheWay
  <2> QED BY <1>3, <2>2, <2>3
<1> QED BY <1>2, <1>3, <1>7, <1>8, <1>9, <1>10, <1>13, NoClaim DEF IInv, GroupsFirst

LEMMA AwaitBootIInv == ASSUME IInv, AwaitBoot, UNCHANGED sessions PROVE IInv'
<1>1. step = "boot" /\ task = "create" /\ Ends("create") /\ UNCHANGED cloud
  BY DEF AwaitBoot, IInv, Steps, OfCreate
<1>2. \A m \in Machine : status[m] # "pending"
  BY DEF AwaitBoot, WithStatus
<1>3. \A r \in Region : \E m \in In(r) : m \in Machine /\ status[m] \in {"pending", "running"}
  BY <1>1 DEF IInv, OnTheWay, Up, In
<1>4. Holds("create")
  BY <1>2, <1>3 DEF Holds
<1> QED BY <1>1, <1>4, EndsIInv DEF Claims

-----------------------------------------------------------------------------
(* destroy: what it listed and all it did not list go before the groups do. *)
LEMMA ListLiveIInv == ASSUME IInv, ListLive, UNCHANGED sessions PROVE IInv'
<1>1. step = "list_live" /\ task = "destroy"
  BY DEF ListLive, IInv, Steps, OfDestroy
<1>2. CASE Live = {}
  <2>1. \A m \in Machine : status[m] \in {"none", "shutting-down"}
    BY <1>2 DEF Live, WithStatus, IInv, Types, States
  <2>2. Holds("destroy")
    BY <2>1 DEF Holds
  <2>3. Ends("destroy") /\ UNCHANGED cloud
    BY <1>1, <1>2 DEF ListLive
  <2> QED BY <2>2, <2>3, EndsIInv DEF Claims
<1>3. CASE Live # {}
  <2>1. /\ ids' = Live /\ step' = "terminate"
        /\ UNCHANGED <<status, group, task, next, arg, said>>
    BY <1>3 DEF ListLive, Lists, Live, cloud
  <2>2. PICK m \in Machine : status[m] # "none"
    BY <1>3 DEF Live, WithStatus
  <2>3. AllGroups
    BY <2>2 DEF IInv, GroupsFirst
  <2>4. next = 1 /\ 1 <= Regions
    BY <1>1, InstancesAssumption DEF IInv, Steps
  <2>5. \A k \in Machine : status[k] \in {"none", "shutting-down"} \/ k \in Live
    BY DEF Live, WithStatus, IInv, Types, States
  <2>6. \A k \in Machine : k[1] >= 1
    BY Machines DEF Region
  <2>7. Types' /\ GroupsFirst' /\ AwakeOnly'
    BY <2>1 DEF IInv, Types, GroupsFirst, AwakeOnly, AllGroups
  <2>8. Steps'
    BY <1>1, <2>1, <2>4 DEF IInv, Steps, OfCreate, OfDestroy, OfStop, Quiet
  <2>9. OnTheWay'
    BY <2>1, <2>3, <2>4, <2>5, <2>6 DEF OnTheWay, AllGroups
  <2> QED BY <1>1, <2>1, <2>7, <2>8, <2>9, Busy, NoClaim DEF IInv
<1> QED BY <1>2, <1>3

(* A region whose listed machines are dealt with.                           *)
LEMMA TerminatedIInv ==
  ASSUME IInv, step = "terminate", Advance("terminate", "gone"),
         UNCHANGED <<group, sessions>>,
         status' = Become(ids \cap In(next), "shutting-down")
  PROVE  IInv'
<1>1. /\ next <= Regions /\ task = "destroy" /\ said = "nothing" /\ Types /\ AllGroups
  BY DEF IInv, Steps, OfCreate, OfDestroy, OfStop, Quiet, OnTheWay
<1>2. /\ \/ next < Regions /\ next' = next + 1 /\ step' = "terminate"
         \/ next = Regions /\ next' = 1 /\ step' = "gone"
      /\ UNCHANGED <<task, ids, arg, said, tasks>>
      /\ next' \in Nat \ {0} /\ next' <= Regions
      /\ next \in Nat \ {0} /\ Regions \in Nat
  BY <1>1, Advancing
<1>3. \A m \in Machine :
        status'[m] = IF m \in ids \cap In(next) THEN "shutting-down" ELSE status[m]
  BY DEF Become
<1>4. \A m \in Machine : m[1] \in Region /\ (m \in In(next) <=> m[1] = next)
  BY Machines DEF In
<1>5. Types'
  BY <1>1, <1>2 DEF Types, Become, States
<1>6. Steps'
  BY <1>1, <1>2 DEF Steps, OfCreate, OfDestroy, OfStop, Quiet
<1>7. GroupsFirst' /\ AwakeOnly' /\ AllGroups'
  BY <1>1, <1>3 DEF IInv, GroupsFirst, AwakeOnly, AllGroups
<1>8. \A m \in Machine : \/ status'[m] \in {"none", "shutting-down"}
                         \/ m \in ids /\ m[1] > next
  <2> SUFFICES ASSUME NEW m \in Machine, status'[m] \notin {"none", "shutting-down"}
               PROVE  m \in ids /\ m[1] > next
    OBVIOUS
  <2>1. status[m] \notin {"none", "shutting-down"} /\ ~(m \in ids \cap In(next))
    BY <1>3
  <2>2. m \in ids /\ m[1] >= next
    BY <2>1 DEF IInv, OnTheWay
  <2> QED BY <1>2, <1>4, <2>1, <2>2 DEF Region
<1>9. OnTheWay'
  <2>1. CASE next < Regions
    <3>1. \A m \in Machine : m[1] > next => m[1] >= next'
      BY <1>2, <1>4, <2>1 DEF Region
    <3> QED BY <1>2, <1>7, <1>8, <2>1, <3>1 DEF OnTheWay
  <2>2. CASE next = Regions
    <3>1. \A m \in Machine : ~(m[1] > next)
      BY <1>2, <1>4, <2>2 DEF Region
    <3> QED BY <1>2, <1>7, <1>8, <2>2, <3>1 DEF OnTheWay
  <2> QED BY <1>2, <2>1, <2>2
<1> QED BY <1>1, <1>2, <1>5, <1>6, <1>7, <1>9, NoClaim DEF IInv

LEMMA TerminateInstancesIInv ==
  ASSUME IInv, TerminateInstances, UNCHANGED sessions PROVE IInv'
BY TerminatedIInv DEF TerminateInstances

LEMMA AwaitGoneIInv == ASSUME IInv, AwaitGone, UNCHANGED sessions PROVE IInv'
<1>1. /\ step = "gone" /\ step' = "delete" /\ task = "destroy" /\ next = 1 /\ 1 <= Regions
      /\ UNCHANGED <<status, group, task, next, ids, arg, said>>
  BY InstancesAssumption DEF AwaitGone, IInv, Steps, OfDestroy, cloud
<1>2. \A m \in Machine : status[m] = "none"
  BY <1>1 DEF AwaitGone, WithStatus, IInv, OnTheWay
<1>3. AllGroups
  BY <1>1 DEF IInv, OnTheWay
<1>4. Types' /\ GroupsFirst' /\ AwakeOnly'
  BY <1>1 DEF IInv, Types, GroupsFirst, AwakeOnly, AllGroups
<1>5. Steps'
  BY <1>1 DEF IInv, Steps, OfCreate, OfDestroy, OfStop, Quiet
<1>6. OnTheWay'
  BY <1>1, <1>2, <1>3 DEF OnTheWay, AllGroups
<1> QED BY <1>1, <1>4, <1>5, <1>6, Busy, NoClaim DEF IInv

LEMMA DeleteGroupIInv == ASSUME IInv, DeleteGroup, UNCHANGED sessions PROVE IInv'
<1>1. /\ step = "delete" /\ Advance("delete", "end") /\ UNCHANGED status
      /\ group' = [group EXCEPT ![next] = "none"]
      /\ next <= Regions /\ task = "destroy" /\ said = "nothing" /\ Types
  BY DEF DeleteGroup, IInv, Steps, OfDestroy
<1>2. /\ \/ next < Regions /\ next' = next + 1 /\ step' = "delete"
         \/ next = Regions /\ next' = 1 /\ step' = "end"
      /\ UNCHANGED <<task, ids, arg, said, tasks>>
      /\ next' \in Nat \ {0} /\ next' <= Regions
      /\ next \in Nat \ {0} /\ Regions \in Nat
  BY <1>1, Advancing
<1>3. /\ \A m \in Machine : status'[m] = "none"
      /\ \A r \in Region : r >= next => group[r] # "none"
  BY <1>1 DEF IInv, OnTheWay
<1>4. Types' /\ GroupsFirst' /\ AwakeOnly'
  BY <1>1, <1>2, <1>3 DEF IInv, Types, GroupsFirst, AwakeOnly
<1>5. Steps'
  BY <1>1, <1>2 DEF Steps, OfCreate, OfDestroy, OfStop, Quiet
<1>6. OnTheWay'
  <2>1. CASE next < Regions
    <3>1. \A r \in Region : r >= next' => r >= next /\ r # next
      BY <1>2, <2>1 DEF Region
    <3>2. \A r \in Region : r >= next' => group'[r] # "none"
      BY <1>1, <1>3, <3>1 DEF Types
    <3> QED BY <1>2, <1>3, <2>1, <3>2 DEF OnTheWay
  <2>2. CASE next = Regions
    BY <1>1, <1>2, <1>3, <2>2 DEF OnTheWay
  <2> QED BY <1>2, <2>1, <2>2
<1> QED BY <1>1, <1>2, <1>4, <1>5, <1>6, NoClaim DEF IInv

-----------------------------------------------------------------------------
(* stop: what it listed and all it did not list halts.                      *)
LEMMA ListActiveIInv == ASSUME IInv, ListActive, UNCHANGED sessions PROVE IInv'
<1>1. /\ ids' = WithStatus({"pending", "running"}) /\ step = "list_active" /\ step' = "stop"
      /\ task = "stop" /\ next = 1 /\ 1 <= Regions
      /\ UNCHANGED <<status, group, task, next, arg, said>>
  BY InstancesAssumption DEF ListActive, Lists, cloud, IInv, Steps, OfStop
<1>2. Types' /\ GroupsFirst' /\ AwakeOnly'
  BY <1>1 DEF IInv, Types, GroupsFirst, AwakeOnly, AllGroups
<1>3. Steps'
  BY <1>1 DEF IInv, Steps, OfCreate, OfDestroy, OfStop, Quiet
<1>4. \A m \in Machine : m[1] >= 1
  BY Machines DEF Region
<1>5. \A m \in Machine : status[m] \notin {"pending", "running"} \/ m \in ids'
  BY <1>1 DEF WithStatus
<1>6. OnTheWay'
  BY <1>1, <1>4, <1>5 DEF OnTheWay
<1> QED BY <1>1, <1>2, <1>3, <1>6, Busy, NoClaim DEF IInv

LEMMA StoppedIInv ==
  ASSUME IInv, step = "stop", Advance("stop", "end"), UNCHANGED <<group, sessions>>,
         status' = Become(ids \cap In(next), "stopping"),
         \A m \in ids \cap In(next) : m \in Machine => status[m] = "running"
  PROVE  IInv'
<1>1. /\ next <= Regions /\ task = "stop" /\ said = "nothing" /\ Types
  BY DEF IInv, Steps, OfCreate, OfDestroy, OfStop, Quiet
<1>2. /\ \/ next < Regions /\ next' = next + 1 /\ step' = "stop"
         \/ next = Regions /\ next' = 1 /\ step' = "end"
      /\ UNCHANGED <<task, ids, arg, said, tasks>>
      /\ next' \in Nat \ {0} /\ next' <= Regions
      /\ next \in Nat \ {0} /\ Regions \in Nat
  BY <1>1, Advancing
<1>3. \A m \in Machine :
        status'[m] = IF m \in ids \cap In(next) THEN "stopping" ELSE status[m]
  BY DEF Become
<1>4. \A m \in Machine : m[1] \in Region /\ (m \in In(next) <=> m[1] = next)
  BY Machines DEF In
<1>5. Types'
  BY <1>1, <1>2 DEF Types, Become, States
<1>6. Steps'
  BY <1>1, <1>2 DEF Steps, OfCreate, OfDestroy, OfStop, Quiet
<1>7. GroupsFirst' /\ AwakeOnly'
  BY <1>3 DEF IInv, GroupsFirst, AwakeOnly, AllGroups
<1>8. \A m \in Machine : \/ status'[m] \notin {"pending", "running"}
                         \/ m \in ids /\ m[1] > next
  <2> SUFFICES ASSUME NEW m \in Machine, status'[m] \in {"pending", "running"}
               PROVE  m \in ids /\ m[1] > next
    OBVIOUS
  <2>1. status[m] \in {"pending", "running"} /\ ~(m \in ids \cap In(next))
    BY <1>3
  <2>2. m \in ids /\ m[1] >= next
    BY <2>1 DEF IInv, OnTheWay
  <2> QED BY <1>2, <1>4, <2>1, <2>2 DEF Region
<1>9. OnTheWay'
  <2>1. CASE next < Regions
    <3>1. \A m \in Machine : m[1] > next => m[1] >= next'
      BY <1>2, <1>4, <2>1 DEF Region
    <3> QED BY <1>2, <1>8, <2>1, <3>1 DEF OnTheWay
  <2>2. CASE next = Regions
    <3>1. \A m \in Machine : ~(m[1] > next)
      BY <1>2, <1>4, <2>2 DEF Region
    <3> QED BY <1>1, <1>2, <1>8, <2>2, <3>1 DEF OnTheWay
  <2> QED BY <1>2, <2>1, <2>2
<1> QED BY <1>1, <1>2, <1>5, <1>6, <1>7, <1>9, NoClaim DEF IInv

LEMMA StopInstancesIInv == ASSUME IInv, StopInstances, UNCHANGED sessions PROVE IInv'
<1>1. \A m \in ids \cap In(next) : status[m] = "running"
  BY DEF StopInstances, WithStatus
<1> QED BY <1>1, StoppedIInv DEF StopInstances

-----------------------------------------------------------------------------
(* A task that neither creates, destroys, stops nor kills: nothing is       *)
(* expected of its steps but that no client runs on a machine that is off.  *)
LEMMA QuietIInv ==
  ASSUME IInv, step \in Quiet \cup {"hosts"}, task # "kill",
         Types', AwakeOnly', UNCHANGED <<group, task, said>>,
         \A m \in Machine : status'[m] = "none" <=> status[m] = "none",
         step' \in Quiet \cup {"end"},
         step' = "start" => next' <= Regions,
         step' = "list_halted" => next' = 1
  PROVE  IInv'
<1>1. task \in {"start", "remote", "install"} /\ said = "nothing"
  BY DEF IInv, Steps, Quiet
<1>2. Steps'
  BY <1>1 DEF Steps, OfCreate, OfDestroy, OfStop, Quiet
<1>3. GroupsFirst'
  BY DEF IInv, GroupsFirst, AllGroups
<1>4. OnTheWay'
  BY <1>1 DEF OnTheWay, Quiet
<1> QED BY <1>1, <1>2, <1>3, <1>4, NoClaim DEF IInv

LEMMA ListHaltedIInv == ASSUME IInv, ListHalted, UNCHANGED sessions PROVE IInv'
<1>1. /\ step = "list_halted" /\ step' = "start" /\ next = 1 /\ 1 <= Regions
      /\ UNCHANGED <<status, group, task, next, said>>
  BY InstancesAssumption DEF ListHalted, Lists, cloud, IInv, Steps
<1>2. Types' /\ AwakeOnly'
  BY <1>1 DEF IInv, Types, AwakeOnly
<1>3. task # "kill"
  BY <1>1 DEF IInv, Steps, Quiet
<1> QED BY <1>1, <1>2, <1>3, QuietIInv DEF Quiet

LEMMA StartedIInv ==
  ASSUME IInv, step = "start", Advance("start", "end"), UNCHANGED <<group, sessions>>,
         NEW T, T \subseteq WithStatus({"stopped"}), status' = Become(T, "pending")
  PROVE  IInv'
<1>1. task # "kill" /\ next <= Regions /\ Types
  BY DEF IInv, Steps, Quiet
<1>2. /\ step' \in {"start", "end"} /\ UNCHANGED <<task, said>>
      /\ next' \in Nat \ {0} /\ next' <= Regions
  BY <1>1, Advancing
<1>3. \A m \in Machine : status'[m] = IF m \in T THEN "pending" ELSE status[m]
  BY DEF Become
<1>4. \A m \in T : status[m] = "stopped"
  BY DEF WithStatus
<1>5. Types'
  BY <1>1, <1>2 DEF Types, Become, States
<1>6. AwakeOnly'
  BY <1>3, <1>4 DEF IInv, AwakeOnly
<1> QED BY <1>1, <1>2, <1>3, <1>4, <1>5, <1>6, QuietIInv DEF Quiet

LEMMA StartInstancesIInv == ASSUME IInv, StartInstances, UNCHANGED sessions PROVE IInv'
BY StartedIInv DEF StartInstances

(* A region none of whose machines is listed is skipped.                    *)
LEMMA SkipRegionIInv == ASSUME IInv, SkipRegion, UNCHANGED sessions PROVE IInv'
<1>1. /\ ids \cap In(next) = {} /\ UNCHANGED <<status, group>>
      /\ \/ step = "terminate" /\ Advance("terminate", "gone")
         \/ step = "start" /\ Advance("start", "end")
         \/ step = "stop" /\ Advance("stop", "end")
  BY DEF SkipRegion, After, cloud
<1>2. \A s \in States : status' = Become({}, s)
  BY <1>1 DEF IInv, Types, Become
<1>3. status' = Become({}, "shutting-down") /\ status' = Become({}, "pending")
      /\ status' = Become({}, "stopping")
  BY <1>2 DEF States
<1>4. CASE step = "terminate"
  BY <1>1, <1>3, <1>4, TerminatedIInv
<1>5. CASE step = "start"
  BY <1>1, <1>3, <1>5, StartedIInv
<1>6. CASE step = "stop"
  BY <1>1, <1>3, <1>6, StoppedIInv
<1> QED BY <1>1, <1>4, <1>5, <1>6

LEMMA ReportsIInv == ASSUME IInv, Reports, UNCHANGED <<sessions, inside>> PROVE IInv'
<1>1. step = "end" /\ UNCHANGED cloud /\ task # "create"
  BY DEF Reports, IInv, Steps
<1>2. CASE task \in Claims
  <2>1. Ends(task)
    BY <1>2 DEF Reports
  <2>2. Holds(task)
    BY <1>1, <1>2 DEF Holds, IInv, OnTheWay, Claims
  <2> QED BY <1>1, <1>2, <2>1, <2>2, EndsIInv
<1>3. CASE task \notin Claims
  BY <1>1, <1>3, GivesUp DEF Reports
<1> QED BY <1>2, <1>3

LEMMA ManageIInv == ASSUME IInv, Manage, UNCHANGED bench PROVE IInv'
<1>1. UNCHANGED <<sessions, inside>>
  BY DEF bench, disks, targets
<1>2. CASE CallIsRefused \/ CallFails
  BY <1>1, <1>2, GivesUp DEF CallIsRefused, CallFails
<1> QED
  BY <1>1, <1>2, CreateGroupIInv, AuthorizeIInv, DuplicateGroupIInv, RunInstancesIInv,
     AwaitBootIInv, ListLiveIInv, ListHaltedIInv, ListActiveIInv, SkipRegionIInv,
     TerminateInstancesIInv, AwaitGoneIInv, DeleteGroupIInv, StartInstancesIInv,
     StopInstancesIInv, ReportsIInv DEF Manage

-----------------------------------------------------------------------------
(* remote, install and kill: commands on the hosts.                         *)
LEMMA StopsIInv == ASSUME IInv, Stops, UNCHANGED cloud, Types', AwakeOnly' PROVE IInv'
<1>1. /\ step' = "none" /\ task' = "none" /\ said' = "nothing" /\ next' = 1
      /\ UNCHANGED <<status, group>>
  BY DEF Stops, Ends, cloud
<1>2. Steps' /\ OnTheWay'
  BY <1>1 DEF Steps, OnTheWay, OfCreate, OfDestroy, OfStop, Quiet
<1> QED BY <1>1, <1>2, NoClaim DEF IInv, GroupsFirst, AllGroups

LEMMA ListHostsIInv == ASSUME IInv, ListHosts PROVE IInv'
<1>1. /\ step = "hosts" /\ step' = task /\ task \in {"install", "kill"}
      /\ ids' \in Available
      /\ UNCHANGED <<status, group, task, next, said, sessions>>
  BY DEF ListHosts, cloud, bench, disks, IInv, Steps, targets
<1>2. Types' /\ AwakeOnly' /\ GroupsFirst'
  BY <1>1 DEF IInv, Types, AwakeOnly, GroupsFirst, AllGroups
<1>3. CASE task = "install"
  BY <1>1, <1>2, <1>3, QuietIInv DEF Quiet
<1>4. CASE task = "kill"
  <2>1. \A m \in Machine : status[m] = "running" => m \in ids'
    BY <1>1 DEF Available, WithStatus
  <2>2. \A m \in Machine : m \in ids' \/ Silent(m)'
    <3>1. \A m \in Machine : \/ m \in ids' \/ sessions'[m] = {}
                             \/ status'[m] \in {"stopping", "shutting-down"}
      BY <1>1, <2>1 DEF IInv, Types, States, AwakeOnly
    <3> QED BY <3>1, Zenon DEF Silent, Killed
  <2>3. Steps'
    BY <1>1, <1>4 DEF IInv, Steps, OfCreate, OfDestroy, OfStop, Quiet
  <2>4. OnTheWay'
    BY <1>1, <1>4, <2>2 DEF OnTheWay
  <2> QED BY <1>1, <1>2, <2>3, <2>4, Busy, NoClaim DEF IInv
<1> QED BY <1>1, <1>3, <1>4

(* Where kill gets to, one client at most is left, and nothing is added.    *)
LEMMA KilledAwake ==
  ASSUME IInv, NEW S, Kills(S), UNCHANGED status
  PROVE  /\ AwakeOnly'
         /\ \A m \in Machine : sessions'[m] \subseteq sessions[m]
         /\ \A m \in Machine : IF m \in S THEN Killed(sessions'[m])
                                         ELSE sessions'[m] = sessions[m]
         /\ sessions' = [m \in Machine |-> sessions'[m]]
<1>1. sessions' = [m \in Machine |-> sessions'[m]]
  BY DEF Kills
<1>2. ASSUME NEW m \in Machine
      PROVE  /\ sessions'[m] \subseteq sessions[m]
             /\ m \in S => Killed(sessions'[m])
             /\ m \notin S => sessions'[m] = sessions[m]
  <2>1. CASE m \notin S
    BY <2>1 DEF Kills
  <2>2. CASE m \in S
    <3>1. sessions'[m] \in Left(m)
      BY <2>2 DEF Kills
    <3>2. CASE inside /\ sessions[m] # {}
      <4>1. PICK c \in sessions[m] : sessions'[m] = {c}
        BY <3>1, <3>2 DEF Left
      <4> QED BY <2>2, <3>2, <4>1 DEF Killed
    <3>3. CASE ~(inside /\ sessions[m] # {})
      <4>1. sessions'[m] = {}
        BY <3>1, <3>3 DEF Left
      <4> QED BY <2>2, <4>1 DEF Killed
    <3> QED BY <3>2, <3>3
  <2> QED BY <2>1, <2>2
<1>3. AwakeOnly'
  BY <1>2 DEF IInv, AwakeOnly
<1> QED BY <1>1, <1>2, <1>3

LEMMA KillIInv == ASSUME IInv, Kill PROVE IInv'
<1>1. PICK S : Kills(S) /\ Succeeds(ids, S, "end")
  BY DEF Kill, KillOn
<1>2. step = "kill" /\ task = "kill" /\ UNCHANGED <<status, group>> /\ Types
  BY DEF Kill, KillOn, cloud, IInv, Steps
<1>3. /\ AwakeOnly'
      /\ \A m \in Machine : IF m \in S THEN Killed(sessions'[m])
                                      ELSE sessions'[m] = sessions[m]
      /\ sessions' = [m \in Machine |-> sessions'[m]]
  BY <1>1, <1>2, KilledAwake
<1>4. CASE S = ids
  <2>1. step' = "end" /\ next' = 1 /\ UNCHANGED <<task, said, inside>>
    BY <1>1, <1>4 DEF Succeeds, targets
  <2>2. \A m \in Machine : Silent(m)'
    BY <1>2, <1>3, <1>4, <2>1 DEF IInv, OnTheWay, Silent, Killed
  <2>3. Types' /\ GroupsFirst'
    BY <1>2, <1>3, <2>1 DEF IInv, Types, GroupsFirst, AllGroups
  <2>4. Steps'
    BY <1>2, <2>1 DEF IInv, Steps, OfCreate, OfDestroy, OfStop, Quiet
  <2>5. OnTheWay'
    BY <1>2, <2>1, <2>2 DEF OnTheWay
  <2> QED BY <1>2, <1>3, <2>1, <2>3, <2>4, <2>5, Busy, NoClaim DEF IInv
<1>5. CASE S # ids
  <2>1. Stops
    BY <1>1, <1>5 DEF Succeeds, targets
  <2>2. Types'
    BY <1>2, <1>3, <2>1 DEF Types, Stops, Ends
  <2> QED BY <1>2, <1>3, <2>1, <2>2, StopsIInv DEF cloud
<1> QED BY <1>4, <1>5

(* A step of install or remote that leaves the clients alone, or stops some. *)
LEMMA CommandIInv ==
  ASSUME IInv, step \in Quiet, UNCHANGED cloud, AwakeOnly',
         sessions' = [m \in Machine |-> sessions'[m]],
         \/ Stops
         \/ /\ step' \in {"update", "config", "upload", "kill_run", "clients", "end"}
            /\ next' \in Nat \ {0}
            /\ UNCHANGED <<task, said>>
  PROVE  IInv'
<1>1. task # "kill" /\ Types /\ UNCHANGED <<status, group>>
  BY DEF IInv, Steps, Quiet, cloud
<1>2. CASE Stops
  <2>1. Types'
    BY <1>1, <1>2 DEF Types, Stops, Ends
  <2> QED BY <1>2, <2>1, StopsIInv
<1>3. CASE ~Stops
  <2>1. Types'
    BY <1>1, <1>3 DEF Types
  <2> QED BY <1>1, <1>3, <2>1, QuietIInv DEF Quiet
<1> QED BY <1>2, <1>3

LEMMA SameAwake ==
  ASSUME IInv, UNCHANGED <<cloud, sessions>>
  PROVE  AwakeOnly' /\ sessions' = [m \in Machine |-> sessions'[m]]
BY DEF IInv, Types, AwakeOnly, cloud

LEMMA Succeeding ==
  ASSUME NEW all, NEW S, NEW after, Succeeds(all, S, after)
  PROVE  Stops \/ (step' = after /\ next' = 1 /\ UNCHANGED <<task, said>>)
BY DEF Succeeds, targets

LEMMA InstallIInv == ASSUME IInv, Install PROVE IInv'
<1>1. /\ step = "install" /\ UNCHANGED <<cloud, sessions>>
      /\ \E S : Succeeds(ids, S, "end")
  BY DEF Install
<1> QED BY <1>1, Succeeding, SameAwake, CommandIInv DEF Quiet

LEMMA SelectHostsIInv == ASSUME IInv, SelectHosts PROVE IInv'
<1>1. /\ step = "select" /\ UNCHANGED <<cloud, sessions>>
      /\ Stops \/ (step' = "update" /\ UNCHANGED <<task, next, said>>)
  BY DEF SelectHosts, disks
<1>2. next \in Nat \ {0}
  BY DEF IInv, Types
<1> QED BY <1>1, <1>2, SameAwake, CommandIInv DEF Quiet

LEMMA UpdateIInv == ASSUME IInv, Update PROVE IInv'
<1>1. /\ step = "update" /\ UNCHANGED <<cloud, sessions>>
      /\ \E S : Succeeds(HostsOf(Len(hosts)), S, "config")
  BY DEF Update
<1> QED BY <1>1, Succeeding, SameAwake, CommandIInv DEF Quiet

LEMMA ConfigIInv == ASSUME IInv, Config PROVE IInv'
<1>1. /\ step = "config" /\ step' \in {"upload", "kill_run"}
      /\ UNCHANGED <<cloud, sessions, task, next, said>>
  BY DEF Config, bench, disks, targets
<1>2. next \in Nat \ {0}
  BY DEF IInv, Types
<1> QED BY <1>1, <1>2, SameAwake, CommandIInv DEF Quiet

LEMMA UploadIInv == ASSUME IInv, Upload PROVE IInv'
<1>1. /\ step = "upload" /\ step' \in {"upload", "kill_run"}
      /\ next' = next + 1 \/ next' = 1
      /\ UNCHANGED <<cloud, sessions, task, said>>
  BY DEF Upload, targets
<1>2. next' \in Nat \ {0}
  BY <1>1 DEF IInv, Types
<1> QED BY <1>1, <1>2, SameAwake, CommandIInv DEF Quiet

LEMMA KillRunIInv == ASSUME IInv, KillRun PROVE IInv'
<1>1. PICK S : Kills(S) /\ Succeeds(HostsOf(Size1), S, "clients")
  BY DEF KillRun, KillOn
<1>2. step = "kill_run" /\ UNCHANGED <<cloud, status>>
  BY DEF KillRun, KillOn, cloud
<1>3. AwakeOnly' /\ sessions' = [m \in Machine |-> sessions'[m]]
  BY <1>1, <1>2, KilledAwake
<1> QED BY <1>1, <1>2, <1>3, Succeeding, CommandIInv DEF Quiet

LEMMA BootClientIInv == ASSUME IInv, BootClient PROVE IInv'
<1>1. /\ step = "clients" /\ step' = step /\ next' = next + 1
      /\ UNCHANGED <<cloud, status, task, said>>
  BY DEF BootClient, cloud, targets
<1>2. PICK h, c : status[h] = "running" /\ sessions' = [sessions EXCEPT ![h] = @ \cup {c}]
  BY DEF BootClient, Bootable, Reachable, targets
<1>3. next' \in Nat \ {0} /\ sessions = [m \in Machine |-> sessions[m]]
  BY <1>1 DEF IInv, Types
<1>4. sessions' = [m \in Machine |-> sessions'[m]]
  BY <1>2, <1>3
<1>5. \A m \in Machine : m # h => sessions'[m] = sessions[m]
  BY <1>2, <1>3
<1>6. AwakeOnly'
  BY <1>1, <1>2, <1>5 DEF IInv, AwakeOnly
<1> QED BY <1>1, <1>3, <1>4, <1>6, CommandIInv DEF Quiet

LEMMA DriveIInv == ASSUME IInv, Drive PROVE IInv'
<1>1. CASE UploadFails \/ BootFails \/ RunPrimary \/ BenchFails
  <2>1. Stops /\ UNCHANGED <<cloud, sessions>>
    BY <1>1 DEF UploadFails, BootFails, RunPrimary, BenchFails, disks
  <2> QED BY <2>1, GivesUp DEF Stops
<1> QED
  BY <1>1, ListHostsIInv, InstallIInv, KillIInv, SelectHostsIInv, UpdateIInv, ConfigIInv,
     UploadIInv, KillRunIInv, BootClientIInv DEF Drive

-----------------------------------------------------------------------------
(* What happens by itself, between any two calls and any two tasks.         *)
LEMMA MovesIInv ==
  ASSUME IInv, NEW m \in Machine, NEW from, NEW to, Moves(m, from, to),
         <<from, to>> \in {<<"pending", "running">>, <<"stopping", "stopped">>,
                           <<"shutting-down", "none">>},
         \/ to = "running" /\ UNCHANGED sessions
         \/ to # "running" /\ sessions' = [sessions EXCEPT ![m] = {}],
         UNCHANGED inside
  PROVE  IInv'
<1>1. /\ status[m] = from /\ status' = [status EXCEPT ![m] = to] /\ Types
      /\ UNCHANGED <<group, task, step, next, ids, arg, said>>
  BY DEF Moves, fab, IInv
<1>2. \/ from = "pending" /\ to = "running"
      \/ from = "stopping" /\ to = "stopped"
      \/ from = "shutting-down" /\ to = "none"
  OBVIOUS
<1>3. /\ status'[m] = to
      /\ \A k \in Machine : k # m => status'[k] = status[k] /\ sessions'[k] = sessions[k]
      /\ to # "running" => sessions'[m] = {}
      /\ to = "running" => sessions'[m] = sessions[m]
  BY <1>1 DEF Types
<1>4. Types'
  BY <1>1, <1>2 DEF Types, States
<1>5. Steps'
  BY <1>1 DEF IInv, Steps
<1>6. GroupsFirst' /\ (AllGroups <=> AllGroups')
  BY <1>1, <1>2, <1>3 DEF IInv, GroupsFirst, AllGroups
<1>7. AwakeOnly'
  BY <1>2, <1>3 DEF IInv, AwakeOnly
<1>8. \A k \in Machine :
        /\ status'[k] \in {"pending", "running"} <=> status[k] \in {"pending", "running"}
        /\ status[k] \in {"none", "shutting-down"} =>
             status'[k] \in {"none", "shutting-down"}
        /\ status[k] # "pending" => status'[k] # "pending"
        /\ status[k] = "none" => status'[k] = "none"
        /\ status[k] = "running" => status'[k] = "running"
        /\ Silent(k) => Silent(k)'
  <2> SUFFICES ASSUME NEW k \in Machine
               PROVE  /\ status'[k] \in {"pending", "running"} <=>
                           status[k] \in {"pending", "running"}
                      /\ status[k] \in {"none", "shutting-down"} =>
                           status'[k] \in {"none", "shutting-down"}
                      /\ status[k] # "pending" => status'[k] # "pending"
                      /\ status[k] = "none" => status'[k] = "none"
                      /\ status[k] = "running" => status'[k] = "running"
                      /\ Silent(k) => Silent(k)'
    OBVIOUS
  <2>1. \/ sessions'[k] = {}
        \/ /\ sessions'[k] = sessions[k]
           /\ status[k] \in {"stopping", "shutting-down"} =>
                status'[k] \in {"stopping", "shutting-down"}
    BY <1>1, <1>2, <1>3
  <2>2. Silent(k) => Silent(k)'
    BY <2>1, Zenon DEF Silent, Killed
  <2> QED BY <1>1, <1>2, <1>3, <2>2
<1>9. \A r \in Region : Up(r) => Up(r)'
  BY <1>8 DEF Up, In
<1>10. OnTheWay'
  BY <1>1, <1>6, <1>8, <1>9 DEF IInv, OnTheWay
<1>11. Claimed'
  BY <1>1, <1>8 DEF IInv, Claimed, Holds, In
<1> QED BY <1>4, <1>5, <1>6, <1>7, <1>10, <1>11 DEF IInv

LEMMA ClientEndsIInv == ASSUME IInv, NEW m \in Machine, ClientEnds(m) PROVE IInv'
<1>1. PICK c \in sessions[m] : sessions' = [sessions EXCEPT ![m] = @ \ {c}]
  BY DEF ClientEnds, targets
<1>2. UNCHANGED <<status, group, task, step, next, ids, arg, said, inside>> /\ Types
  BY DEF ClientEnds, cloud, fab, targets, IInv
<1>3. \A k \in Machine : sessions[k] = {} => sessions'[k] = {}
  BY <1>1, <1>2 DEF Types
<1>4. Types' /\ Steps' /\ GroupsFirst' /\ AwakeOnly'
  BY <1>1, <1>2, <1>3 DEF IInv, Types, Steps, GroupsFirst, AwakeOnly, AllGroups
<1>5. \A k \in Machine : Silent(k) => Silent(k)'
  <2>1. \A k \in Machine : sessions'[k] \subseteq sessions[k]
    BY <1>1, <1>2 DEF Types
  <2> SUFFICES ASSUME NEW k \in Machine, Killed(sessions[k])
               PROVE  Killed(sessions[k])'
    BY <1>2 DEF Silent
  <2>2. CASE sessions[k] = {}
    BY <2>1, <2>2 DEF Killed
  <2>3. CASE inside /\ \E d \in sessions[k] : sessions[k] = {d}
    <3>1. sessions'[k] = {} \/ sessions'[k] = sessions[k]
      BY <2>1, <2>3
    <3>2. inside'
      BY <1>2, <2>3
    <3> QED BY <2>3, <3>1, <3>2, Zenon DEF Killed
  <2> QED BY <2>2, <2>3 DEF Killed
<1>6. OnTheWay' /\ Claimed'
  BY <1>2, <1>5 DEF IInv, OnTheWay, Claimed, Holds, AllGroups, Up
<1> QED BY <1>4, <1>6 DEF IInv

-----------------------------------------------------------------------------
LEMMA InitIInv == FabInit => IInv
<1> SUFFICES ASSUME FabInit PROVE IInv
  OBVIOUS
<1>1. RemoteInit
  BY DEF FabInit
<1>2. Types /\ Steps
  BY <1>1 DEF RemoteInit, Types, States, Steps, OfCreate, OfDestroy, OfStop, Quiet
<1>3. GroupsFirst /\ AwakeOnly /\ OnTheWay /\ Claimed
  BY <1>1 DEF RemoteInit, GroupsFirst, AwakeOnly, OnTheWay, Claimed, Holds
<1> QED BY <1>2, <1>3 DEF IInv

LEMMA TasksIInv == ASSUME IInv, Tasks PROVE IInv'
<1>1. UNCHANGED sessions
  BY DEF Tasks, Create, Destroy, Start, Stop, Info, InstallTask, KillTask, Remote, NoKill,
         disks
<1>2. CASE \E n \in CreateNodes : Create(n)
  BY <1>1, <1>2, BeginIInv, FabfileAssumption DEF Create
<1>3. CASE \E n \in StartMax : Start(n)
  BY <1>1, <1>3, BeginIInv DEF Start
<1>4. CASE \E p \in BenchParams : Remote(p)
  BY <1>1, <1>4, BeginIInv DEF Remote
<1>5. CASE Destroy \/ Stop \/ Info \/ InstallTask \/ KillTask
  BY <1>1, <1>5, BeginIInv DEF Destroy, Stop, Info, NoKill, InstallTask, KillTask
<1> QED BY <1>2, <1>3, <1>4, <1>5 DEF Tasks

LEMMA MachineMovesIInv == ASSUME IInv, MachineMoves PROVE IInv'
<1>1. PICK m \in Machine : MachineBoots(m) \/ MachineHalts(m) \/ MachineGoes(m)
  BY DEF MachineMoves
<1>2. CASE MachineBoots(m)
  BY <1>2, MovesIInv DEF MachineBoots, Boots, bench, disks, targets
<1>3. CASE MachineHalts(m)
  BY <1>3, MovesIInv DEF MachineHalts, Halts, targets
<1>4. CASE MachineGoes(m)
  BY <1>4, MovesIInv DEF MachineGoes, Goes, targets
<1> QED BY <1>1, <1>2, <1>3, <1>4

LEMMA StepIInv == ASSUME IInv, [FabNext]_all_vars PROVE IInv'
<1>1. CASE UNCHANGED remote_vars
  <2>1. UNCHANGED <<status, group, task, step, next, ids, arg, said, sessions, inside>>
    BY <1>1 DEF remote_vars, cloud, fab, bench, disks, targets
  <2>2. Types' /\ Steps' /\ GroupsFirst' /\ AwakeOnly'
    BY <2>1 DEF IInv, Types, Steps, GroupsFirst, AwakeOnly, AllGroups
  <2>3. OnTheWay' /\ Claimed'
    BY <2>1 DEF IInv, OnTheWay, Claimed, Holds, AllGroups, Up, Silent, Killed
  <2> QED BY <2>2, <2>3 DEF IInv
<1>2. CASE RemoteNext
  BY <1>2, TasksIInv, ManageIInv, DriveIInv, MachineMovesIInv, ClientEndsIInv
     DEF RemoteNext, Calling
<1> QED BY <1>1, <1>2 DEF FabNext, all_vars

LEMMA Inductive == FabSpec => []IInv
BY InitIInv, StepIInv, PTL DEF FabSpec

(***************************************************************************)
(* After create every region has machines that run and none that boots,    *)
(* after destroy no machine is left, after stop none runs or will, until   *)
(* the next task begins.                                                   *)
(***************************************************************************)
THEOREM ReportsHold == FabSpec => []ReportsAreTrue
<1>1. IInv => ReportsAreTrue
  BY DEF IInv, Claimed, Holds, ReportsAreTrue, WithStatus, Live, In
<1> QED BY <1>1, Inductive, PTL

(***************************************************************************)
(* EC2 lets destroy delete every group, however earlier tasks failed.      *)
(***************************************************************************)
THEOREM DeletesHold == FabSpec => []DeletesAreAllowed
<1>1. IInv => DeletesAreAllowed
  <2> SUFFICES ASSUME IInv, step = "delete" PROVE Deletable(next)
    BY DEF DeletesAreAllowed
  <2>1. next \in Region /\ next >= next
    BY InstancesAssumption DEF IInv, Steps, Types, Region
  <2> QED BY <2>1 DEF IInv, OnTheWay, Deletable, Free, In
<1> QED BY <1>1, Inductive, PTL

(***************************************************************************)
(* After kill no client is left on a machine that runs, boots or is off,   *)
(* or one and no more, if it was called inside tmux.                       *)
(***************************************************************************)
THEOREM KillHolds == FabSpec => []KillStops
<1>1. IInv => KillStops
  BY DEF IInv, Claimed, Holds, KillStops, WithStatus, Silent, Killed
<1> QED BY <1>1, Inductive, PTL

(***************************************************************************)
(* The tasks as a whole do with the local testbed what Testbed says, so    *)
(* its theorems hold of them too.                                          *)
(***************************************************************************)
THEOREM ImplementsTestbed == FabSpec => Spec
<1>1. FabInit => Init
  BY DEF FabInit
<1>2. [FabNext]_all_vars => [Next]_vars
  BY DEF FabNext, all_vars
<1> QED BY <1>1, <1>2, PTL DEF FabSpec, Spec

-----------------------------------------------------------------------------
(***************************************************************************)
(* Runs on the remote testbed: the hosts of the nodes are apart and awake, *)
(* they are built before they are configured, and each holds its node's    *)
(* files when clients are booted.                                          *)
(***************************************************************************)
RunTypes ==
  /\ task \in TaskNames \cup {"none"}
  /\ ids \in SUBSET Machine /\ arg \in Nat
  /\ tasks \in 0..MaxTasks /\ failures \in 0..MaxFailures
  /\ repo \in [Machine -> {"none", "cloned", "built"}]
  /\ files \in [Machine -> Nat]
  /\ \A m \in Machine : sessions[m] \in SUBSET (Nat \X Nat)
  /\ params \in BenchParams \cup {NoParams} /\ inside \in BOOLEAN

WithHosts == {"update", "config", "upload", "kill_run", "clients"}

(* Machines of A for each of n nodes, w + 1 each if they are different.     *)
AreHosts(h, A, w) ==
  /\ h \in Seq(Seq(Machine))
  /\ \A i \in 1..Len(h) : Len(h[i]) = w + 1 /\ ToSet(h[i]) \subseteq A
  /\ \A i, j \in 1..Len(h) : i # j => ToSet(h[i]) \cap ToSet(h[j]) = {}

HostsAreApart ==
  /\ hosts \in Seq(Seq(Machine))
  /\ step \in WithHosts \cup {"select"} => params \in BenchParams /\ task = "remote"
  /\ step \in WithHosts =>
       AreHosts(hosts, WithStatus({"pending", "running"}), params.workers)

Configured(n) == \A i \in 1..n : \A m \in ToSet(hosts[i]) : files[m] = i

HostsAreReady ==
  /\ step \in WithHosts \ {"update"} =>
       \A i \in 1..Len(hosts) : \A m \in ToSet(hosts[i]) : repo[m] = "built"
  /\ step = "config" => next = 1
  /\ step = "upload" => next <= Uploads /\ Configured(next - 1)
  /\ step \in {"kill_run", "clients"} => Configured(Uploads)

RunInv == RunTypes /\ HostsAreApart /\ HostsAreReady

-----------------------------------------------------------------------------
(***************************************************************************)
(* Least and greatest numbers, and division.                               *)
(***************************************************************************)
(* A set of naturals that has a member has a least one.                     *)
LEMMA LeastNatural ==
  ASSUME NEW S, S \subseteq Nat, S # {}
  PROVE  \E x \in S : \A y \in S : x <= y
<1> DEFINE T == {1..n : n \in S}
<1>1. T \subseteq FiniteSubsetsOf(Nat)
  <2>1. \A n \in S : 1..n \in SUBSET Nat /\ IsFiniteSet(1..n)
    BY FS_Interval
  <2> QED BY <2>1 DEF FiniteSubsetsOf
<1>2. \E A \in T : \A B \in T : <<B, A>> \notin StrictSubsetOrdering(Nat)
  <2>1. T # {}
    OBVIOUS
  <2>2. IsWellFoundedOn(StrictSubsetOrdering(Nat), FiniteSubsetsOf(Nat))
    BY FS_StrictSubsetOrderingWellFounded
  <2> HIDE DEF T
  <2> QED BY <1>1, <2>1, <2>2, WFMin
<1>3. PICK x \in S : \A y \in S : <<1..y, 1..x>> \notin StrictSubsetOrdering(Nat)
  BY <1>2
<1>4. ASSUME NEW y \in S, ~(x <= y) PROVE FALSE
  <2>1. 1..y \subseteq 1..x /\ 1..y # 1..x
    BY <1>4
  <2>2. 1..y \in SUBSET Nat /\ 1..x \in SUBSET Nat
    BY <1>4
  <2> QED BY <1>3, <1>4, <2>1, <2>2 DEF StrictSubsetOrdering
<1> QED BY <1>4

LEMMA MinIsLeast ==
  ASSUME NEW S, S \subseteq Nat, S # {}
  PROVE  Min(S) \in S /\ \A n \in S : Min(S) <= n
BY LeastNatural DEF Min

LEMMA MaxIsGreatest ==
  ASSUME NEW S, S \subseteq Nat, S # {}, IsFiniteSet(S)
  PROVE  Max(S) \in S /\ \A n \in S : Max(S) >= n
<1> DEFINE T == {{m \in S : m > n} : n \in S}
<1>1. T \subseteq FiniteSubsetsOf(S)
  <2>1. \A A \in SUBSET S : IsFiniteSet(A)
    BY FS_Subset
  <2> QED BY <2>1 DEF FiniteSubsetsOf
<1>2. \E A \in T : \A B \in T : <<B, A>> \notin StrictSubsetOrdering(S)
  <2>1. T # {}
    OBVIOUS
  <2>2. IsWellFoundedOn(StrictSubsetOrdering(S), FiniteSubsetsOf(S))
    BY FS_StrictSubsetOrderingWellFounded
  <2> HIDE DEF T
  <2> QED BY <1>1, <2>1, <2>2, WFMin
<1>3. PICK x \in S : \A y \in S :
        <<{m \in S : m > y}, {m \in S : m > x}>> \notin StrictSubsetOrdering(S)
  BY <1>2
<1>4. ASSUME NEW y \in S, y > x PROVE FALSE
  <2>0. ~(y > y) /\ \A m \in S : m > y => m > x
    <3>1. x \in Nat /\ y \in Nat /\ \A m \in S : m \in Nat
      OBVIOUS
    <3> QED BY <1>4, <3>1
  <2>1. /\ {m \in S : m > y} \subseteq {m \in S : m > x}
        /\ y \in {m \in S : m > x} /\ y \notin {m \in S : m > y}
    BY <1>4, <2>0
  <2> QED BY <1>3, <2>1 DEF StrictSubsetOrdering
<1>5. \A y \in S : x >= y
  BY <1>4
<1> QED BY <1>5 DEF Max

LEMMA Division ==
  ASSUME NEW n \in Nat, NEW d \in Nat \ {0}
  PROVE  /\ n \div d \in Nat /\ n % d \in 0..d - 1
         /\ n = d * (n \div d) + (n % d)
OBVIOUS

LEMMA Quotient ==
  ASSUME NEW n \in Nat, NEW d \in Nat \ {0}, NEW q \in Nat, n < q * d
  PROVE  n \div d < q
<1>1. PICK k \in Nat, r \in 0..d - 1 : k = n \div d /\ n = d * k + r
  BY Division
<1> SUFFICES ASSUME k >= q PROVE FALSE
  BY <1>1
<1>2. PICK e \in Nat : k = q + e
  BY <1>1
<1>3. d * k = d * q + d * e /\ d * e \in Nat /\ d * q = q * d /\ q * d \in Nat
  BY <1>2
<1> QED BY <1>1, <1>3

-----------------------------------------------------------------------------
(***************************************************************************)
(* The hosts that _select_hosts takes.                                     *)
(***************************************************************************)
LEMMA MachinesAreFinite ==
  ASSUME NEW A \in SUBSET Machine
  PROVE  IsFiniteSet(A) /\ Cardinality(A) \in Nat
<1>1. IsFiniteSet(1..Regions) /\ IsFiniteSet(1..Quota)
  BY FS_Interval, InstancesAssumption
<1>2. IsFiniteSet(Machine)
  BY <1>1, FS_Product DEF Machine, Region
<1> QED BY <1>2, FS_Subset, FS_CardinalityType

LEMMA OccupiedRegions ==
  ASSUME NEW A \in SUBSET Machine
  PROVE  /\ IsFiniteSet(Occupied(A)) /\ Cardinality(Occupied(A)) \in Nat
         /\ Occupied(A) \subseteq Region
         /\ A # {} => Cardinality(Occupied(A)) > 0
<1>1. IsFiniteSet(Region)
  BY FS_Interval, InstancesAssumption DEF Region
<1>2. Occupied(A) \subseteq Region
  BY DEF Occupied
<1>3. IsFiniteSet(Occupied(A)) /\ Cardinality(Occupied(A)) \in Nat
  BY <1>1, <1>2, FS_Subset, FS_CardinalityType
<1>4. ASSUME A # {} PROVE Cardinality(Occupied(A)) > 0
  <2>1. PICK m \in A : TRUE
    BY <1>4
  <2>2. m[1] \in Occupied(A)
    BY Machines DEF Occupied
  <2> QED BY <1>3, <2>2, FS_EmptySet
<1> QED BY <1>2, <1>3, <1>4

(* The rank of a number in a finite set is one of 1..n, and no other's.     *)
LEMMA Ranks ==
  ASSUME NEW S, S \subseteq Nat, IsFiniteSet(S), NEW i \in 1..Cardinality(S)
  PROVE  \E r \in S : Cardinality({q \in S : q <= r}) = i
<1> DEFINE n == Cardinality(S)
           Below(r) == {q \in S : q <= r}
           rank == [r \in S |-> Cardinality(Below(r))]
<1>1. n \in Nat
  BY FS_CardinalityType
<1>2. ASSUME NEW r \in S
      PROVE  IsFiniteSet(Below(r)) /\ Cardinality(Below(r)) \in 1..n
  <2>1. Below(r) \subseteq S /\ r \in Below(r)
    OBVIOUS
  <2>2. IsFiniteSet(Below(r)) /\ Cardinality(Below(r)) <= n
    BY <2>1, FS_Subset
  <2>3. Cardinality(Below(r)) \in Nat /\ Cardinality(Below(r)) # 0
    BY <2>1, <2>2, FS_CardinalityType, FS_EmptySet
  <2> QED BY <1>1, <2>2, <2>3
<1>3. ASSUME NEW r \in S, NEW q \in S, r < q
      PROVE  Cardinality(Below(r)) < Cardinality(Below(q))
  <2>1. Below(r) \subseteq Below(q)
    <3>1. r \in Nat /\ q \in Nat /\ \A k \in S : k \in Nat
      OBVIOUS
    <3>2. \A k \in S : k <= r => k <= q
      BY <1>3, <3>1
    <3> QED BY <3>2
  <2>2. q \in Below(q) /\ q \notin Below(r)
    BY <1>3
  <2>3. Cardinality(Below(r)) <= Cardinality(Below(q))
    BY <1>2, <2>1, FS_Subset
  <2>4. Cardinality(Below(r)) # Cardinality(Below(q))
    BY <1>2, <2>1, <2>2, FS_Subset
  <2>5. Cardinality(Below(r)) \in Nat /\ Cardinality(Below(q)) \in Nat
    BY <1>1, <1>2
  <2> QED BY <2>3, <2>4, <2>5
<1> HIDE DEF n, Below
<1>4. rank \in [S -> 1..n]
  BY <1>2
<1>5. \A r, q \in S : rank[r] = rank[q] => r = q
  <2> SUFFICES ASSUME NEW r \in S, NEW q \in S, rank[r] = rank[q], r # q PROVE FALSE
    OBVIOUS
  <2>1. r < q \/ q < r
    OBVIOUS
  <2>2. rank[r] \in Nat /\ rank[q] \in Nat
    BY <1>1, <1>4
  <2> QED BY <1>3, <2>1, <2>2
<1> HIDE DEF rank
<1>6. IsFiniteSet(1..n) /\ Cardinality(1..n) = n
  BY <1>1, FS_Interval
<1>7. rank \in Surjection(S, 1..n)
  <2>1. rank \in Injection(S, 1..n)
    <3>1. \A a, b \in S : rank[a] = rank[b] => a = b
      BY <1>5
    <3> QED BY <1>4, <3>1, Fun_IsInj
  <2>2. Cardinality(S) = Cardinality(1..n)
    BY <1>6 DEF n
  <2> QED BY <1>6, <2>1, <2>2, FS_Injection
<1>8. \E r \in S : rank[r] = i
  BY <1>7 DEF Surjection, n
<1> QED BY <1>8 DEF rank, Below

LEMMA RegionsInOrder ==
  ASSUME NEW A \in SUBSET Machine
  PROVE  /\ RegionsOf(A) \in [1..Cardinality(Occupied(A)) -> Occupied(A)]
         /\ \A i, j \in DOMAIN RegionsOf(A) : RegionsOf(A)[i] = RegionsOf(A)[j] => i = j
<1> DEFINE S == Occupied(A)
           At(r) == Cardinality({q \in S : q <= r})
<1>1. S \subseteq Nat /\ IsFiniteSet(S)
  BY OccupiedRegions DEF Region
<1>2. RegionsOf(A) = [i \in 1..Cardinality(S) |-> CHOOSE r \in S : At(r) = i]
  BY DEF RegionsOf
<1> HIDE DEF S
<1>3. \A i \in 1..Cardinality(S) : \E r \in S : At(r) = i
  BY <1>1, Ranks
<1> HIDE DEF At
<1>4. \A i \in 1..Cardinality(S) : RegionsOf(A)[i] \in S /\ At(RegionsOf(A)[i]) = i
  BY <1>2, <1>3
<1> QED BY <1>2, <1>4 DEF S

(* Lists of machines of A, in which every machine is once, at one place.    *)
AreLists(lists, A) ==
  /\ lists \in Seq(Seq(Machine))
  /\ \A i \in 1..Len(lists) : \A k \in 1..Len(lists[i]) : lists[i][k] \in A
  /\ \A i, j \in 1..Len(lists) :
       \A k \in 1..Len(lists[i]), l \in 1..Len(lists[j]) :
         lists[i][k] = lists[j][l] => i = j /\ k = l

(* The lists that SelectHosts makes: of each region with machines, in some   *)
(* order.                                                                   *)
Listed(lists, A) ==
  \E order : /\ \A r \in Region : order[r] \in Orders(A, r)
             /\ lists = [i \in DOMAIN RegionsOf(A) |-> order[RegionsOf(A)[i]]]

LEMMA OrderedLists ==
  ASSUME NEW A \in SUBSET Machine, NEW lists, Listed(lists, A)
  PROVE  /\ AreLists(lists, A)
         /\ Len(lists) = Cardinality(Occupied(A))
         /\ \A i \in 1..Len(lists) :
              /\ Len(lists[i]) > 0
              /\ Len(lists[i]) = Cardinality(A \cap In(RegionsOf(A)[i]))
<1> DEFINE n == Cardinality(Occupied(A))
           reg == RegionsOf(A)
           own(i) == A \cap In(reg[i])
           size(i) == Cardinality(own(i))
<1>1. n \in Nat /\ Occupied(A) \subseteq Region
  BY OccupiedRegions
<1>2. reg \in [1..n -> Occupied(A)] /\ \A i, j \in 1..n : reg[i] = reg[j] => i = j
  BY RegionsInOrder
<1>3. PICK order : /\ \A r \in Region : order[r] \in Orders(A, r)
                   /\ lists = [i \in DOMAIN RegionsOf(A) |-> order[RegionsOf(A)[i]]]
  BY DEF Listed
<1>4. lists = [i \in 1..n |-> order[reg[i]]]
  BY <1>2, <1>3
<1> HIDE DEF n, reg
<1>5. ASSUME NEW i \in 1..n
      PROVE  /\ size(i) \in Nat /\ size(i) > 0
             /\ lists[i] \in [1..size(i) -> own(i)]
             /\ \A k, l \in 1..size(i) : lists[i][k] = lists[i][l] => k = l
  <2>1. reg[i] \in Occupied(A) /\ reg[i] \in Region
    BY <1>1, <1>2
  <2>2. own(i) \in SUBSET Machine /\ own(i) # {}
    BY <2>1 DEF Occupied
  <2>3. size(i) \in Nat /\ size(i) # 0
    BY <2>2, MachinesAreFinite, FS_EmptySet
  <2>4. lists[i] \in SetToSeqs(own(i))
    BY <1>3, <1>4, <2>1 DEF Orders
  <2>5. PICK S : S = own(i)
    OBVIOUS
  <2>6. lists[i] \in {f \in [1..Cardinality(S) -> S] :
                       \A k, l \in 1..Cardinality(S) : k # l => f[k] # f[l]}
    BY <2>4, <2>5 DEF SetToSeqs
  <2> HIDE DEF own
  <2> QED BY <2>3, <2>5, <2>6
<1>6. ASSUME NEW i \in 1..n
      PROVE  lists[i] \in Seq(Machine) /\ Len(lists[i]) = size(i)
  <2>1. lists[i] \in [1..size(i) -> Machine] /\ size(i) \in Nat
    BY <1>5
  <2> HIDE DEF size
  <2> QED BY <2>1
<1>7. \A i \in 1..n : own(i) \subseteq A /\ own(i) \subseteq In(reg[i])
  OBVIOUS
<1> HIDE DEF size, own
<1>8. lists \in Seq(Seq(Machine)) /\ Len(lists) = n
  <2>1. lists \in [1..n -> Seq(Machine)]
    BY <1>4, <1>6
  <2> QED BY <1>1, <2>1
<1>9. ASSUME NEW i \in 1..n, NEW j \in 1..n, NEW k \in 1..Len(lists[i]),
             NEW l \in 1..Len(lists[j]), lists[i][k] = lists[j][l]
      PROVE  i = j /\ k = l
  <2>1. lists[i][k] \in own(i) /\ lists[j][l] \in own(j)
    BY <1>5, <1>6
  <2>2. reg[i] = reg[j]
    BY <1>7, <1>9, <2>1 DEF In
  <2>3. i = j
    BY <1>2, <2>2
  <2>4. k \in 1..size(i) /\ l \in 1..size(i) /\ lists[i][k] = lists[i][l]
    BY <1>6, <1>9, <2>3
  <2> QED BY <1>5, <2>3, <2>4
<1>10. \A i \in 1..n : \A k \in 1..Len(lists[i]) : lists[i][k] \in A
  BY <1>5, <1>6, <1>7
<1>11. AreLists(lists, A)
  <2>1. \A i, j \in 1..n : \A k \in 1..Len(lists[i]), l \in 1..Len(lists[j]) :
          lists[i][k] = lists[j][l] => i = j /\ k = l
    BY <1>9
  <2>2. \A i \in 1..Len(lists) : \A k \in 1..Len(lists[i]) : lists[i][k] \in A
    BY <1>8, <1>10
  <2>3. \A i, j \in 1..Len(lists) : \A k \in 1..Len(lists[i]), l \in 1..Len(lists[j]) :
          lists[i][k] = lists[j][l] => i = j /\ k = l
    BY <1>8, <2>1
  <2> QED BY <1>8, <2>2, <2>3 DEF AreLists
<1> QED BY <1>5, <1>6, <1>8, <1>11 DEF n, reg, size, own

LEMMA LargestCommittee ==
  ASSUME params \in BenchParams
  PROVE  /\ MaxNodes \in Nat \ {0}
         /\ params.workers \in Nat \ {0} /\ params.faults \in Nat
         /\ params.nodes \in Seq(Nat \ {0, 1}) /\ params.nodes # << >>
<1>1. /\ params.nodes \in Seq(Nat \ {0, 1}) /\ params.nodes # << >>
      /\ params.workers \in Nat \ {0} /\ params.faults \in Nat
  BY BenchAssumption
<1> DEFINE s == params.nodes
           D == 1..Len(s)
<1>2. Len(s) \in Nat /\ Len(s) > 0 /\ DOMAIN s = D
  BY <1>1
<1>3. ToSet(s) \subseteq Nat \ {0, 1} /\ s[1] \in ToSet(s)
  <2>1. 1 \in D /\ \A i \in D : s[i] \in Nat \ {0, 1}
    BY <1>1, <1>2
  <2> HIDE DEF D, s
  <2> QED BY <1>2, <2>1 DEF ToSet
<1>4. IsFiniteSet(ToSet(s))
  <2>1. s \in Surjection(D, ToSet(s))
    <3>1. s \in [D -> ToSet(s)]
      BY <1>1, <1>2 DEF ToSet
    <3>2. \A x \in ToSet(s) : \E i \in D : s[i] = x
      BY <1>2 DEF ToSet
    <3> HIDE DEF D, s
    <3> QED BY <3>1, <3>2 DEF Surjection
  <2>2. IsFiniteSet(D)
    BY <1>2, FS_Interval
  <2> HIDE DEF D, s
  <2> QED BY <2>1, <2>2, FS_Surjection
<1>5. MaxNodes \in ToSet(s)
  <2>1. ToSet(s) \subseteq Nat /\ ToSet(s) # {}
    BY <1>3
  <2> QED BY <1>4, <2>1, MaxIsGreatest DEF MaxNodes
<1> QED BY <1>1, <1>3, <1>5

(* zip stops with the shortest list, and takes every machine once.          *)
LEMMA RoundRobinTakesOnce ==
  ASSUME NEW A \in SUBSET Machine, NEW lists, AreLists(lists, A), lists # << >>
  PROVE  /\ RoundRobin(lists) \in Seq(A)
         /\ \A k, l \in 1..Len(RoundRobin(lists)) :
              RoundRobin(lists)[k] = RoundRobin(lists)[l] => k = l
<1> DEFINE n == Len(lists)
           sizes == {Len(lists[i]) : i \in DOMAIN lists}
           short == Min(sizes)
           row(k) == ((k - 1) % n) + 1
           col(k) == ((k - 1) \div n) + 1
<1>1. n \in Nat \ {0} /\ DOMAIN lists = 1..n
  BY DEF AreLists
<1>2. \A i \in 1..n : lists[i] \in Seq(Machine) /\ Len(lists[i]) \in Nat
  BY DEF AreLists
<1>3. short \in Nat /\ \A i \in 1..n : short <= Len(lists[i])
  <2>1. sizes \subseteq Nat /\ sizes # {} /\ \A i \in 1..n : Len(lists[i]) \in sizes
    <3>1. 1 \in 1..n
      BY <1>1
    <3> QED BY <1>1, <1>2, <3>1
  <2> HIDE DEF sizes
  <2> QED BY <2>1, MinIsLeast
<1>4. RoundRobin(lists) = [k \in 1..short * n |-> lists[row(k)][col(k)]]
  BY DEF RoundRobin
<1> HIDE DEF short
<1>5. short * n \in Nat
  BY <1>1, <1>3
<1>6. ASSUME NEW k \in 1..short * n
      PROVE  /\ row(k) \in 1..n /\ col(k) \in 1..Len(lists[row(k)])
             /\ lists[row(k)][col(k)] \in A
             /\ k - 1 = n * (col(k) - 1) + (row(k) - 1)
  <2> DEFINE q == (k - 1) \div n
             r == (k - 1) % n
  <2>1. k - 1 \in Nat /\ k - 1 < short * n
    BY <1>5
  <2>2. q \in Nat /\ r \in 0..n - 1 /\ k - 1 = n * q + r
    BY <1>1, <2>1, Division
  <2>3. q < short
    BY <1>1, <1>3, <2>1, Quotient
  <2>4. row(k) = r + 1 /\ col(k) = q + 1
    OBVIOUS
  <2> HIDE DEF row, col, q, r, n
  <2>5. row(k) \in 1..n /\ row(k) - 1 = r /\ col(k) - 1 = q
    BY <1>1, <2>2, <2>4
  <2>6. col(k) \in 1..Len(lists[row(k)])
    BY <1>2, <1>3, <2>2, <2>3, <2>4, <2>5
  <2>7. lists[row(k)][col(k)] \in A
    BY <2>5, <2>6 DEF AreLists, n
  <2> QED BY <2>2, <2>5, <2>6, <2>7
<1> HIDE DEF row, col
<1>7. ASSUME NEW k \in 1..short * n, NEW l \in 1..short * n,
             lists[row(k)][col(k)] = lists[row(l)][col(l)]
      PROVE  k = l
  <2>1. row(k) = row(l) /\ col(k) = col(l)
    <3>1. \A i, j \in 1..n : \A p \in 1..Len(lists[i]), q \in 1..Len(lists[j]) :
            lists[i][p] = lists[j][q] => i = j /\ p = q
      BY DEF AreLists
    <3> HIDE DEF n
    <3>2. PICK i, p : /\ i \in 1..n /\ p \in 1..Len(lists[i])
                      /\ i = row(k) /\ p = col(k)
      BY <1>6
    <3>3. PICK j, q : /\ j \in 1..n /\ q \in 1..Len(lists[j])
                      /\ j = row(l) /\ q = col(l)
      BY <1>6
    <3>4. lists[i][p] = lists[j][q]
      BY <1>7, <3>2, <3>3
    <3>5. i = j /\ p = q
      BY <3>1, <3>2, <3>3, <3>4
    <3> QED BY <3>2, <3>3, <3>5
  <2>2. k - 1 = l - 1
    BY <1>6, <2>1
  <2> QED BY <1>5, <2>2
<1> HIDE DEF n
<1>8. RoundRobin(lists) \in [1..short * n -> A]
  BY <1>4, <1>6
<1>9. RoundRobin(lists) \in Seq(A) /\ Len(RoundRobin(lists)) = short * n
  BY <1>5, <1>8
<1> QED BY <1>4, <1>7, <1>9

LEMMA CollocatedHosts ==
  ASSUME params \in BenchParams, NEW A \in SUBSET Machine,
         NEW lists, AreLists(lists, A), lists # << >>
  PROVE  AreHosts(Collocated(lists), A, params.workers)
<1> DEFINE zipped == RoundRobin(lists)
           w == params.workers
           n == Min({MaxNodes, Len(zipped)})
           h == [i \in 1..n |-> [j \in 1..w + 1 |-> zipped[i]]]
<1>1. Collocated(lists) = h
  BY DEF Collocated
<1>2. zipped \in Seq(A) /\ \A k, l \in 1..Len(zipped) : zipped[k] = zipped[l] => k = l
  BY RoundRobinTakesOnce
<1> HIDE DEF zipped
<1>3. w \in Nat \ {0} /\ MaxNodes \in Nat
  BY LargestCommittee
<1>4. n \in Nat /\ n <= Len(zipped)
  <2>1. /\ {MaxNodes, Len(zipped)} \subseteq Nat /\ {MaxNodes, Len(zipped)} # {}
        /\ Len(zipped) \in {MaxNodes, Len(zipped)}
    BY <1>2, <1>3
  <2> QED BY <2>1, MinIsLeast
<1> HIDE DEF n
<1>5. \A i \in 1..n : i \in 1..Len(zipped) /\ zipped[i] \in A
  BY <1>2, <1>4
<1>6. ASSUME NEW i \in 1..n
      PROVE  h[i] \in Seq(Machine) /\ Len(h[i]) = w + 1 /\ ToSet(h[i]) = {zipped[i]}
  <2>1. h[i] = [j \in 1..w + 1 |-> zipped[i]] /\ zipped[i] \in Machine
    BY <1>5
  <2> HIDE DEF w, h
  <2>2. h[i] \in [1..w + 1 -> Machine] /\ w + 1 \in Nat /\ 1 \in 1..w + 1
    BY <1>3, <2>1
  <2>3. h[i] \in Seq(Machine) /\ Len(h[i]) = w + 1
    BY <2>2
  <2>4. ToSet(h[i]) = {zipped[i]}
    BY <2>1, <2>2 DEF ToSet
  <2> QED BY <2>3, <2>4
<1>7. h \in Seq(Seq(Machine)) /\ Len(h) = n
  <2>1. h \in [1..n -> Seq(Machine)]
    BY <1>6
  <2> HIDE DEF h
  <2> QED BY <1>4, <2>1
<1> HIDE DEF h, w
<1>8. AreHosts(h, A, w)
  BY <1>2, <1>5, <1>6, <1>7 DEF AreHosts
<1> QED BY <1>1, <1>8 DEF w

LEMMA DedicatedHosts ==
  ASSUME params \in BenchParams, NEW A \in SUBSET Machine,
         NEW lists, AreLists(lists, A), Len(lists) >= MaxNodes,
         \A i \in 1..Len(lists) : Len(lists[i]) >= params.workers + 1
  PROVE  AreHosts(Dedicated(lists), A, params.workers)
<1> DEFINE w == params.workers
           n == MaxNodes
           h == [i \in 1..n |-> SubSeq(lists[i], 1, w + 1)]
<1>1. Dedicated(lists) = h
  BY DEF Dedicated
<1>2. w \in Nat \ {0} /\ n \in Nat
  BY LargestCommittee
<1>3. \A i \in 1..n : /\ i \in 1..Len(lists) /\ lists[i] \in Seq(Machine)
                      /\ Len(lists[i]) >= w + 1 /\ Len(lists[i]) \in Nat
  <2>1. lists \in Seq(Seq(Machine)) /\ Len(lists) \in Nat
    BY DEF AreLists
  <2>2. \A i \in 1..n : i \in 1..Len(lists)
    BY <1>2, <2>1
  <2> QED BY <2>1, <2>2
<1> HIDE DEF n, w
<1>4. ASSUME NEW i \in 1..n
      PROVE  /\ h[i] \in Seq(Machine) /\ Len(h[i]) = w + 1
             /\ \A k \in 1..w + 1 : k \in 1..Len(lists[i]) /\ h[i][k] = lists[i][k]
  <2>1. h[i] = SubSeq(lists[i], 1, w + 1)
    OBVIOUS
  <2>2. \A k \in 1..w + 1 : k \in 1..Len(lists[i])
    BY <1>2, <1>3
  <2>3. \A k \in 1..w + 1 : lists[i][k] \in Machine
    BY <1>3, <2>2
  <2> HIDE DEF h
  <2> DEFINE v == w + 1
  <2>4. v \in Int /\ v - 1 + 1 = v /\ 1 <= v /\ \A k \in 1..v : 1 + k - 1 = k
    BY <1>2
  <2> HIDE DEF v
  <2>5. /\ h[i] \in Seq(Machine)
        /\ Len(h[i]) = IF 1 <= v THEN v - 1 + 1 ELSE 0
        /\ \A k \in 1..v - 1 + 1 : h[i][k] = lists[i][1 + k - 1]
    <3>1. h[i] = SubSeq(lists[i], 1, v)
      BY <2>1 DEF v
    <3>2. \A k \in 1..v : lists[i][k] \in Machine
      BY <2>3 DEF v
    <3> QED BY <3>1, <3>2, <2>4, SubSeqProperties
  <2>6. Len(h[i]) = v /\ \A k \in 1..v : h[i][k] = lists[i][k]
    BY <2>4, <2>5
  <2> QED BY <2>2, <2>5, <2>6 DEF v
<1>5. h \in Seq(Seq(Machine)) /\ Len(h) = n
  <2>1. h \in [1..n -> Seq(Machine)]
    BY <1>4
  <2> HIDE DEF h
  <2> QED BY <1>2, <2>1
<1> HIDE DEF h
<1>6. ASSUME NEW i \in 1..n
      PROVE  ToSet(h[i]) = {lists[i][k] : k \in 1..w + 1}
  <2>1. DOMAIN h[i] = 1..w + 1
    BY <1>2, <1>4
  <2> QED BY <1>4, <2>1 DEF ToSet
<1>7. ASSUME NEW i \in 1..n, NEW j \in 1..n, i # j
      PROVE  ToSet(h[i]) \cap ToSet(h[j]) = {}
  <2> SUFFICES ASSUME NEW k \in 1..w + 1, NEW l \in 1..w + 1, lists[i][k] = lists[j][l]
               PROVE  FALSE
    <3>1. ToSet(h[i]) = {lists[i][k] : k \in 1..w + 1}
      BY <1>6
    <3>2. ToSet(h[j]) = {lists[j][k] : k \in 1..w + 1}
      BY <1>6
    <3> QED BY <3>1, <3>2
  <2>1. k \in 1..Len(lists[i]) /\ l \in 1..Len(lists[j])
    BY <1>4
  <2> QED BY <1>3, <1>7, <2>1 DEF AreLists
<1>8. ASSUME NEW i \in 1..n PROVE ToSet(h[i]) \subseteq A
  <2>1. i \in 1..Len(lists) /\ \A k \in 1..w + 1 : k \in 1..Len(lists[i])
    BY <1>3, <1>4
  <2>2. \A k \in 1..w + 1 : lists[i][k] \in A
    BY <2>1 DEF AreLists
  <2>3. ToSet(h[i]) = {lists[i][k] : k \in 1..w + 1}
    BY <1>6
  <2> QED BY <2>2, <2>3
<1>9. AreHosts(h, A, w)
  BY <1>4, <1>5, <1>7, <1>8 DEF AreHosts
<1> QED BY <1>1, <1>9 DEF w

LEMMA SelectedHosts ==
  ASSUME params \in BenchParams, NEW A \in SUBSET Machine, Enough(A),
         NEW lists, Listed(lists, A)
  PROVE  AreHosts(IF params.collocate THEN Collocated(lists) ELSE Dedicated(lists),
                  A, params.workers)
<1>1. /\ AreLists(lists, A)
      /\ Len(lists) = Cardinality(Occupied(A))
      /\ \A i \in 1..Len(lists) :
           /\ Len(lists[i]) > 0
           /\ Len(lists[i]) = Cardinality(A \cap In(RegionsOf(A)[i]))
  BY OrderedLists
<1>2. /\ MaxNodes \in Nat \ {0} /\ Cardinality(A) \in Nat /\ Cardinality(Occupied(A)) \in Nat
      /\ A # {} => Cardinality(Occupied(A)) > 0
  BY LargestCommittee, MachinesAreFinite, OccupiedRegions
<1>3. CASE params.collocate
  <2>1. Cardinality(A) > 0
    BY <1>2, <1>3 DEF Enough
  <2>2. A # {}
    BY <2>1, FS_EmptySet
  <2>3. lists # << >>
    BY <1>1, <1>2, <2>2
  <2> QED BY <1>1, <1>3, <2>3, CollocatedHosts
<1>4. CASE ~params.collocate
  <2>1. DOMAIN RegionsOf(A) = 1..Len(lists) /\ Len(RegionsOf(A)) = Len(lists)
    <3>1. RegionsOf(A) \in [1..Cardinality(Occupied(A)) -> Occupied(A)]
      BY RegionsInOrder
    <3> QED BY <1>1, <1>2, <3>1
  <2>2. /\ Len(RegionsOf(A)) >= MaxNodes
        /\ \A i \in DOMAIN RegionsOf(A) :
             Cardinality(A \cap In(RegionsOf(A)[i])) >= params.workers + 1
    BY <1>4 DEF Enough
  <2>3. \A i \in 1..Len(lists) : Len(lists[i]) >= params.workers + 1
    BY <1>1, <2>1, <2>2
  <2> QED BY <1>1, <1>4, <2>1, <2>2, <2>3, DedicatedHosts
<1> QED BY <1>3, <1>4

-----------------------------------------------------------------------------
(***************************************************************************)
(* The steps of a run.                                                     *)
(***************************************************************************)
HostInv == HostsAreApart /\ HostsAreReady

(* Outside of a run.                                                        *)
LEMMA NoRun ==
  ASSUME hosts' \in Seq(Seq(Machine)), step' \notin WithHosts \cup {"select"}
  PROVE  HostInv'
BY DEF HostInv, HostsAreApart, HostsAreReady, WithHosts

LEMMA StopsHostInv == ASSUME Stops PROVE HostInv'
<1>1. hosts' = << >> /\ step' = "none"
  BY DEF Stops, Ends
<1>2. hosts' \in Seq(Seq(Machine))
  BY <1>1
<1> QED BY <1>1, <1>2, NoRun DEF WithHosts

(* A run that goes on with its hosts.                                       *)
LEMMA SameHosts ==
  ASSUME HostInv, step \in WithHosts, step' \in WithHosts,
         UNCHANGED <<hosts, params, task, status>>
  PROVE  HostsAreApart'
<1>1. WithStatus({"pending", "running"})' = WithStatus({"pending", "running"})
  BY DEF WithStatus
<1> QED BY <1>1 DEF HostInv, HostsAreApart

LEMMA HostsAreMachines ==
  ASSUME HostInv, step \in WithHosts
  PROVE  /\ params \in BenchParams /\ task = "remote"
         /\ hosts \in Seq(Seq(Machine)) /\ Len(hosts) \in Nat
         /\ \A i \in 1..Len(hosts) :
              /\ Len(hosts[i]) = params.workers + 1
              /\ \A m \in ToSet(hosts[i]) :
                   m \in Machine /\ status[m] \in {"pending", "running"}
         /\ \A i, j \in 1..Len(hosts) : i # j => ToSet(hosts[i]) \cap ToSet(hosts[j]) = {}
<1>1. /\ params \in BenchParams /\ task = "remote"
      /\ AreHosts(hosts, WithStatus({"pending", "running"}), params.workers)
  BY DEF HostInv, HostsAreApart
<1>2. \A m \in WithStatus({"pending", "running"}) :
        m \in Machine /\ status[m] \in {"pending", "running"}
  BY DEF WithStatus
<1>3. hosts \in Seq(Seq(Machine)) /\ Len(hosts) \in Nat
  BY <1>1 DEF AreHosts
<1>4. \A i \in 1..Len(hosts) : /\ Len(hosts[i]) = params.workers + 1
                               /\ ToSet(hosts[i]) \subseteq WithStatus({"pending", "running"})
  BY <1>1 DEF AreHosts
<1>5. \A i, j \in 1..Len(hosts) : i # j => ToSet(hosts[i]) \cap ToSet(hosts[j]) = {}
  BY <1>1 DEF AreHosts
<1> QED BY <1>1, <1>2, <1>3, <1>4, <1>5

LEMMA UploadsType ==
  ASSUME params \in BenchParams, hosts \in Seq(Seq(Machine))
  PROVE  /\ Uploads \in Int /\ Uploads <= Len(hosts)
         /\ params.faults <= Len(hosts) => Uploads = Len(hosts) - params.faults
<1>1. Len(hosts) \in Nat /\ params.faults \in Nat
  BY LargestCommittee
<1> QED BY <1>1 DEF Uploads

LEMMA SelectHostsHostInv == ASSUME IInv, HostInv, SelectHosts PROVE HostInv'
<1>1. /\ step = "select" /\ params \in BenchParams /\ task = "remote"
      /\ UNCHANGED status
  BY DEF SelectHosts, HostInv, HostsAreApart, cloud
<1>2. PICK A \in Available :
        \/ Stops
        \/ /\ Enough(A)
           /\ \E lists : /\ Listed(lists, A)
                         /\ hosts' = IF params.collocate THEN Collocated(lists)
                                                         ELSE Dedicated(lists)
           /\ step' = "update" /\ UNCHANGED <<task, params>>
  BY DEF SelectHosts, Listed
<1>3. A \in SUBSET Machine /\ A \subseteq WithStatus({"pending", "running"})
  BY DEF Available, WithStatus
<1>4. CASE Stops
  BY <1>4, StopsHostInv
<1>5. CASE ~Stops
  <2>1. AreHosts(hosts', A, params.workers)
    BY <1>1, <1>2, <1>3, <1>5, SelectedHosts
  <2>2. AreHosts(hosts', WithStatus({"pending", "running"}), params.workers)
    BY <1>3, <2>1 DEF AreHosts
  <2>3. WithStatus({"pending", "running"})' = WithStatus({"pending", "running"})
    BY <1>1 DEF WithStatus
  <2>4. hosts' \in Seq(Seq(Machine)) /\ step' = "update" /\ UNCHANGED <<task, params>>
    BY <1>2, <1>5, <2>1 DEF AreHosts
  <2>5. HostsAreApart'
    BY <1>1, <2>2, <2>3, <2>4 DEF HostsAreApart
  <2>6. HostsAreReady'
    BY <2>4 DEF HostsAreReady
  <2> QED BY <2>5, <2>6 DEF HostInv
<1> QED BY <1>4, <1>5

LEMMA UpdateHostInv == ASSUME IInv, HostInv, Update PROVE HostInv'
<1>1. PICK S : /\ step = "update" /\ repo' = On(S, repo, "built")
               /\ Succeeds(HostsOf(Len(hosts)), S, "config") /\ UNCHANGED status
  BY DEF Update, cloud
<1>2. CASE S # HostsOf(Len(hosts))
  BY <1>1, <1>2, StopsHostInv DEF Succeeds, targets
<1>3. CASE S = HostsOf(Len(hosts))
  <2>1. step' = "config" /\ next' = 1 /\ UNCHANGED <<task, hosts, params>>
    BY <1>1, <1>3 DEF Succeeds, targets
  <2>2. HostsAreApart'
    BY <1>1, <2>1, SameHosts DEF WithHosts
  <2>3. \A i \in 1..Len(hosts) : \A m \in ToSet(hosts[i]) : m \in S /\ m \in Machine
    BY <1>1, <1>3, HostsAreMachines DEF HostsOf, WithHosts
  <2>4. \A i \in 1..Len(hosts) : \A m \in ToSet(hosts[i]) : repo'[m] = "built"
    BY <1>1, <2>3 DEF On
  <2>5. HostsAreReady'
    BY <2>1, <2>4 DEF HostsAreReady
  <2> QED BY <2>2, <2>5 DEF HostInv
<1> QED BY <1>2, <1>3

LEMMA ConfigHostInv == ASSUME IInv, HostInv, Config PROVE HostInv'
<1>1. /\ step = "config" /\ step' = IF Uploads > 0 THEN "upload" ELSE "kill_run"
      /\ UNCHANGED <<hosts, params, task, status, next, repo, files>>
  BY DEF Config, bench, disks, cloud, targets
<1>2. HostsAreApart'
  BY <1>1, SameHosts DEF WithHosts
<1>3. Uploads \in Int
  BY <1>1, HostsAreMachines, UploadsType DEF WithHosts
<1>4. Uploads' = Uploads /\ \A n : Configured(n)' <=> Configured(n)
  BY <1>1 DEF Uploads, Configured
<1>5. next = 1
  BY <1>1 DEF HostInv, HostsAreReady
<1>6. \A i \in 1..Len(hosts) : \A m \in ToSet(hosts[i]) : repo[m] = "built"
  BY <1>1 DEF HostInv, HostsAreReady, WithHosts
<1>7. CASE Uploads > 0
  <2>1. next <= Uploads /\ Configured(next - 1)
    BY <1>3, <1>5, <1>7 DEF Configured
  <2> QED BY <1>1, <1>2, <1>4, <1>6, <1>7, <2>1 DEF HostInv, HostsAreReady
<1>8. CASE ~(Uploads > 0)
  <2>1. Configured(Uploads)
    BY <1>3, <1>8 DEF Configured
  <2> QED BY <1>1, <1>2, <1>4, <1>6, <1>8, <2>1 DEF HostInv, HostsAreReady
<1> QED BY <1>7, <1>8

LEMMA UploadHostInv == ASSUME IInv, HostInv, Upload PROVE HostInv'
<1>1. /\ step = "upload" /\ files' = On(ToSet(hosts[next]), files, next)
      /\ IF next < Uploads THEN next' = next + 1 /\ step' = step
                           ELSE next' = 1 /\ step' = "kill_run"
      /\ UNCHANGED <<hosts, params, task, status, repo>>
  BY DEF Upload, cloud, targets
<1>2. HostsAreApart'
  <2>1. step' \in WithHosts
    BY <1>1 DEF WithHosts
  <2> QED BY <1>1, <2>1, SameHosts DEF WithHosts
<1>3. /\ hosts \in Seq(Seq(Machine)) /\ Len(hosts) \in Nat
      /\ \A i \in 1..Len(hosts) : \A m \in ToSet(hosts[i]) : m \in Machine
      /\ \A i, j \in 1..Len(hosts) : i # j => ToSet(hosts[i]) \cap ToSet(hosts[j]) = {}
      /\ Uploads \in Int /\ Uploads <= Len(hosts)
  BY <1>1, HostsAreMachines, UploadsType DEF WithHosts
<1>4. next \in Nat \ {0} /\ next <= Uploads /\ Configured(next - 1)
  BY <1>1 DEF IInv, Types, HostInv, HostsAreReady
<1>5. \A i \in 1..next : \A m \in ToSet(hosts[i]) : files'[m] = i
  <2> SUFFICES ASSUME NEW i \in 1..next, NEW m \in ToSet(hosts[i]) PROVE files'[m] = i
    OBVIOUS
  <2>1. i \in 1..Len(hosts) /\ next \in 1..Len(hosts)
    BY <1>3, <1>4
  <2>2. m \in Machine
    BY <1>3, <2>1
  <2>3. CASE i = next
    BY <1>1, <2>2, <2>3 DEF On
  <2>4. CASE i # next
    <3>1. i \in 1..next - 1
      BY <1>4, <2>4
    <3>2. m \notin ToSet(hosts[next])
      BY <1>3, <2>1, <2>4
    <3>3. files[m] = i
      BY <1>4, <3>1 DEF Configured
    <3> QED BY <1>1, <2>2, <3>2, <3>3 DEF On
  <2> QED BY <2>3, <2>4
<1>6. PICK n : n = next
  OBVIOUS
<1>7. Configured(n)'
  BY <1>1, <1>5, <1>6 DEF Configured
<1>8. \A i \in 1..Len(hosts) : \A m \in ToSet(hosts[i]) : repo[m] = "built"
  BY <1>1 DEF HostInv, HostsAreReady, WithHosts
<1>9. CASE next < Uploads
  <2>1. step' = "upload" /\ next' - 1 = n /\ next' <= Uploads
    BY <1>1, <1>3, <1>4, <1>6, <1>9
  <2>2. Uploads' = Uploads
    BY <1>1 DEF Uploads
  <2>3. (Configured(next - 1))'
    BY <1>7, <2>1 DEF Configured
  <2> QED BY <1>1, <1>2, <1>8, <2>1, <2>2, <2>3 DEF HostInv, HostsAreReady
<1>10. CASE ~(next < Uploads)
  <2>1. step' = "kill_run" /\ n = Uploads
    BY <1>1, <1>3, <1>4, <1>6, <1>10
  <2>2. Uploads' = n
    BY <1>1, <2>1 DEF Uploads
  <2>3. (Configured(Uploads))'
    BY <1>7, <2>2 DEF Configured
  <2> QED BY <1>1, <1>2, <1>8, <2>1, <2>3 DEF HostInv, HostsAreReady
<1> QED BY <1>9, <1>10

LEMMA KillRunHostInv == ASSUME HostInv, KillRun PROVE HostInv'
<1>1. PICK S : /\ step = "kill_run" /\ Succeeds(HostsOf(Size1), S, "clients")
               /\ UNCHANGED <<status, repo, files>>
  BY DEF KillRun, KillOn, cloud
<1>2. CASE S # HostsOf(Size1)
  BY <1>1, <1>2, StopsHostInv DEF Succeeds, targets
<1>3. CASE S = HostsOf(Size1)
  <2>1. step' = "clients" /\ UNCHANGED <<task, hosts, params>>
    BY <1>1, <1>3 DEF Succeeds, targets
  <2>2. HostsAreApart'
    BY <1>1, <2>1, SameHosts DEF WithHosts
  <2>3. HostsAreReady'
    <3>1. /\ \A i \in 1..Len(hosts) : \A m \in ToSet(hosts[i]) : repo[m] = "built"
          /\ Configured(Uploads)
      BY <1>1 DEF HostInv, HostsAreReady, WithHosts
    <3>2. (Configured(Uploads))'
      BY <1>1, <2>1, <3>1 DEF Configured, Uploads
    <3> QED BY <1>1, <2>1, <3>1, <3>2 DEF HostsAreReady
  <2> QED BY <2>2, <2>3 DEF HostInv
<1> QED BY <1>2, <1>3

LEMMA BootClientHostInv == ASSUME HostInv, BootClient PROVE HostInv'
<1>1. step = "clients" /\ UNCHANGED <<step, status, repo, files, task, hosts, params>>
  BY DEF BootClient, cloud, targets
<1>2. HostsAreApart'
  BY <1>1, SameHosts DEF WithHosts
<1>3. HostsAreReady'
  <2>1. /\ \A i \in 1..Len(hosts) : \A m \in ToSet(hosts[i]) : repo[m] = "built"
        /\ Configured(Uploads)
    BY <1>1 DEF HostInv, HostsAreReady, WithHosts
  <2>2. (Configured(Uploads))'
    BY <1>1, <2>1 DEF Configured, Uploads
  <2> QED BY <1>1, <2>1, <2>2 DEF HostsAreReady
<1> QED BY <1>2, <1>3 DEF HostInv

LEMMA DriveHostInv == ASSUME IInv, HostInv, Drive PROVE HostInv'
<1>1. CASE ListHosts
  <2>1. UNCHANGED hosts /\ step' = task /\ task \in {"install", "kill"}
    BY <1>1 DEF ListHosts, bench, IInv, Steps, targets
  <2>2. step' \notin WithHosts \cup {"select"} /\ hosts' \in Seq(Seq(Machine))
    BY <2>1 DEF HostInv, HostsAreApart, WithHosts
  <2> QED BY <2>2, NoRun
<1>2. CASE Install \/ Kill
  <2>1. \E S : Succeeds(ids, S, "end")
    BY <1>2 DEF Install, Kill, KillOn
  <2>2. Stops \/ (step' = "end" /\ UNCHANGED hosts)
    BY <2>1 DEF Succeeds, targets
  <2>3. CASE step' = "end" /\ UNCHANGED hosts
    <3>1. step' \notin WithHosts \cup {"select"} /\ hosts' \in Seq(Seq(Machine))
      BY <2>3 DEF HostInv, HostsAreApart, WithHosts
    <3> QED BY <3>1, NoRun
  <2> QED BY <2>2, <2>3, StopsHostInv
<1>3. CASE UploadFails \/ BootFails \/ RunPrimary \/ BenchFails
  <2>1. Stops
    BY <1>3 DEF UploadFails, BootFails, RunPrimary, BenchFails
  <2> QED BY <2>1, StopsHostInv
<1> QED
  BY <1>1, <1>2, <1>3, SelectHostsHostInv, UpdateHostInv, ConfigHostInv, UploadHostInv,
     KillRunHostInv, BootClientHostInv DEF Drive

(* No call of the InstanceManager is part of a run.                         *)
LEMMA ManageHostInv == ASSUME IInv, HostInv, Manage, UNCHANGED bench PROVE HostInv'
<1>1. next \in Nat \ {0} /\ Regions \in Nat \ {0}
  BY InstancesAssumption DEF IInv, Types
<1>2. step' \notin WithHosts \cup {"select"}
  <2>1. CASE CreateGroup \/ DuplicateGroup \/ Authorize \/ RunInstances \/ AwaitBoot
    BY <2>1 DEF CreateGroup, DuplicateGroup, Authorize, RunInstances, AwaitBoot, Advance,
                Ends, WithHosts
  <2>2. CASE ListLive \/ ListHalted \/ ListActive
    BY <2>2 DEF ListLive, ListHalted, ListActive, Lists, Ends, WithHosts
  <2>3. CASE SkipRegion
    BY <2>3 DEF SkipRegion, After, Advance, WithHosts
  <2>4. CASE TerminateInstances \/ AwaitGone \/ DeleteGroup \/ StartInstances \/ StopInstances
    BY <2>4 DEF TerminateInstances, AwaitGone, DeleteGroup, StartInstances, StopInstances,
                Advance, WithHosts
  <2>5. CASE Reports \/ CallIsRefused \/ CallFails
    BY <2>5 DEF Reports, CallIsRefused, CallFails, Ends, WithHosts
  <2> QED BY <2>1, <2>2, <2>3, <2>4, <2>5 DEF Manage
<1>3. hosts' \in Seq(Seq(Machine))
  BY DEF bench, targets, HostInv, HostsAreApart
<1> QED BY <1>2, <1>3, NoRun

LEMMA TasksHostInv == ASSUME HostInv, Tasks PROVE HostInv'
<1>1. hosts' \in Seq(Seq(Machine))
  BY DEF Tasks, Create, Start, Remote, Destroy, Stop, Info, NoKill, InstallTask, KillTask, bench,
         HostInv, HostsAreApart, targets
<1>2. CASE \E p \in BenchParams : Remote(p)
  <2>1. step' = "select" /\ task' = "remote" /\ params' \in BenchParams
    BY <1>2 DEF Remote, Begin
  <2> QED BY <1>1, <2>1 DEF HostInv, HostsAreApart, HostsAreReady, WithHosts
<1>3. CASE ~(\E p \in BenchParams : Remote(p))
  <2>1. step' \in {"group", "list_live", "list_halted", "list_active", "end", "hosts"}
    BY <1>3 DEF Tasks, Create, Start, Destroy, Stop, Info, NoKill, InstallTask, KillTask, Begin
  <2>2. step' \notin WithHosts \cup {"select"}
    BY <2>1 DEF WithHosts
  <2> QED BY <1>1, <2>2, NoRun
<1> QED BY <1>2, <1>3

(* The machines of a run do not halt or go while it lasts.                  *)
LEMMA MovesHostInv ==
  ASSUME IInv, HostInv, NEW m \in Machine, NEW from, NEW to, Moves(m, from, to),
         <<from, to>> \in {<<"pending", "running">>, <<"stopping", "stopped">>,
                           <<"shutting-down", "none">>},
         UNCHANGED <<hosts, params>>,
         \A k \in Machine : k # m \/ to = "running" => repo'[k] = repo[k] /\ files'[k] = files[k]
  PROVE  HostInv'
<1>1. /\ status[m] = from /\ status' = [status EXCEPT ![m] = to]
      /\ status = [k \in Machine |-> status[k]]
      /\ UNCHANGED <<step, next, task>>
  BY DEF Moves, fab, IInv, Types
<1>2. \/ from = "pending" /\ to = "running"
      \/ from \notin {"pending", "running"} /\ to \notin {"pending", "running"}
  OBVIOUS
<1>3. WithStatus({"pending", "running"})' = WithStatus({"pending", "running"})
  BY <1>1, <1>2 DEF WithStatus
<1>4. HostsAreApart'
  BY <1>1, <1>3 DEF HostInv, HostsAreApart
<1>5. CASE step \notin WithHosts
  BY <1>1, <1>4, <1>5 DEF HostInv, HostsAreReady, WithHosts
<1>6. CASE step \in WithHosts
  <2>1. /\ params \in BenchParams /\ hosts \in Seq(Seq(Machine)) /\ Len(hosts) \in Nat
        /\ \A i \in 1..Len(hosts) : \A k \in ToSet(hosts[i]) :
             k \in Machine /\ status[k] \in {"pending", "running"}
    BY <1>6, HostsAreMachines
  <2>2. \A i \in 1..Len(hosts) : \A k \in ToSet(hosts[i]) :
          repo'[k] = repo[k] /\ files'[k] = files[k]
    BY <1>1, <1>2, <2>1
  <2>3. Uploads \in Int /\ Uploads <= Len(hosts) /\ Uploads' = Uploads
    BY <2>1, UploadsType DEF Uploads
  <2>4. PICK u : u = Uploads
    OBVIOUS
  <2>5. ASSUME NEW n \in Int, n <= Len(hosts), Configured(n) PROVE Configured(n)'
    <3>1. \A i \in 1..n : i \in 1..Len(hosts)
      BY <2>1, <2>5
    <3> QED BY <2>2, <2>5, <3>1 DEF Configured
  <2>6. Configured(u) => (Configured(Uploads))'
    <3>1. Configured(u) => Configured(u)'
      BY <2>3, <2>4, <2>5
    <3>2. Uploads' = u
      BY <2>3, <2>4
    <3> QED BY <3>1, <3>2 DEF Configured
  <2>7. ASSUME step = "upload" PROVE next' <= Uploads' /\ (Configured(next - 1))'
    <3>1. PICK n : n = next - 1
      OBVIOUS
    <3>2. next \in Nat \ {0} /\ next <= Uploads /\ Configured(n)
      BY <2>7, <3>1 DEF IInv, Types, HostInv, HostsAreReady
    <3>3. n \in Int /\ n <= Len(hosts)
      BY <2>1, <2>3, <3>1, <3>2
    <3>4. Configured(n)'
      BY <2>5, <3>2, <3>3
    <3>5. (next - 1)' = n
      BY <1>1, <3>1
    <3> QED BY <1>1, <2>3, <3>2, <3>4, <3>5 DEF Configured
  <2>8. /\ step = "upload" => next' <= Uploads' /\ (Configured(next - 1))'
        /\ step \in {"kill_run", "clients"} => (Configured(Uploads))'
        /\ step \in WithHosts \ {"update"} =>
             \A i \in 1..Len(hosts) : \A k \in ToSet(hosts[i]) : repo'[k] = "built"
        /\ step = "config" => next = 1
    BY <2>2, <2>4, <2>6, <2>7 DEF HostInv, HostsAreReady
  <2> QED BY <1>1, <1>4, <2>8 DEF HostInv, HostsAreReady
<1> QED BY <1>4, <1>5, <1>6 DEF HostInv

LEMMA SameHostInv ==
  ASSUME HostInv, UNCHANGED <<cloud, fab, repo, files, hosts, params>>
  PROVE  HostInv'
<1>1. UNCHANGED <<status, task, step, next, repo, files, hosts, params>>
  BY DEF cloud, fab
<1>2. /\ WithStatus({"pending", "running"})' = WithStatus({"pending", "running"})
      /\ Uploads' = Uploads
  BY <1>1 DEF WithStatus, Uploads
<1>3. HostsAreApart'
  BY <1>1, <1>2 DEF HostInv, HostsAreApart
<1>4. /\ (Configured(Uploads))' <=> Configured(Uploads)
      /\ (Configured(next - 1))' <=> Configured(next - 1)
  BY <1>1, <1>2 DEF Configured
<1>5. HostsAreReady'
  BY <1>1, <1>2, <1>4 DEF HostInv, HostsAreReady
<1> QED BY <1>3, <1>5 DEF HostInv

LEMMA MachineMovesHostInv == ASSUME IInv, RunInv, MachineMoves PROVE HostInv'
<1>1. PICK m \in Machine : MachineBoots(m) \/ MachineHalts(m) \/ MachineGoes(m)
  BY DEF MachineMoves
<1>2. PICK from, to : /\ Moves(m, from, to)
                      /\ <<from, to>> \in {<<"pending", "running">>, <<"stopping", "stopped">>,
                                           <<"shutting-down", "none">>}
                      /\ to = "running" => UNCHANGED <<repo, files>>
                      /\ to # "running" =>
                           \/ UNCHANGED <<repo, files>>
                           \/ /\ repo' = [repo EXCEPT ![m] = "none"]
                              /\ files' = [files EXCEPT ![m] = 0]
                      /\ UNCHANGED <<hosts, params>>
  BY <1>1 DEF MachineBoots, MachineHalts, MachineGoes, Boots, Halts, Goes, bench, disks, targets
<1>3. \A k \in Machine : k # m \/ to = "running" => repo'[k] = repo[k] /\ files'[k] = files[k]
  BY <1>2 DEF RunInv, RunTypes
<1>4. HostInv
  BY DEF RunInv, HostInv
<1> QED BY <1>2, <1>3, <1>4, MovesHostInv

LEMMA StepHostInv == ASSUME IInv, RunInv, [FabNext]_all_vars PROVE HostInv'
<1>1. HostInv
  BY DEF RunInv, HostInv
<1>2. CASE UNCHANGED remote_vars
  BY <1>1, <1>2, SameHostInv DEF remote_vars, bench, disks, targets
<1>3. CASE Tasks
  BY <1>1, <1>3, TasksHostInv
<1>4. CASE Calling
  BY <1>1, <1>4, ManageHostInv, DriveHostInv DEF Calling
<1>5. CASE MachineMoves
  BY <1>5, MachineMovesHostInv
<1>6. CASE \E m \in Machine : ClientEnds(m)
  BY <1>1, <1>6, SameHostInv DEF ClientEnds, targets
<1> QED BY <1>2, <1>3, <1>4, <1>5, <1>6 DEF FabNext, RemoteNext, all_vars

-----------------------------------------------------------------------------
(***************************************************************************)
(* The types of what a task holds, and of what is on the disks.            *)
(***************************************************************************)
(* What a call may do to what the task holds: it stays, or all is dropped.  *)
Held ==
  /\ task' \in {task, "none"} /\ arg' \in {arg, 0} /\ ids' \in SUBSET Machine
  /\ params' \in {params, NoParams} /\ inside' \in {inside, FALSE} /\ UNCHANGED tasks
  /\ failures' = failures \/ (failures < MaxFailures /\ failures' = failures + 1)

LEMMA HeldTypes ==
  ASSUME RunTypes, Held, repo' \in [Machine -> {"none", "cloned", "built"}],
         files' \in [Machine -> Nat], \A m \in Machine : sessions'[m] \in SUBSET (Nat \X Nat)
  PROVE  RunTypes'
<1>1. failures' \in 0..MaxFailures
  BY InstancesAssumption DEF RunTypes, Held
<1>2. inside' \in BOOLEAN
  BY Zenon DEF RunTypes, Held
<1> QED BY <1>1, <1>2 DEF RunTypes, Held

LEMMA HeldSameDisks == ASSUME RunTypes, Held, UNCHANGED disks PROVE RunTypes'
<1>1. /\ repo' \in [Machine -> {"none", "cloned", "built"}] /\ files' \in [Machine -> Nat]
      /\ \A m \in Machine : sessions'[m] \in SUBSET (Nat \X Nat)
  BY DEF disks, RunTypes
<1> QED BY <1>1, HeldTypes

LEMMA ManageTypes == ASSUME RunTypes, Manage, UNCHANGED bench PROVE RunTypes'
<1>1. \A S : WithStatus(S) \in SUBSET Machine
  BY DEF WithStatus
<1>2. ids \in SUBSET Machine /\ {} \in SUBSET Machine
  BY DEF RunTypes
<1>3. UNCHANGED <<disks, params, inside>>
  BY DEF bench, targets
<1>4. Held
  <2>1. CASE CreateGroup \/ DuplicateGroup \/ Authorize \/ RunInstances \/ AwaitBoot
    BY <1>2, <1>3, <2>1 DEF CreateGroup, DuplicateGroup, Authorize, RunInstances, AwaitBoot,
                            Advance, Ends, Held
  <2>2. CASE ListLive \/ ListHalted \/ ListActive
    BY <1>1, <1>2, <1>3, <2>2 DEF ListLive, ListHalted, ListActive, Lists, Ends, Held
  <2>3. CASE SkipRegion \/ TerminateInstances \/ AwaitGone \/ DeleteGroup
    BY <1>2, <1>3, <2>3 DEF SkipRegion, TerminateInstances, AwaitGone, DeleteGroup, Advance,
                            Held
  <2>4. CASE StartInstances \/ StopInstances
    BY <1>2, <1>3, <2>4 DEF StartInstances, StopInstances, Advance, Held
  <2>5. CASE Reports \/ CallIsRefused \/ CallFails
    BY <1>2, <1>3, <2>5 DEF Reports, CallIsRefused, CallFails, Ends, Held
  <2> QED BY <2>1, <2>2, <2>3, <2>4, <2>5 DEF Manage
<1> QED BY <1>3, <1>4, HeldSameDisks

LEMMA StopsHeld ==
  ASSUME Stops, failures' = failures \/ (failures < MaxFailures /\ failures' = failures + 1)
  PROVE  Held
BY DEF Stops, Ends, Held

LEMMA SucceedsHeld ==
  ASSUME RunTypes, NEW able, NEW S, GroupRun(able, S), NEW all, NEW after,
         Succeeds(all, S, after)
  PROVE  Held
<1>1. failures' = failures \/ (failures < MaxFailures /\ failures' = failures + 1)
  BY DEF GroupRun
<1>2. CASE S = all
  BY <1>1, <1>2 DEF Succeeds, RunTypes, Held, targets
<1> QED BY <1>1, <1>2, StopsHeld DEF Succeeds, targets

LEMMA OnTypes ==
  ASSUME NEW T, NEW f \in [Machine -> T], NEW S, NEW v \in T
  PROVE  On(S, f, v) \in [Machine -> T]
BY DEF On

LEMMA DriveTypes == ASSUME IInv, RunInv, Drive PROVE RunTypes'
<1>1. /\ RunTypes /\ HostInv
      /\ repo \in [Machine -> {"none", "cloned", "built"}] /\ files \in [Machine -> Nat]
      /\ \A m \in Machine : sessions[m] \in SUBSET (Nat \X Nat)
      /\ next \in Nat \ {0} /\ ids \in SUBSET Machine
  BY DEF RunInv, RunTypes, HostInv, IInv, Types
<1>2. CASE ListHosts
  <2>1. ids' \in SUBSET Machine
    BY <1>2 DEF ListHosts, Available, WithStatus
  <2>2. Held /\ UNCHANGED disks
    BY <1>2, <2>1 DEF ListHosts, Held, bench, targets
  <2> QED BY <1>1, <2>2, HeldSameDisks
<1>3. CASE SelectHosts \/ Config
  <2>1. Held /\ UNCHANGED disks
    BY <1>1, <1>3 DEF SelectHosts, Config, Stops, Ends, Held, bench, targets
  <2> QED BY <1>1, <2>1, HeldSameDisks
<1>4. CASE BootFails \/ RunPrimary \/ BenchFails
  <2>1. Held /\ UNCHANGED disks
    BY <1>4, StopsHeld DEF BootFails, RunPrimary, BenchFails
  <2> QED BY <1>1, <2>1, HeldSameDisks
<1>5. CASE Install
  <2>1. PICK able, S : /\ GroupRun(able, S) /\ Succeeds(ids, S, "end")
                       /\ repo' = On({m \in S : repo[m] = "none"}, repo, "cloned")
                       /\ UNCHANGED <<files, sessions>>
    BY <1>5 DEF Install
  <2>2. Held
    BY <1>1, <2>1, SucceedsHeld
  <2>3. repo' \in [Machine -> {"none", "cloned", "built"}]
    BY <1>1, <2>1, OnTypes
  <2> QED BY <1>1, <2>1, <2>2, <2>3, HeldTypes
<1>6. CASE Kill \/ KillRun
  <2>1. PICK all, able, S, after :
          /\ GroupRun(able, S) /\ Succeeds(all, S, after)
          /\ Kills(S) /\ UNCHANGED <<repo, files, status>>
    BY <1>6 DEF Kill, KillRun, KillOn, cloud
  <2>2. Held
    BY <1>1, <2>1, SucceedsHeld
  <2>3. \A m \in Machine : sessions'[m] \in SUBSET (Nat \X Nat)
    <3>1. \A m \in Machine : sessions'[m] \subseteq sessions[m]
      BY <2>1, KilledAwake
    <3> QED BY <1>1, <3>1 DEF RunTypes
  <2> QED BY <1>1, <2>1, <2>2, <2>3, HeldTypes
<1>7. CASE Update
  <2>1. PICK all, able, S : /\ GroupRun(able, S) /\ Succeeds(all, S, "config")
                            /\ repo' = On(S, repo, "built") /\ UNCHANGED <<files, sessions>>
    BY <1>7 DEF Update
  <2>2. Held
    BY <1>1, <2>1, SucceedsHeld
  <2>3. repo' \in [Machine -> {"none", "cloned", "built"}]
    BY <1>1, <2>1, OnTypes
  <2> QED BY <1>1, <2>1, <2>2, <2>3, HeldTypes
<1>8. CASE Upload
  <2>1. Held /\ UNCHANGED <<repo, sessions>>
    BY <1>1, <1>8 DEF Upload, Held, targets
  <2>2. files' \in [Machine -> Nat]
    BY <1>1, <1>8, OnTypes DEF Upload, targets
  <2> QED BY <1>1, <2>1, <2>2, HeldTypes
<1>9. CASE UploadFails
  <2>1. Held /\ UNCHANGED <<repo, sessions>>
    BY <1>9, StopsHeld DEF UploadFails
  <2>2. \A S : On(S, files, next) \in [Machine -> Nat]
    BY <1>1, OnTypes
  <2>3. \A S, R : On(R, On(S, files, next), 0) \in [Machine -> Nat]
    BY <2>2, OnTypes
  <2>4. files' \in [Machine -> Nat]
    BY <1>9, <2>2, <2>3 DEF UploadFails
  <2> QED BY <1>1, <2>1, <2>4, HeldTypes
<1>10. CASE BootClient
  <2>1. Held /\ UNCHANGED <<repo, files>>
    BY <1>1, <1>10 DEF BootClient, Held, targets
  <2>2. NodeOf(next) \in Nat /\ WorkerOf(next) \in Nat
    <3>1. params \in BenchParams
      BY <1>1, <1>10 DEF BootClient, HostInv, HostsAreApart, WithHosts, targets
    <3>2. params.workers \in Nat \ {0} /\ next - 1 \in Nat
      BY <1>1, <3>1, BenchAssumption
    <3>3. (next - 1) \div params.workers \in Nat /\ (next - 1) % params.workers \in Nat
      BY <3>2, Division
    <3> QED BY <3>3 DEF NodeOf, WorkerOf
  <2>3. sessions = [m \in Machine |-> sessions[m]]
    BY DEF IInv, Types
  <2>4. \A m \in Machine : sessions'[m] \in SUBSET (Nat \X Nat)
    BY <1>1, <1>10, <2>2, <2>3 DEF BootClient, targets
  <2> QED BY <1>1, <2>1, <2>4, HeldTypes
<1> QED
  BY <1>2, <1>3, <1>4, <1>5, <1>6, <1>7, <1>8, <1>9, <1>10 DEF Drive

LEMMA TasksTypes == ASSUME RunTypes, Tasks PROVE RunTypes'
<1>1. ASSUME NEW t \in TaskNames, NEW first, NEW n \in Nat, Begin(t, first, n)
      PROVE  /\ task' \in TaskNames /\ arg' \in Nat /\ ids' = {} /\ UNCHANGED failures
             /\ tasks' = tasks \/ (tasks < MaxTasks /\ tasks' = tasks + 1)
  BY <1>1 DEF Begin
<1>2. /\ task' \in TaskNames /\ arg' \in Nat /\ ids' = {} /\ UNCHANGED failures
      /\ tasks' = tasks \/ (tasks < MaxTasks /\ tasks' = tasks + 1)
  <2>1. /\ \A n \in CreateNodes : n \in Nat
        /\ \A n \in StartMax : n \in Nat
        /\ 0 \in Nat
    BY FabfileAssumption
  <2>2. {"create", "destroy", "start", "stop", "info", "install", "kill", "remote"} = TaskNames
    BY DEF TaskNames
  <2>3. CASE \E n \in CreateNodes : Create(n)
    BY <1>1, <2>1, <2>2, <2>3 DEF Create
  <2>4. CASE \E n \in StartMax : Start(n)
    BY <1>1, <2>1, <2>2, <2>4 DEF Start
  <2>5. CASE \E p \in BenchParams : Remote(p)
    BY <1>1, <2>1, <2>2, <2>5 DEF Remote
  <2>6. CASE Destroy \/ Stop \/ Info \/ InstallTask \/ KillTask
    BY <1>1, <2>1, <2>2, <2>6 DEF Destroy, Stop, Info, NoKill, InstallTask, KillTask
  <2> QED BY <2>3, <2>4, <2>5, <2>6 DEF Tasks
<1>3. tasks' \in 0..MaxTasks
  BY <1>2, InstancesAssumption DEF RunTypes
<1>4. UNCHANGED <<repo, files, sessions>> /\ params' \in BenchParams \cup {NoParams}
  BY DEF Tasks, Create, Start, Remote, Destroy, Stop, Info, NoKill, InstallTask, KillTask, bench,
         disks, RunTypes, targets
<1>5. inside' \in BOOLEAN
  BY Zenon DEF Tasks, Create, Start, Remote, Destroy, Stop, Info, NoKill, InstallTask, KillTask
<1> QED BY <1>2, <1>3, <1>4, <1>5 DEF RunTypes

LEMMA MachineMovesTypes == ASSUME RunTypes, MachineMoves, IInv PROVE RunTypes'
<1>1. PICK m \in Machine : MachineBoots(m) \/ MachineHalts(m) \/ MachineGoes(m)
  BY DEF MachineMoves
<1>2. /\ UNCHANGED <<task, ids, arg, tasks, failures, params, inside>>
      /\ repo' = repo \/ repo' = [repo EXCEPT ![m] = "none"]
      /\ files' = files \/ files' = [files EXCEPT ![m] = 0]
      /\ sessions' = sessions \/ sessions' = [sessions EXCEPT ![m] = {}]
  BY <1>1 DEF MachineBoots, MachineHalts, MachineGoes, Boots, Halts, Goes, Moves, bench,
              disks, fab, targets
<1>3. /\ repo' \in [Machine -> {"none", "cloned", "built"}] /\ files' \in [Machine -> Nat]
  BY <1>2 DEF RunTypes
<1>4. \A k \in Machine : sessions'[k] \in SUBSET (Nat \X Nat)
  <2>1. sessions = [k \in Machine |-> sessions[k]]
    BY DEF IInv, Types
  <2> QED BY <1>2, <2>1 DEF RunTypes
<1> QED BY <1>2, <1>3, <1>4 DEF RunTypes

LEMMA StepTypes == ASSUME IInv, RunInv, [FabNext]_all_vars PROVE RunTypes'
<1>1. RunTypes
  BY DEF RunInv
<1>2. CASE UNCHANGED remote_vars
  BY <1>1, <1>2 DEF remote_vars, fab, bench, disks, targets, RunTypes
<1>3. CASE Tasks
  BY <1>1, <1>3, TasksTypes
<1>4. CASE Calling
  BY <1>1, <1>4, ManageTypes, DriveTypes DEF Calling
<1>5. CASE MachineMoves
  BY <1>1, <1>5, MachineMovesTypes
<1>6. CASE \E m \in Machine : ClientEnds(m)
  <2>1. PICK m, c : m \in Machine /\ sessions' = [sessions EXCEPT ![m] = @ \ {c}]
    BY <1>6 DEF ClientEnds, targets
  <2>2. UNCHANGED <<task, ids, arg, tasks, failures, params, inside, repo, files>>
    BY <1>6 DEF ClientEnds, fab, targets
  <2>3. sessions = [k \in Machine |-> sessions[k]]
    BY DEF IInv, Types
  <2>4. \A k \in Machine : sessions'[k] \in SUBSET (Nat \X Nat)
    BY <1>1, <2>1, <2>3 DEF RunTypes
  <2> QED BY <1>1, <2>2, <2>4 DEF RunTypes
<1> QED BY <1>2, <1>3, <1>4, <1>5, <1>6 DEF FabNext, RemoteNext, all_vars

LEMMA InitRunInv == FabInit => RunInv
<1> SUFFICES ASSUME FabInit PROVE RunInv
  OBVIOUS
<1>1. RunTypes
  <2>1. inside \in BOOLEAN
    BY DEF FabInit, RemoteInit
  <2> QED BY <2>1, InstancesAssumption DEF FabInit, RemoteInit, RunTypes
<1>2. hosts \in Seq(Seq(Machine)) /\ step = "none"
  BY DEF FabInit, RemoteInit
<1> QED BY <1>1, <1>2 DEF RunInv, HostsAreApart, HostsAreReady, WithHosts

LEMMA RunInductive == FabSpec => []RunInv
<1>1. IInv /\ RunInv /\ [FabNext]_all_vars => RunInv'
  <2> SUFFICES ASSUME IInv, RunInv, [FabNext]_all_vars PROVE RunInv'
    OBVIOUS
  <2> QED BY StepHostInv, StepTypes DEF RunInv, HostInv
<1> QED BY <1>1, InitRunInv, Inductive, PTL DEF FabSpec

(***************************************************************************)
(* The types of both testbeds, of what a task of fabfile.py holds between  *)
(* two calls and of what is on the machines.  The clients in tmux are      *)
(* pairs of numbers only because remote.py divides by a number of workers  *)
(* that is not 0, and the hosts are lists of machines only because         *)
(* _select_hosts takes no more of a region than it has.                    *)
(***************************************************************************)
THEOREM FabTypeCorrect == FabSpec => []FabTypeOK
<1>1. TypeOK /\ IInv /\ RunInv => FabTypeOK
  <2> SUFFICES ASSUME TypeOK, IInv, RunInv PROVE FabTypeOK
    OBVIOUS
  <2>1. /\ status \in [Machine -> {"none", "pending", "running", "stopping", "stopped",
                                   "shutting-down"}]
        /\ group \in [Region -> {"none", "closed", "open"}]
        /\ next \in Nat \ {0} /\ said \in Claims \cup {"nothing"}
    BY DEF IInv, Types, States, Claimed
  <2>2. step \in Calls \cup {"none", "end", "hosts", "install", "kill", "select", "update",
                             "config", "upload", "kill_run", "clients"}
    BY DEF IInv, Steps, Calls, OfCreate, OfDestroy, OfStop, Quiet
  <2>3. hosts \in Seq(Seq(Machine))
    BY DEF RunInv, HostsAreApart
  <2> QED BY <2>1, <2>2, <2>3 DEF RunInv, RunTypes, FabTypeOK
<1> QED BY <1>1, LocalTypeCorrect, ImplementsTestbed, Inductive, RunInductive, PTL

-----------------------------------------------------------------------------
(* No client is booted for a node whose files were not sent: those of the   *)
(* first committee that are not faulty are among the nodes that got some.   *)
LEMMA ClientsNode ==
  ASSUME HostInv, step = "clients", next \in Nat \ {0}, next <= Clients
  PROVE  /\ NodeOf(next) \in 1..Uploads /\ Uploads \in 1..Len(hosts)
         /\ ClientHost(next) \in ToSet(hosts[NodeOf(next)])
<1>1. /\ params \in BenchParams /\ hosts \in Seq(Seq(Machine)) /\ Len(hosts) \in Nat
      /\ \A i \in 1..Len(hosts) : Len(hosts[i]) = params.workers + 1
  BY HostsAreMachines DEF WithHosts
<1>2. params.workers \in Nat \ {0} /\ params.faults \in Nat /\ params.nodes[1] \in Nat
  BY <1>1, BenchAssumption
<1>3. Size1 \in Nat /\ Size1 <= Len(hosts)
  BY <1>1, <1>2, MinIsLeast DEF Size1
<1>4. params.faults < Size1 /\ Clients = (Size1 - params.faults) * params.workers
  BY DEF Clients
<1>5. PICK alive \in Nat : alive = Size1 - params.faults
  BY <1>2, <1>3, <1>4
<1>6. Uploads = Len(hosts) - params.faults /\ alive <= Uploads /\ Uploads \in 1..Len(hosts)
  <2>1. params.faults <= Len(hosts) /\ Size1 - params.faults >= 1
    BY <1>1, <1>2, <1>3, <1>4
  <2>2. Uploads = Len(hosts) - params.faults
    BY <1>1, <2>1, UploadsType
  <2>3. Uploads \in Nat /\ Uploads <= Len(hosts) /\ alive <= Uploads
    <3>1. Len(hosts) \in Nat /\ params.faults \in Nat /\ Size1 \in Nat
      BY <1>1, <1>2, <1>3
    <3> QED BY <3>1, <1>3, <1>5, <2>1, <2>2
  <2>4. alive >= 1
    BY <1>5, <2>1
  <2> QED BY <2>2, <2>3, <2>4
<1>7. NodeOf(next) \in 1..alive
  <2>1. next - 1 \in Nat /\ next - 1 < alive * params.workers
    <3>1. alive * params.workers \in Nat
      BY <1>2
    <3> QED BY <1>4, <1>5, <3>1
  <2>2. (next - 1) \div params.workers < alive /\ (next - 1) \div params.workers \in Nat
    BY <1>2, <2>1, Quotient, Division
  <2> QED BY <2>2 DEF NodeOf
<1>8. WorkerOf(next) + 1 \in 2..params.workers + 1
  <2>1. next - 1 \in Nat
    OBVIOUS
  <2>2. (next - 1) % params.workers \in 0..params.workers - 1
    BY <1>2, <2>1, Division
  <2> QED BY <1>2, <2>2 DEF WorkerOf
<1>9. NodeOf(next) \in 1..Uploads /\ NodeOf(next) \in 1..Len(hosts)
  BY <1>5, <1>6, <1>7
<1>10. WorkerOf(next) + 1 \in 1..Len(hosts[NodeOf(next)])
  <2>1. Len(hosts[NodeOf(next)]) = params.workers + 1
    BY <1>1, <1>9
  <2> QED BY <1>2, <1>8, <2>1
<1>11. hosts[NodeOf(next)] \in Seq(Machine)
  BY <1>1, <1>9
<1>12. ClientHost(next) \in ToSet(hosts[NodeOf(next)])
  BY <1>10, <1>11 DEF ClientHost, ToSet
<1> QED BY <1>6, <1>9, <1>12

LEMMA BootsConfigured ==
  ASSUME IInv, RunInv, BootClient, NEW m \in Machine, NEW c \in sessions'[m] \ sessions[m]
  PROVE  repo[m] = "built" /\ files[m] = c[1]
<1>1. /\ step = "clients" /\ next \in Nat \ {0} /\ next <= Clients /\ HostInv
      /\ sessions = [k \in Machine |-> sessions[k]]
      /\ sessions' = [sessions EXCEPT ![ClientHost(next)] =
                                        @ \cup {<<NodeOf(next), WorkerOf(next)>>}]
  BY DEF BootClient, IInv, Types, RunInv, HostInv, targets
<1>2. m = ClientHost(next) /\ c = <<NodeOf(next), WorkerOf(next)>>
  BY <1>1
<1>3. /\ NodeOf(next) \in 1..Uploads /\ Uploads \in 1..Len(hosts)
      /\ m \in ToSet(hosts[NodeOf(next)])
  BY <1>1, <1>2, ClientsNode
<1>4. /\ Configured(Uploads)
      /\ \A i \in 1..Len(hosts) : \A k \in ToSet(hosts[i]) : repo[k] = "built"
  BY <1>1 DEF HostInv, HostsAreReady, WithHosts
<1>5. NodeOf(next) \in 1..Len(hosts)
  BY <1>3
<1> QED BY <1>2, <1>3, <1>4, <1>5 DEF Configured

(* Nothing but booting a client makes one.                                  *)
LEMMA NoNewClients ==
  ASSUME IInv, [FabNext]_all_vars, ~BootClient, NEW m \in Machine
  PROVE  sessions'[m] \subseteq sessions[m]
<1>1. sessions = [k \in Machine |-> sessions[k]]
  BY DEF IInv, Types
<1>2. CASE UNCHANGED sessions
  BY <1>2
<1>3. CASE Kill \/ KillRun
  <2>1. PICK S : Kills(S) /\ UNCHANGED status
    BY <1>3 DEF Kill, KillRun, KillOn, cloud
  <2> QED BY <2>1, KilledAwake
<1>4. CASE MachineMoves
  <2>1. PICK k \in Machine : sessions' = sessions \/ sessions' = [sessions EXCEPT ![k] = {}]
    BY <1>4 DEF MachineMoves, MachineBoots, MachineHalts, MachineGoes, bench, disks, targets
  <2> QED BY <1>1, <2>1
<1>5. CASE \E k \in Machine : ClientEnds(k)
  <2>1. PICK k, c : k \in Machine /\ sessions' = [sessions EXCEPT ![k] = @ \ {c}]
    BY <1>5 DEF ClientEnds, targets
  <2> QED BY <1>1, <2>1
<1>6. CASE Tasks \/ UNCHANGED remote_vars \/ (Manage /\ UNCHANGED bench)
  <2>1. UNCHANGED sessions
    BY <1>6 DEF Tasks, Create, Start, Remote, Destroy, Stop, Info, NoKill, InstallTask, KillTask,
                bench, disks, remote_vars, targets
  <2> QED BY <2>1, <1>2
<1>7. CASE Drive
  <2>1. Kill \/ KillRun \/ UNCHANGED sessions
    BY <1>7 DEF Drive, ListHosts, Install, SelectHosts, Update, Config, Upload, UploadFails,
                BootFails, RunPrimary, BenchFails, bench, disks, targets
  <2> QED BY <2>1, <1>2, <1>3
<1> QED
  BY <1>4, <1>5, <1>6, <1>7 DEF FabNext, RemoteNext, Calling, all_vars

(***************************************************************************)
(* Whatever committees are asked for, and whatever earlier runs left: no   *)
(* client is booted but on a machine that is built and that holds the      *)
(* files of the client's own node.  It takes that no machine is a host of  *)
(* two nodes, so that the files of a node are not overwritten by the next  *)
(* one's, and that the nodes which get clients are among those which got   *)
(* files, though _config counts from all the hosts and _run_single from    *)
(* the size of the committee.                                              *)
(***************************************************************************)
THEOREM ClientsConfigured == FabSpec => ClientsAreConfigured
<1>1. IInv /\ RunInv /\ [FabNext]_all_vars =>
        \A m \in Machine : \A c \in sessions'[m] \ sessions[m] :
          repo[m] = "built" /\ files[m] = c[1]
  <2> SUFFICES ASSUME IInv, RunInv, [FabNext]_all_vars,
                      NEW m \in Machine, NEW c \in sessions'[m] \ sessions[m]
               PROVE  repo[m] = "built" /\ files[m] = c[1]
    OBVIOUS
  <2>1. BootClient
    BY NoNewClients
  <2> QED BY <2>1, BootsConfigured
<1> QED BY <1>1, Inductive, RunInductive, PTL DEF FabSpec, ClientsAreConfigured

-----------------------------------------------------------------------------
(* The hosts of a run that does not collocate, and that there are none when *)
(* there is no run.                                                         *)
EnoughDedicated ==
  hosts # << >> =>
    step \in WithHosts /\ (~params.collocate => Len(hosts) = MaxNodes)

LEMMA SelectHostsEnough == ASSUME RunInv, SelectHosts PROVE EnoughDedicated'
<1>1. params \in BenchParams
  BY DEF SelectHosts, RunInv, HostsAreApart, WithHosts
<1>2. CASE Stops
  BY <1>2 DEF Stops, EnoughDedicated
<1>3. CASE ~Stops
  <2>1. PICK lists : hosts' = IF params.collocate THEN Collocated(lists) ELSE Dedicated(lists)
    BY <1>3 DEF SelectHosts
  <2>2. step' = "update" /\ UNCHANGED params
    BY <1>3 DEF SelectHosts
  <2>3. Len(Dedicated(lists)) = MaxNodes
    <3>1. PICK n \in Nat : n = MaxNodes
      BY <1>1, LargestCommittee
    <3> QED BY <3>1 DEF Dedicated
  <2>4. MaxNodes' = MaxNodes
    BY <2>2 DEF MaxNodes
  <2> QED BY <2>1, <2>2, <2>3, <2>4 DEF EnoughDedicated, WithHosts
<1> QED BY <1>2, <1>3

LEMMA SameHostsEnough ==
  ASSUME EnoughDedicated, UNCHANGED <<hosts, params>>,
         step \notin WithHosts \/ step' \in WithHosts
  PROVE  EnoughDedicated'
<1>1. MaxNodes' = MaxNodes
  BY DEF MaxNodes
<1> QED BY <1>1 DEF EnoughDedicated

LEMMA StopsEnough == ASSUME Stops PROVE EnoughDedicated'
BY DEF Stops, EnoughDedicated

LEMMA DriveEnough == ASSUME RunInv, EnoughDedicated, Drive PROVE EnoughDedicated'
<1>1. CASE SelectHosts
  BY <1>1, SelectHostsEnough
<1>2. CASE UploadFails \/ BootFails \/ RunPrimary \/ BenchFails
  <2>1. Stops
    BY <1>2 DEF UploadFails, BootFails, RunPrimary, BenchFails
  <2> QED BY <2>1, StopsEnough
<1>3. CASE ListHosts \/ Install \/ Kill
  <2>1. step \notin WithHosts
    BY <1>3 DEF ListHosts, Install, Kill, WithHosts
  <2>2. UNCHANGED <<hosts, params>> \/ Stops
    BY <1>3 DEF ListHosts, Install, Kill, KillOn, Succeeds, bench, targets
  <2> QED BY <2>1, <2>2, SameHostsEnough, StopsEnough
<1>4. CASE Update \/ KillRun \/ Config \/ Upload \/ BootClient
  <2>1. Stops \/ (UNCHANGED <<hosts, params>> /\ step' \in WithHosts)
    BY <1>4 DEF Update, KillRun, KillOn, Succeeds, Config, Upload, BootClient, bench, WithHosts, targets
  <2> QED BY <2>1, SameHostsEnough, StopsEnough
<1> QED BY <1>1, <1>2, <1>3, <1>4 DEF Drive

(***************************************************************************)
(* The comment in _select_hosts, "Ensure there are enough hosts", is true  *)
(* of a run that does not collocate: its hosts are as many as the largest  *)
(* committee, in any regions.  The run too_few_hosts shows that it is not  *)
(* of one that does.                                                       *)
(***************************************************************************)
THEOREM DedicatedAreEnough ==
  FabSpec => [](hosts # << >> /\ ~params.collocate => Len(hosts) = MaxNodes)
<1>1. FabInit => EnoughDedicated
  BY DEF FabInit, RemoteInit, EnoughDedicated
<1>2. ASSUME IInv, RunInv, EnoughDedicated, [FabNext]_all_vars PROVE EnoughDedicated'
  <2>1. CASE UNCHANGED <<hosts, params, step>>
    BY <1>2, <2>1, SameHostsEnough
  <2>2. CASE Drive
    BY <1>2, <2>2, DriveEnough
  <2>3. CASE Tasks
    <3>1. step = "none"
      BY <1>2, <2>3 DEF IInv, Steps, Tasks, Create, Start, Remote, Destroy, Stop, Info, NoKill,
                        InstallTask, KillTask, Begin
    <3>2. UNCHANGED hosts
      BY <2>3 DEF Tasks, Create, Start, Remote, Destroy, Stop, Info, NoKill, InstallTask, KillTask, bench, targets
    <3> QED BY <1>2, <3>1, <3>2 DEF EnoughDedicated, WithHosts
  <2>4. CASE Manage /\ UNCHANGED bench
    <3>1. step \notin WithHosts
      BY <2>4 DEF Manage, CreateGroup, Authorize, DuplicateGroup, RunInstances, AwaitBoot,
                  ListLive, ListHalted, ListActive, SkipRegion, After, TerminateInstances,
                  AwaitGone, DeleteGroup, StartInstances, StopInstances, Reports,
                  CallIsRefused, Refused, CallFails, Calls, WithHosts
    <3> QED BY <1>2, <2>4, <3>1, SameHostsEnough DEF bench, targets
  <2>5. CASE MachineMoves \/ \E m \in Machine : ClientEnds(m)
    <3>1. UNCHANGED <<hosts, params, step>>
      BY <2>5 DEF MachineMoves, MachineBoots, MachineHalts, MachineGoes, Boots, Halts, Goes,
                  Moves, ClientEnds, bench, fab, targets
    <3> QED BY <2>1, <3>1
  <2>6. CASE UNCHANGED remote_vars
    BY <2>1, <2>6 DEF remote_vars, bench, targets, fab
  <2> QED
    BY <1>2, <2>2, <2>3, <2>4, <2>5, <2>6 DEF FabNext, RemoteNext, Calling, all_vars
<1>3. EnoughDedicated => (hosts # << >> /\ ~params.collocate => Len(hosts) = MaxNodes)
  BY DEF EnoughDedicated
<1>4. IInv /\ RunInv /\ EnoughDedicated /\ [FabNext]_all_vars => EnoughDedicated'
  BY <1>2
<1> QED BY <1>1, <1>3, <1>4, Inductive, RunInductive, PTL DEF FabSpec
=============================================================================
