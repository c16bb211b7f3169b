------------------------------- MODULE Testbed -------------------------------
(***************************************************************************)
(* The local testbed of the Narwhal demo: the Committee that allots a port *)
(* to every endpoint (narwhal-abci/demo/benchmark/config.py), and          *)
(* LocalBench.run, which starts the applications, the primaries and the    *)
(* workers with them (local.py).                                           *)
(*                                                                         *)
(* Everything is on one host, so an address is a port.  A process started  *)
(* in a tmux session boots in its own time; run waits one second for the   *)
(* applications, which guarantees nothing, and Engine::new panics if it    *)
(* cannot connect to its application.  An interrupted run leaves its       *)
(* processes behind, for the next one to kill.  Compiling, key files, log  *)
(* files and the commented-out benchmark clients are left out.             *)
(***************************************************************************)
EXTENDS Naturals, Sequences, Functions

CONSTANTS
  Size,       \* nodes of the committee
  Workers,    \* workers of a node
  BasePort,
  Faults      \* nodes that are not started

ASSUME TestbedAssumption ==
  /\ Size \in Nat \ {0} /\ Workers \in Nat \ {0}
  /\ BasePort \in Nat /\ BasePort > 1024
  /\ Faults \in Nat /\ Faults < Size

VARIABLES
  port,         \* the next port of the committee's constructor
  authorities,  \* the committee so far
  phase,        \* what run is doing
  apps,         \* applications started
  listening,    \* the applications that have booted
  primaries,    \* primaries started
  engine,       \* engine[i]: application the engine of node i is connected to
  workers       \* workers started, in the order of the committee

vars == <<port, authorities, phase, apps, listening, primaries, engine, workers>>

processes == <<apps, listening, primaries, engine, workers>>

NoApp == 0
Dead  == Size + 1

NoProcess ==
  /\ apps' = 0 /\ primaries' = 0 /\ workers' = 0
  /\ listening' = {}
  /\ engine' = [i \in 1..Size |-> NoApp]

(* The task local: run kills any previous testbed before it makes a         *)
(* committee.                                                               *)
LocalTask ==
  /\ phase \in {"off", "left"}
  /\ phase' = "committee"
  /\ port' = BasePort /\ authorities' = << >>
  /\ NoProcess

-----------------------------------------------------------------------------
(* Committee.__init__: an authority's primary, and then its workers.        *)

(* Mutant: the two ports of the APIs are not counted.                       *)
M_PrimaryPorts == 2

PrimaryPorts == 4

WorkerPorts == 3

Primary(p) == [primary_to_primary |-> p, worker_to_primary |-> p + 1,
               api_rpc |-> p + 2, api_abci |-> p + 3, workers |-> << >>]

Worker(p) == [primary_to_worker |-> p, transactions |-> p + 1,
              worker_to_worker |-> p + 2]

Current == Len(authorities)

NeedsWorker == authorities # << >> /\ Len(authorities[Current].workers) < Workers

AddPrimary ==
  /\ phase = "committee"
  /\ ~NeedsWorker /\ Current < Size
  /\ authorities' = Append(authorities, Primary(port))
  /\ port' = port + PrimaryPorts
  /\ UNCHANGED <<phase, processes>>

AddWorker ==
  /\ phase = "committee"
  /\ NeedsWorker
  /\ authorities' = [authorities EXCEPT ![Current].workers = Append(@, Worker(port))]
  /\ port' = port + WorkerPorts
  /\ UNCHANGED <<phase, processes>>

-----------------------------------------------------------------------------
(* app_addresses and the processes of run: the first Size - Faults of the   *)
(* committee are used.                                                      *)
Good == Size - Faults

(* Mutant: run_primary is given the first application for every primary.    *)
M_AppAddress(i) == authorities[1].api_abci

AppAddress(i) == authorities[i].api_abci

(* LocalBench.run, from the committee on.                                   *)
StartApps ==
  /\ phase = "committee"
  /\ ~NeedsWorker /\ Current = Size
  /\ phase' = "apps"
  /\ UNCHANGED <<port, authorities, processes>>

(* The applications in order, each to listen at its own address.            *)
StartApp ==
  /\ phase = "apps"
  /\ apps < Good
  /\ apps' = apps + 1
  /\ UNCHANGED <<port, authorities, phase, listening, primaries, engine, workers>>

(* Mutant: the address of an application instead of its number.             *)
M_Listens(i) ==
  /\ i <= apps /\ AppAddress(i) \notin listening
  /\ listening' = listening \cup {AppAddress(i)}
  /\ UNCHANGED <<port, authorities, phase, apps, primaries, engine, workers>>

Listens(i) ==
  /\ i <= apps /\ i \notin listening
  /\ listening' = listening \cup {i}
  /\ UNCHANGED <<port, authorities, phase, apps, primaries, engine, workers>>

SleepOne ==
  /\ phase = "apps"
  /\ apps = Good
  /\ phase' = "primaries"
  /\ UNCHANGED <<port, authorities, processes>>

StartPrimary ==
  /\ phase = "primaries"
  /\ primaries < Good
  /\ primaries' = primaries + 1
  /\ UNCHANGED <<port, authorities, phase, apps, listening, engine, workers>>

(* Engine::new of node i, at the address that run_primary was given: it is  *)
(* connected to whichever application listens there, or panics.             *)
ListenersAt(p) == {k \in listening : authorities[k].api_abci = p}

Connects(i) ==
  /\ i <= primaries /\ engine[i] = NoApp
  /\ \E k \in ListenersAt(AppAddress(i)) : engine' = [engine EXCEPT ![i] = k]
  /\ UNCHANGED <<port, authorities, phase, apps, listening, primaries, workers>>

ConnectFails(i) ==
  /\ i <= primaries /\ engine[i] = NoApp
  /\ ListenersAt(AppAddress(i)) = {}
  /\ engine' = [engine EXCEPT ![i] = Dead]
  /\ UNCHANGED <<port, authorities, phase, apps, listening, primaries, workers>>

StartWorker ==
  /\ phase = "primaries"
  /\ primaries = Good
  /\ workers < Good * Workers
  /\ workers' = workers + 1
  /\ UNCHANGED <<port, authorities, phase, apps, listening, primaries, engine>>

(* At the end, or when a command fails: kill all the tmux sessions, or all  *)
(* but the one that the user's shell runs in.                               *)
KillNodes ==
  /\ phase \in {"committee", "apps", "primaries"}
  /\ phase' = "off"
  /\ NoProcess
  /\ UNCHANGED <<port, authorities>>

(* A KeyboardInterrupt is no Exception: nothing is killed.                  *)
Interrupt ==
  /\ phase \in {"committee", "apps", "primaries"}
  /\ phase' = "left"
  /\ UNCHANGED <<port, authorities, processes>>

Init ==
  /\ port = BasePort
  /\ authorities = << >>
  /\ phase = "off"
  /\ apps = 0 /\ primaries = 0 /\ workers = 0
  /\ listening = {}
  /\ engine = [i \in 1..Size |-> NoApp]

Next ==
  \/ LocalTask \/ AddPrimary \/ AddWorker
  \/ StartApps \/ StartApp \/ SleepOne \/ StartPrimary \/ StartWorker
  \/ KillNodes \/ Interrupt
  \/ \E i \in 1..Size : Listens(i) \/ Connects(i) \/ ConnectFails(i)

Spec == Init /\ [][Next]_vars

-----------------------------------------------------------------------------
WorkerRecord == [primary_to_worker : Nat, transactions : Nat, worker_to_worker : Nat]

Authority == [primary_to_primary : Nat, worker_to_primary : Nat,
              api_rpc : Nat, api_abci : Nat, workers : Seq(WorkerRecord)]

TypeOK ==
  /\ port \in Nat
  /\ authorities \in Seq(Authority)
  /\ phase \in {"off", "committee", "apps", "primaries", "left"}
  /\ apps \in Nat /\ primaries \in Nat /\ workers \in Nat
  /\ listening \in SUBSET (1..Size)
  /\ engine \in [1..Size -> 0..Size + 1]

(***************************************************************************)
(* No two endpoints have one port: those of two nodes, of two workers of a *)
(* node, of a worker and its primary, of a primary and the application of  *)
(* its node, which listens at api_abci, and those of one process are all   *)
(* different, whatever the number of workers.                              *)
(***************************************************************************)
PrimaryList(a) ==
  <<a.primary_to_primary, a.worker_to_primary, a.api_rpc, a.api_abci>>

WorkerList(w) == <<w.primary_to_worker, w.transactions, w.worker_to_worker>>

PrimaryEndpoints(a) == Range(PrimaryList(a))

WorkerEndpoints(w) == Range(WorkerList(w))

Endpoints(a) ==
  PrimaryEndpoints(a)
    \cup UNION {WorkerEndpoints(a.workers[j]) : j \in 1..Len(a.workers)}

Apart(P, Q) == P \cap Q = {}

EndpointsDistinct ==
  \A i \in 1..Len(authorities) :
    LET a == authorities[i]
    IN  /\ \A k \in 1..Len(authorities) :
             i # k => Apart(Endpoints(a), Endpoints(authorities[k]))
        /\ IsInjective(PrimaryList(a))
        /\ \A j \in 1..Len(a.workers) :
             /\ IsInjective(WorkerList(a.workers[j]))
             /\ Apart(PrimaryEndpoints(a), WorkerEndpoints(a.workers[j]))
             /\ \A l \in 1..Len(a.workers) :
                  j # l => Apart(WorkerEndpoints(a.workers[j]),
                                 WorkerEndpoints(a.workers[l]))

(***************************************************************************)
(* An engine drives the application of its own node and no other, or has   *)
(* died, in whatever order the processes boot: two engines that share an   *)
(* application would both begin blocks in it.                              *)
(***************************************************************************)
EnginesHaveTheirApp == \A i \in 1..Size : engine[i] \in {NoApp, Dead, i}
=============================================================================
