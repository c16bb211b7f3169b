----------------------------- MODULE RemoteBench -----------------------------
(***************************************************************************)
(* Bench of narwhal-abci/demo/benchmark/remote.py: what install, kill and  *)
(* remote do to the machines of Instances over SSH, with the hosts and the *)
(* committee (config.py) that they choose.                                 *)
(*                                                                         *)
(* A command runs on all its hosts at once; it takes effect on some, and   *)
(* is a success if it did on all.  A host can be reached while it runs and *)
(* the ports of its region are open.  run_primary lacks two of its         *)
(* arguments (remote.py:242), so a run never gets past its clients: what   *)
(* stands after that line, and the further runs, rates and committees, is  *)
(* not modelled.  Keys, parameters and logs are left out.                  *)
(***************************************************************************)
EXTENDS Instances, SequencesExt

CONSTANT
  BenchParams   \* what `remote` may be told: nodes, faults, workers, collocate

ASSUME BenchAssumption ==
  \A p \in BenchParams :
    /\ p.nodes \in Seq(Nat \ {0, 1}) /\ p.nodes # << >>
    /\ p.workers \in Nat \ {0} /\ p.collocate \in BOOLEAN
    /\ p.faults \in Nat /\ \A i \in 1..Len(p.nodes) : p.faults < p.nodes[i]

VARIABLES
  repo,       \* repo[m]: what is installed on machine m
  files,      \* files[m]: the node whose configuration m holds, or 0
  sessions,   \* sessions[m]: the clients <<node, worker>> in tmux on m
  hosts,      \* hosts[i]: machines of node i, that of the primary first
  params,     \* of the remote that is running
  inside      \* does a kill of this task find TMUX set on the user's machine?

disks == <<repo, files, sessions>>

targets == <<hosts, params, inside>>

bench == <<disks, targets>>

-----------------------------------------------------------------------------
NoParams == [nodes |-> << >>, faults |-> 0, workers |-> 0, collocate |-> TRUE]

Stops ==
  Ends("nothing") /\ hosts' = << >> /\ params' = NoParams /\ inside' = FALSE

(* hosts(): machines that run, and those of the pending that have an IP.    *)
Available == {WithStatus({"running"}) \cup P : P \in SUBSET WithStatus({"pending"})}

Reachable(m) == status[m] = "running" /\ group[m[1]] = "open"

(* The command that is sent takes effect on S, of those who are able to     *)
(* run it; all of them, unless connections fail.                            *)
GroupRun(able, S) ==
  \/ S = able /\ UNCHANGED failures
  \/ /\ failures < MaxFailures /\ failures' = failures + 1
     /\ S \in (SUBSET able) \ {able}

On(S, f, v) == [m \in Machine |-> IF m \in S THEN v ELSE f[m]]

(* Mutant: one host is enough for a success.                                *)
M_Succeeds(all, S, after) ==
  IF S # {} \/ all = {}
  THEN step' = after /\ next' = 1 /\ UNCHANGED <<task, ids, arg, said, tasks, targets>>
  ELSE Stops

(* On to `after` if it succeeded on all the hosts, or the end of the task.  *)
Succeeds(all, S, after) ==
  IF S = all
  THEN step' = after /\ next' = 1 /\ UNCHANGED <<task, ids, arg, said, tasks, targets>>
  ELSE Stops

ListHosts ==
  /\ step = "hosts"
  /\ ids' \in Available
  /\ step' = task
  /\ UNCHANGED <<cloud, task, next, arg, said, tasks, failures, bench>>

Install ==
  /\ step = "install"
  /\ LET able == {m \in ids : Reachable(m)}
     IN  \E S \in SUBSET able :
           /\ GroupRun(able, S)
           /\ repo' = On({m \in S : repo[m] = "none"}, repo, "cloned")
           /\ Succeeds(ids, S, "end")
  /\ UNCHANGED <<cloud, files, sessions>>

(* kill(hosts): of the whole testbed, or of the committee of a run.  The    *)
(* user's own TMUX decides what is sent: kill-server, or kill-session -a,   *)
(* which ends all the sessions of a host but one.  What tmux answers does   *)
(* not matter.                                                              *)
Left(m) == IF inside /\ sessions[m] # {} THEN {{c} : c \in sessions[m]} ELSE {{}}

Kills(S) ==
  /\ sessions' \in [Machine -> UNION {Left(m) \cup {sessions[m]} : m \in Machine}]
  /\ \A m \in Machine :
       IF m \in S THEN sessions'[m] \in Left(m) ELSE sessions'[m] = sessions[m]

KillOn(all, after) ==
  /\ LET able == {m \in all : Reachable(m)}
     IN  \E S \in SUBSET able :
           /\ GroupRun(able, S)
           /\ Kills(S)
           /\ Succeeds(all, S, after)
  /\ UNCHANGED <<cloud, repo, files>>

Kill == step = "kill" /\ KillOn(ids, "end")

-----------------------------------------------------------------------------
(* _select_hosts: the regions that have machines, in the order of the       *)
(* settings, and the machines of each in any order.                         *)
MaxNodes == Max(ToSet(params.nodes))

Occupied(A) == {r \in Region : A \cap In(r) # {}}
RegionsOf(A) ==
  [i \in 1..Cardinality(Occupied(A)) |->
     CHOOSE r \in Occupied(A) : Cardinality({q \in Occupied(A) : q <= r}) = i]

Orders(A, r) == SetToSeqs(A \cap In(r))

(* zip stops at the end of the shortest list.                               *)
RoundRobin(lists) ==
  LET short == Min({Len(lists[i]) : i \in DOMAIN lists})
  IN  [k \in 1..short * Len(lists) |->
         lists[((k - 1) % Len(lists)) + 1][((k - 1) \div Len(lists)) + 1]]

Collocated(lists) ==
  LET zipped == RoundRobin(lists)
  IN  [i \in 1..Min({MaxNodes, Len(zipped)}) |->
         [j \in 1..params.workers + 1 |-> zipped[i]]]

Dedicated(lists) ==
  [i \in 1..MaxNodes |-> SubSeq(lists[i], 1, params.workers + 1)]

Enough(A) ==
  IF params.collocate
  THEN Cardinality(A) >= MaxNodes
  ELSE /\ Len(RegionsOf(A)) >= MaxNodes
       /\ \A i \in DOMAIN RegionsOf(A) :
            Cardinality(A \cap In(RegionsOf(A)[i])) >= params.workers + 1

SelectHosts ==
  /\ step = "select"
  /\ \E A \in Available :
       IF ~Enough(A)
       THEN Stops
       ELSE /\ \E order \in [Region -> UNION {Orders(A, r) : r \in Region}] :
                 /\ \A r \in Region : order[r] \in Orders(A, r)
                 /\ LET lists == [i \in DOMAIN RegionsOf(A) |-> order[RegionsOf(A)[i]]]
                    IN  hosts' = IF params.collocate THEN Collocated(lists)
                                                     ELSE Dedicated(lists)
            /\ step' = "update"
            /\ UNCHANGED <<task, next, ids, arg, said, tasks, params, inside>>
  /\ UNCHANGED <<cloud, disks, failures>>

HostsOf(n) == UNION {ToSet(hosts[i]) : i \in 1..n}

(* _update: fetches and builds, where the repository was cloned.            *)
Update ==
  /\ step = "update"
  /\ LET all  == HostsOf(Len(hosts))
         able == {m \in all : Reachable(m) /\ repo[m] # "none"}
     IN  \E S \in SUBSET able :
           /\ GroupRun(able, S)
           /\ repo' = On(S, repo, "built")
           /\ Succeeds(all, S, "config")
  /\ UNCHANGED <<cloud, files, sessions>>

(* _config: names[:len(names) - faults], which may count from the end.      *)
Uploads ==
  LET size == Len(hosts)
      last == size - params.faults
  IN  IF params.faults <= size THEN last
      ELSE IF size + last > 0 THEN size + last ELSE 0

(* Generates everything on the user's machine, which may fail.              *)
Config ==
  /\ step = "config"
  /\ step' = IF Uploads > 0 THEN "upload" ELSE "kill_run"
  /\ UNCHANGED <<cloud, task, next, ids, arg, said, tasks, failures, bench>>

(* Mutant: the files of the first node for every node.                      *)
M_Upload ==
  /\ step = "upload"
  /\ \A m \in ToSet(hosts[next]) : Reachable(m)
  /\ files' = On(ToSet(hosts[next]), files, 1)
  /\ IF next < Uploads THEN next' = next + 1 /\ step' = step
                       ELSE next' = 1 /\ step' = "kill_run"
  /\ UNCHANGED <<cloud, repo, sessions, targets, task, ids, arg, said, tasks, failures>>

(* The files of one node, to each of its machines.                          *)
Upload ==
  /\ step = "upload"
  /\ \A m \in ToSet(hosts[next]) : Reachable(m)
  /\ files' = On(ToSet(hosts[next]), files, next)
  /\ IF next < Uploads THEN next' = next + 1 /\ step' = step
                       ELSE next' = 1 /\ step' = "kill_run"
  /\ UNCHANGED <<cloud, repo, sessions, targets, task, ids, arg, said, tasks, failures>>

(* Some machines have them, and one was cleaned up for nothing.             *)
UploadFails ==
  /\ step = "upload"
  /\ LET ips == ToSet(hosts[next])
     IN  \E S \in SUBSET {m \in ips : Reachable(m)} :
           /\ S # ips
           /\ \/ files' = On(S, files, next)
              \/ \E m \in ips \ S :
                   Reachable(m) /\ files' = On({m}, On(S, files, next), 0)
           /\ \/ \E m \in ips : ~Reachable(m) /\ UNCHANGED failures
              \/ failures < MaxFailures /\ failures' = failures + 1
  /\ Stops
  /\ UNCHANGED <<cloud, repo, sessions>>

-----------------------------------------------------------------------------
(* _run_single, with the first committee that remote asks for.              *)
Size1 == Min({params.nodes[1], Len(hosts)})

KillRun == step = "kill_run" /\ KillOn(HostsOf(Size1), "clients")

(* One client for each worker of the nodes that are not faulty.             *)
Clients ==
  IF params.faults < Size1 THEN (Size1 - params.faults) * params.workers ELSE 0

NodeOf(k) == ((k - 1) \div params.workers) + 1

WorkerOf(k) == ((k - 1) % params.workers) + 1

ClientHost(k) == hosts[NodeOf(k)][WorkerOf(k) + 1]

(* tmux new refuses a name that is in use.                                  *)
Bootable(k) ==
  Reachable(ClientHost(k)) /\ <<NodeOf(k), WorkerOf(k)>> \notin sessions[ClientHost(k)]

BootClient ==
  /\ step = "clients"
  /\ next <= Clients /\ Bootable(next)
  /\ sessions' = [sessions EXCEPT ![ClientHost(next)] =
                                    @ \cup {<<NodeOf(next), WorkerOf(next)>>}]
  /\ next' = next + 1
  /\ UNCHANGED <<cloud, repo, files, targets, task, step, ids, arg, said, tasks, failures>>

BootFails ==
  /\ step = "clients"
  /\ next <= Clients /\ ~Bootable(next)
  /\ Stops
  /\ UNCHANGED <<cloud, disks, failures>>

(* run_primary raises a TypeError; and so did, if nobody is left, an assert. *)
RunPrimary ==
  /\ step = "clients"
  /\ next > Clients
  /\ Stops
  /\ UNCHANGED <<cloud, disks, failures>>

(* A listing, a command of the user's machine, or a connection that fails.  *)
BenchFails ==
  /\ step \in {"hosts", "select", "config", "clients"}
  /\ failures < MaxFailures /\ failures' = failures + 1
  /\ Stops
  /\ UNCHANGED <<cloud, disks>>

Drive ==
  \/ ListHosts \/ Install \/ Kill
  \/ SelectHosts \/ Update \/ Config \/ Upload \/ UploadFails
  \/ KillRun \/ BootClient \/ BootFails \/ RunPrimary \/ BenchFails

-----------------------------------------------------------------------------
(* A client ends when it likes; all that run on a machine that halts or     *)
(* goes do, and the disk goes with the machine.                             *)
ClientEnds(m) ==
  /\ \E c \in sessions[m] : sessions' = [sessions EXCEPT ![m] = @ \ {c}]
  /\ UNCHANGED <<cloud, fab, failures, repo, files, targets>>

MachineBoots(m) == Boots(m) /\ UNCHANGED bench

MachineHalts(m) ==
  /\ Halts(m)
  /\ sessions' = [sessions EXCEPT ![m] = {}]
  /\ UNCHANGED <<repo, files, targets>>

MachineGoes(m) ==
  /\ Goes(m)
  /\ sessions' = [sessions EXCEPT ![m] = {}]
  /\ repo' = [repo EXCEPT ![m] = "none"]
  /\ files' = [files EXCEPT ![m] = 0]
  /\ UNCHANGED targets
=============================================================================
