------------------------------- MODULE Fabfile -------------------------------
(***************************************************************************)
(* The tasks of narwhal-abci/demo/fabfile.py, one of which the user runs   *)
(* at a time, on the local testbed and on the remote one.  `plot` and      *)
(* `logs`, which read files and change nothing, are left out.              *)
(***************************************************************************)
EXTENDS Testbed, RemoteBench

CONSTANTS
  CreateNodes,   \* what the user gives to create, and
  StartMax       \* to start

ASSUME FabfileAssumption ==
  CreateNodes \subseteq Nat \ {0} /\ StartMax \subseteq Nat \ {0}

remote_vars == <<cloud, fab, failures, bench>>

all_vars == <<vars, remote_vars>>

-----------------------------------------------------------------------------
(* Each of the tasks makes an InstanceManager or a Bench and calls it.      *)
(* Only kill asks for TMUX.                                                 *)
NoKill == inside' = FALSE /\ UNCHANGED <<disks, hosts, params>>

Create(nodes) == Begin("create", "group", nodes) /\ NoKill

Destroy == Begin("destroy", "list_live", 0) /\ NoKill

Start(max) == Begin("start", "list_halted", max) /\ NoKill

Stop == Begin("stop", "list_active", 0) /\ NoKill

(* print_info lists and prints, and is done.                                *)
Info == Begin("info", "end", 0) /\ NoKill

InstallTask == Begin("install", "hosts", 0) /\ NoKill

KillTask ==
  /\ Begin("kill", "hosts", 0)
  /\ inside' \in BOOLEAN
  /\ UNCHANGED <<disks, hosts, params>>

Remote(p) ==
  /\ Begin("remote", "select", 0)
  /\ params' = p /\ inside' \in BOOLEAN
  /\ UNCHANGED <<disks, hosts>>

Tasks ==
  \/ \E n \in CreateNodes : Create(n)
  \/ \E n \in StartMax : Start(n)
  \/ \E p \in BenchParams : Remote(p)
  \/ Destroy \/ Stop \/ Info \/ InstallTask \/ KillTask

Calling == (Manage /\ UNCHANGED bench) \/ Drive

MachineMoves == \E m \in Machine : MachineBoots(m) \/ MachineHalts(m) \/ MachineGoes(m)

RemoteNext ==
  \/ Tasks \/ Calling \/ MachineMoves
  \/ \E m \in Machine : ClientEnds(m)

RemoteInit ==
  /\ status = [m \in Machine |-> "none"]
  /\ group = [r \in Region |-> "none"]
  /\ task = "none" /\ step = "none" /\ next = 1 /\ ids = {} /\ arg = 0
  /\ said = "nothing" /\ tasks = 0 /\ failures = 0
  /\ repo = [m \in Machine |-> "none"]
  /\ files = [m \in Machine |-> 0]
  /\ sessions = [m \in Machine |-> {}]
  /\ hosts = << >> /\ params = NoParams /\ inside = FALSE

-----------------------------------------------------------------------------
(* The two testbeds share nothing: what happens to one can be told apart    *)
(* from what happens to the other, so a behaviour has one of them.          *)
FabInit == Init /\ RemoteInit

FabNext ==
  \/ tasks = 0 /\ Next /\ UNCHANGED remote_vars
  \/ phase = "off" /\ authorities = << >> /\ RemoteNext /\ UNCHANGED vars

(* A task goes on until it ends; EC2 brings machines to where they go.      *)
FabSpec ==
  /\ FabInit /\ [][FabNext]_all_vars
  /\ WF_all_vars(Calling /\ UNCHANGED vars)
  /\ WF_all_vars(MachineMoves /\ UNCHANGED vars)

-----------------------------------------------------------------------------
TaskNames == {"create", "destroy", "start", "stop", "info", "install", "kill", "remote"}

FabTypeOK ==
  /\ TypeOK
  /\ status \in [Machine -> {"none", "pending", "running", "stopping", "stopped",
                             "shutting-down"}]
  /\ group \in [Region -> {"none", "closed", "open"}]
  /\ task \in TaskNames \cup {"none"}
  /\ step \in Calls \cup {"none", "end", "hosts", "install", "kill", "select", "update",
                          "config", "upload", "kill_run", "clients"}
  /\ next \in Nat \ {0} /\ ids \in SUBSET Machine /\ arg \in Nat
  /\ said \in Claims \cup {"nothing"}
  /\ tasks \in 0..MaxTasks /\ failures \in 0..MaxFailures
  /\ repo \in [Machine -> {"none", "cloned", "built"}]
  /\ files \in [Machine -> Nat]
  /\ \A m \in Machine : sessions[m] \in SUBSET (Nat \X Nat)
  /\ hosts \in Seq(Seq(Machine))
  /\ params \in BenchParams \cup {NoParams} /\ inside \in BOOLEAN

(***************************************************************************)
(* What a task says it has done is so until the next task begins, though   *)
(* machines move between its calls and after them, and whatever earlier    *)
(* tasks left half done: after create, every region has machines and none  *)
(* is still booting; after destroy none is left alive; after stop none     *)
(* runs or will.                                                           *)
(***************************************************************************)
ReportsAreTrue ==
  /\ said = "create" =>
       /\ WithStatus({"pending"}) = {}
       /\ \A r \in Region : WithStatus({"running"}) \cap In(r) # {}
  /\ said = "destroy" => Live = {}
  /\ said = "stop" => WithStatus({"pending", "running"}) = {}

(***************************************************************************)
(* destroy deletes the groups when EC2 lets it: they are all there, and no *)
(* machine uses one any more, however the tasks before it failed.          *)
(***************************************************************************)
DeletesAreAllowed == step = "delete" => Deletable(next)

(***************************************************************************)
(* After a kill that succeeded no client runs on any machine, also on one  *)
(* that had no IP yet when it was listed; what a machine still has that is *)
(* being stopped is lost with it.  If the user called it inside tmux, one  *)
(* session of each machine may be left, and no more.                       *)
(***************************************************************************)
KillStops ==
  said = "kill" =>
    \A m \in WithStatus({"pending", "running", "stopped"}) :
      \/ sessions[m] = {}
      \/ inside /\ \E c \in sessions[m] : sessions[m] = {c}

(***************************************************************************)
(* A client is booted only where the node was built in this testbed and on *)
(* a machine that holds the configuration of that very node, whatever      *)
(* earlier runs have left on the machines.                                 *)
(***************************************************************************)
ClientsAreConfigured ==
  [][\A m \in Machine : \A c \in sessions'[m] \ sessions[m] :
       repo[m] = "built" /\ files[m] = c[1]]_all_vars

(***************************************************************************)
(* A task ends: its waits for machines do, since nothing else sends any to *)
(* where it waits for them to leave.                                       *)
(***************************************************************************)
TasksEnd == (task # "none") ~> (task = "none")

(***************************************************************************)
(* The comment in _select_hosts, "Ensure there are enough hosts": those    *)
(* selected are as many as the largest committee.                          *)
(***************************************************************************)
EnoughHosts == hosts # << >> => Len(hosts) = MaxNodes
=============================================================================
