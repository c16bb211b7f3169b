------------------------------ MODULE Instances ------------------------------
(***************************************************************************)
(* The machines of the remote testbed: InstanceManager of                  *)
(* narwhal-abci/demo/benchmark/instance.py, and the EC2 service it calls.  *)
(*                                                                         *)
(* A task of the user makes its calls one after the other, region by       *)
(* region, each of which may fail and so end the task with its work half   *)
(* done.  Machines boot, halt and go by themselves, between any two calls. *)
(* The describe calls of _get, one per region, are one step: what machines *)
(* do by themselves takes none into or out of a state that is asked for,   *)
(* except at the end of a wait, once and for all.  Whether a failed task   *)
(* prints its BenchError or dies of another exception is left out, as are  *)
(* images, keys and disks.                                                 *)
(***************************************************************************)
EXTENDS Naturals, FiniteSets, Sequences

CONSTANTS
  Regions,      \* regions in the settings
  Quota,        \* machines that EC2 grants in a region
  MaxTasks,     \* bound: tasks that the user runs, but for info and kill
  MaxFailures   \* bound: calls that fail for no reason of the testbed

ASSUME InstancesAssumption ==
  /\ Regions \in Nat \ {0} /\ Quota \in Nat
  /\ MaxTasks \in Nat /\ MaxFailures \in Nat

Region == 1..Regions

Machine == Region \X (1..Quota)

VARIABLES
  status,    \* status[m]: state of machine m, "none" before and after its life
  group,     \* group[r]: the security group of region r
  task,      \* the task that is running, or "none"
  step,      \* its next call
  next,      \* the region, or the node, that the call is about
  ids,       \* the machines it has listed
  arg,       \* its argument
  said,      \* what the last task says to have done, if it ended well
  tasks, failures

cloud == <<status, group>>

fab == <<task, step, next, ids, arg, said, tasks>>

-----------------------------------------------------------------------------
In(r) == {m \in Machine : m[1] = r}

WithStatus(S) == {m \in Machine : status[m] \in S}

Live == WithStatus({"pending", "running", "stopping", "stopped"})

Free(r) == {m \in In(r) : status[m] = "none"}

Become(S, s) == [m \in Machine |-> IF m \in S THEN s ELSE status[m]]

(* A task begins at its first step, with argument n, and ends.              *)
Begin(t, first, n) ==
  /\ task = "none"
  /\ IF t \in {"info", "kill"} THEN UNCHANGED tasks
                               ELSE tasks < MaxTasks /\ tasks' = tasks + 1
  /\ task' = t /\ step' = first /\ arg' = n
  /\ next' = 1 /\ ids' = {} /\ said' = "nothing"
  /\ UNCHANGED <<cloud, failures>>

Ends(claim) ==
  /\ task' = "none" /\ step' = "none" /\ said' = claim
  /\ next' = 1 /\ ids' = {} /\ arg' = 0
  /\ UNCHANGED tasks

(* On to `again` in the next region, or to `after` behind the last one.     *)
Advance(again, after) ==
  /\ IF next < Regions THEN next' = next + 1 /\ step' = again
                       ELSE next' = 1 /\ step' = after
  /\ UNCHANGED <<task, ids, arg, said, tasks>>

-----------------------------------------------------------------------------
(* create_instances: the groups of all regions, and then the machines.      *)
CreateGroup ==
  /\ step = "group"
  /\ group[next] = "none"
  /\ group' = [group EXCEPT ![next] = "closed"]
  /\ step' = "authorize"
  /\ UNCHANGED <<status, task, next, ids, arg, said, tasks, failures>>

Authorize ==
  /\ step = "authorize"
  /\ group' = [group EXCEPT ![next] = "open"]
  /\ Advance("group", "run")
  /\ UNCHANGED <<status, failures>>

(* InvalidGroup.Duplicate: what would have opened the ports is skipped.     *)
DuplicateGroup ==
  /\ step = "group"
  /\ group[next] # "none"
  /\ Advance("group", "run")
  /\ UNCHANGED <<cloud, failures>>

(* New machines have new names: the free ones with the lowest numbers.      *)
RunInstances ==
  /\ step = "run"
  /\ group[next] # "none"
  /\ \E S \in SUBSET Free(next) :
       /\ Cardinality(S) = arg
       /\ \A m \in S, k \in Free(next) \ S : m[2] < k[2]
       /\ status' = Become(S, "pending")
  /\ Advance("run", "boot")
  /\ UNCHANGED <<group, failures>>

(* Mutant: waits until no machine is on its way or stands still.            *)
M_AwaitBoot ==
  /\ step = "boot"
  /\ WithStatus({"pending", "stopping", "stopped"}) = {}
  /\ Ends(task)
  /\ UNCHANGED <<cloud, failures>>

AwaitBoot ==
  /\ step = "boot"
  /\ WithStatus({"pending"}) = {}
  /\ Ends(task)
  /\ UNCHANGED <<cloud, failures>>

-----------------------------------------------------------------------------
(* The first step of terminate_instances, start_instances, stop_instances.  *)
Lists(states, after) ==
  /\ ids' = WithStatus(states)
  /\ step' = after
  /\ UNCHANGED <<cloud, task, next, arg, said, tasks, failures>>

(* Mutant: machines that are stopped are not listed.                        *)
M_ListLive ==
  /\ step = "list_live"
  /\ IF WithStatus({"pending", "running"}) = {}
     THEN Ends(task) /\ UNCHANGED <<cloud, failures>>
     ELSE Lists({"pending", "running"}, "terminate")

ListLive ==
  /\ step = "list_live"
  /\ IF Live = {} THEN Ends(task) /\ UNCHANGED <<cloud, failures>>
                  ELSE Lists({"pending", "running", "stopping", "stopped"}, "terminate")

ListHalted == step = "list_halted" /\ Lists({"stopping", "stopped"}, "start")

ListActive == step = "list_active" /\ Lists({"pending", "running"}, "stop")

(* `if ids[region]`                                                         *)
After == [terminate |-> "gone", start |-> "end", stop |-> "end"]

SkipRegion ==
  /\ step \in DOMAIN After
  /\ ids \cap In(next) = {}
  /\ Advance(step, After[step])
  /\ UNCHANGED <<cloud, failures>>

TerminateInstances ==
  /\ step = "terminate"
  /\ ids \cap In(next) # {}
  /\ status' = Become(ids \cap In(next), "shutting-down")
  /\ Advance("terminate", "gone")
  /\ UNCHANGED <<group, failures>>

(* Mutant: waits for the machines that halt, not for those that go.         *)
M_AwaitGone ==
  /\ step = "gone"
  /\ WithStatus({"stopping"}) = {}
  /\ step' = "delete"
  /\ UNCHANGED <<cloud, task, next, ids, arg, said, tasks, failures>>

AwaitGone ==
  /\ step = "gone"
  /\ WithStatus({"shutting-down"}) = {}
  /\ step' = "delete"
  /\ UNCHANGED <<cloud, task, next, ids, arg, said, tasks, failures>>

(* EC2 deletes a group that is there and that no machine uses.              *)
Deletable(r) == group[r] # "none" /\ Free(r) = In(r)

DeleteGroup ==
  /\ step = "delete"
  /\ Deletable(next)
  /\ group' = [group EXCEPT ![next] = "none"]
  /\ Advance("delete", "end")
  /\ UNCHANGED <<status, failures>>

(* At most `max` of a region; EC2 starts machines that are stopped.         *)
Targets(r) ==
  LET listed == ids \cap In(r)
  IN  {T \in SUBSET listed :
         \/ T = listed /\ Cardinality(listed) < arg
         \/ Cardinality(T) = arg}

StartInstances ==
  /\ step = "start"
  /\ ids \cap In(next) # {}
  /\ \E T \in Targets(next) :
       /\ T \subseteq WithStatus({"stopped"})
       /\ status' = Become(T, "pending")
  /\ Advance("start", "end")
  /\ UNCHANGED <<group, failures>>

(* EC2 does not stop a machine that is still pending.                       *)
StopInstances ==
  /\ step = "stop"
  /\ ids \cap In(next) # {}
  /\ ids \cap In(next) \subseteq WithStatus({"running"})
  /\ status' = Become(ids \cap In(next), "stopping")
  /\ Advance("stop", "end")
  /\ UNCHANGED <<group, failures>>

(* The tasks that say something about the machines from now on.             *)
Claims == {"create", "destroy", "stop", "kill"}

Reports ==
  /\ step = "end"
  /\ Ends(IF task \in Claims THEN task ELSE "nothing")
  /\ UNCHANGED <<cloud, failures>>

-----------------------------------------------------------------------------
(* A call that EC2 refuses, or that fails for any other reason.             *)
Refused ==
  \/ step = "run" /\ (group[next] = "none" \/ Cardinality(Free(next)) < arg)
  \/ step = "start" /\ \E T \in Targets(next) : ~(T \subseteq WithStatus({"stopped"}))
  \/ step = "stop" /\ ~(ids \cap In(next) \subseteq WithStatus({"running"}))
  \/ step = "delete" /\ ~Deletable(next)

CallIsRefused ==
  /\ Refused
  /\ Ends("nothing")
  /\ UNCHANGED <<cloud, failures>>

Calls == {"group", "authorize", "run", "boot", "list_live", "list_halted",
          "list_active", "terminate", "gone", "delete", "start", "stop"}

CallFails ==
  /\ step \in Calls
  /\ step \in DOMAIN After => ids \cap In(next) # {}
  /\ failures < MaxFailures /\ failures' = failures + 1
  /\ Ends("nothing")
  /\ UNCHANGED cloud

Manage ==
  \/ CreateGroup \/ Authorize \/ DuplicateGroup \/ RunInstances \/ AwaitBoot
  \/ ListLive \/ ListHalted \/ ListActive \/ SkipRegion
  \/ TerminateInstances \/ AwaitGone \/ DeleteGroup
  \/ StartInstances \/ StopInstances \/ Reports
  \/ CallIsRefused \/ CallFails

(* What a machine does by itself.                                           *)
Moves(m, from, to) ==
  /\ status[m] = from
  /\ status' = [status EXCEPT ![m] = to]
  /\ UNCHANGED <<group, fab, failures>>

Boots(m) == Moves(m, "pending", "running")

Halts(m) == Moves(m, "stopping", "stopped")

Goes(m)  == Moves(m, "shutting-down", "none")
=============================================================================
