# A TLA+ model of the StarkNet sequencers

This directory holds TLA+ modules of the two sequencers of this repository, the
configurations that check them on small instances with TLC, and proofs about
them for every instance with TLAPS. It goes from the source: each definition is
a translation of the lines that `PROJECT.json` ("map") gives for it, paths are
relative to the repository.

    tlc -config sequencer.cfg MCSequencer     # a run; PROJECT.json lists them
    tlapm Sequencer_proofs.tla                # a proof

## 1. The system

There are two programs that order transactions and execute them, which share
nothing but their purpose.

**The sequencer** (`sequencer/`) is an ABCI application under CometBFT:

    user -> cli --broadcast_tx_sync--> CometBFT --check_tx-------------------> StarknetApp
                                       CometBFT --prepare/process_proposal--> StarknetApp
                                       CometBFT --begin, deliver, end, commit-> StarknetApp
    user -> cli --tx_search----------> CometBFT --info--------------------->  StarknetApp

CometBFT opens several connections, each of which has a thread of its own in the
application; threads share the clones of one `StarknetApp`: the hasher and the
StarkNet state behind two mutexes, a static counter behind none, and the file
`abci.height`.

**The Narwhal sequencer** (`narwhal-abci/`) is a Narwhal primary with an ABCI engine:

    client --/broadcast_tx--> AbciApi --TCP--> worker 0 --> Narwhal and Bullshark
    client --/abci_query----> AbciApi --channel--> Engine <--channel-- certificates
                                     Engine --ABCI calls--> demo StarknetApp

`Engine::run` is one task that takes certificates and queries from two bounded
channels and makes blocking calls. Python scripts build a testbed of it, on the
user's machine or on machines of Amazon EC2:

    user -> fab local ------------------------> LocalBench -> tmux sessions on this host
    user -> fab create, destroy, start, stop -> InstanceManager --boto3, per region--> EC2
    user -> fab install, remote, kill --------> Bench --listings--> InstanceManager
                                                Bench --Fabric, SSH--> machines

The user runs one task at a time. Machines boot, halt and go in their own time,
a call that fails ends its task where it is, and nothing is kept between tasks
but what EC2 and the machines hold.

| Component | Where | State | Operations | Hard about it | What makes it correct |
|---|---|---|---|---|---|
| Transaction library | `sequencer/src/lib/mod.rs` | none | `with_type`, `compute_and_hash`, `assert_integrity` | hashing runs on unchecked input and panics on some of it | a transaction whose hash does not fit its contents is never applied |
| ABCI application | `sequencer/src/abci/application.rs` | hasher, StarkNet state, counter | the ABCI hooks | several connections; panics under a lock; state in memory and height in a file | replicas agree and stop together; the hash covers the state |
| Height file | `application.rs:481-505` | `abci.height` | `read_or_create`, `increment` | readers between truncation and write; crashes; calls that fail | no commit is counted twice, none is lost unnoticed; damage is noticed |
| Proposal trimming | `application.rs:357-381` | none | `prepare_proposal` | i64 to usize, saturation, equality at the limit | the longest prefix within the limit |
| Command line client | `sequencer/src/cli/` | none | declare, deploy-account, invoke, get | lost answers, sent again with a new id; lookups while the index moves | what is printed is kept and can be looked up |
| Narwhal engine | `narwhal-abci/narwhal-abci/src/` | height, two channels | `new`, `run`, `handle_cert`, `handle_abci_query` | late batches, failing calls, clients that go away or wait for a place, two channels and one task | the application is given what was ordered; queries see whole blocks; clients are answered |
| Narwhal node binary | `narwhal-abci/node/` | none | `run`, `process` | the API serves before the engine is there | as the engine |
| Demo application | `narwhal-abci/starknet-abci/src/` | hasher, counter | the ABCI hooks | panics on `todo!()` types; a static without a lock | a block's log is its own; a panic stops who sees it |
| Demo client | `starknet-abci/src/bin/client.rs` | none | 200 requests | does not look at answers | what it prints is true |
| Local testbed | `narwhal-abci/demo/benchmark/{config,local,commands}.py`, `fabfile.py` (`local`) | ports, processes | `Committee`, `LocalBench.run` | processes boot in their own time; runs that are interrupted | no port twice; an engine has its own application |
| Remote testbed | `instance.py`, `remote.py`, `fabfile.py` | machines, security groups, what is installed and runs on each | the tasks create, destroy, start, stop, info, install, kill, remote | listings grow stale; one call or one host of several fails; tasks find what failed ones left | what a task reports is so; kill leaves nothing running; clients start where they are configured |
| Benchmark logs | `logs.py`, `aggregate.py`, `plot.py` | none | parse, merge, average | a list changed while it is iterated | not modelled |
| Sequencer benchmark | `sequencer/src/bench/main.rs` | none | stops in `todo!()` at line 35 | - | not modelled |
| Go load tester | `sequencer/bench/` | a template transaction | splices an id into JSON bytes | off-by-one in a splice | not modelled |
| Deployment | Makefiles, playbooks, workflows | none | shell recipes | - | not modelled |

What is hard to test in this code is listed, each thing at its line with the
properties that look for it, under "hazards" in `PROJECT.json`.

## 2. Modules

`Name_proofs` holds the theorems about `Name` (`Hooks_proofs` those about
`HeightFile` and `ProposalTrim`, and `Fabfile_proofs` those about `Testbed` too);
`MCName` gives a small instance.

| Module | Stands for | State and actions |
|---|---|---|
| `Transactions` | `lib/mod.rs` | pure: `ComputeAndHash`, `HashPanics`, `HashFails`, `Integral`. Hashes are symbolic and do not collide. |
| `StarknetApp` | the hooks of `application.rs` | pure: from the memory of the application to the memory left and the reply (`ok`, `integrity`, `error`, `panic`). `Deliver` is the whole of `deliver_tx`: decode, count, integrity check, hash, apply; a panic leaves what was changed before it. |
| `BlockExecution` | what an engine sees of one application | requests of a block, the replica (memory, height, hashes handed out), `After` and `Answer`. |
| `Sequencer` | applications under CometBFT, no faults | `CheckTxOk`, `CheckTxPanic` (any node, any time), `Decide` (the next block), `Handle`, `HandlePanic` (the next request of node n). |
| `AppHashLog` | the promise in the comment on `commit` | the abstract specification: logs of hashes that never contradict each other. |
| `SequencerFaults` | engines and applications that stop and return | adds `Save`, `EngineStops`, `AppCrashes`, `Connect` (with `info`), and blocks executed again. |
| `HeightFile` | struct `HeightFile` | one action per file system call, in the boot thread, the info threads and the committing thread; any call may fail (`ReadIsError`, `IncrementReadFails`, `WriteFails`); `Crash` anywhere. |
| `ProposalTrim` | the loops of `prepare_proposal` | `Add`, `Added`, `Pop`, `Trimmed` on machine integers. |
| `Client` | `cli/main.rs`, `tendermint.rs` | `Do`, `DoFails`, `Broadcast`, `BroadcastFails`, `Report`, `Get`, `GetDenied` against a node with mempool, chain and index. |
| `NarwhalEngine` | `engine.rs`, the query route of `abci_server.rs` | one action per call to the application and per channel operation; failing calls; clients that ask (`Ask`), wait for a place in the channel (`Send`) and hang up. |
| `DemoApp` | `types.rs`, `transaction.rs` | pure: the counter, which is all that the hooks read of what they write, and what panics. |
| `NarwhalDemo` | clients, API, ordering and demo applications together | `Broadcast`, `BroadcastFails`; `Order` (of all) and `Output` (of one primary, in its own time); the engine's `CallBegin`, `CallDeliver`, `DeliverFails`, `CallCommit`. |
| `Testbed` | `config.py`, `local.py` | `LocalTask` (kills the previous testbed), `AddPrimary`, `AddWorker` (ports), `StartApp`, `SleepOne`, `StartPrimary`, `StartWorker`, `KillNodes`, `Interrupt`, and what the processes do by themselves: `Listens`, `Connects`, `ConnectFails`. |
| `Instances` | `instance.py`, and EC2 | machines and groups of each region, and the task that runs: its next call, region, and listing. One action per call of the client (`CreateGroup`, `Authorize`, `RunInstances`, `TerminateInstances`, `DeleteGroup`, ...), per listing and wait, `CallIsRefused`, `CallFails`; `Boots`, `Halts`, `Goes`. |
| `RemoteBench` | `remote.py`, and SSH | what each machine has: repository, configuration, clients in tmux; the selected hosts. One action per command on a group (`Install`, `Kill`, `Update`, `KillRun`), which takes effect on some or all hosts (`Kills`: all sessions of a host, or all but one inside tmux), `SelectHosts`, `Upload` (per node), `BootClient` (per client), `RunPrimary` (which raises). |
| `Fabfile` | `fabfile.py` | one action per task, the local testbed and the remote one together. |

`Transactions` <- `StarknetApp` <- `BlockExecution` <- `Sequencer`,
`SequencerFaults`; `StarknetApp` <- `Client`; `DemoApp` <- `NarwhalDemo`;
`AppHashLog` is instantiated by `Sequencer` with `out <- HashesOut`;
`Instances` <- `RemoteBench`, and `RemoteBench`, `Testbed` <- `Fabfile`, where a
task begins at its first step and the two modules take the steps from there.
A definition `M_X` that stands before `X` is a bug one could have written in
`X`: a run whose property does not notice it would show nothing. "mutants" in
`PROJECT.json` names the property that each breaks.

### External code

CometBFT, Narwhal and Bullshark, the workers and the StarkNet library are not in
the repository. They are modelled from how the code uses them: the nodes agree on
one sequence of blocks; an engine sends the requests of a block in order, one at a
time, and stops when a connection drops; the mempool asks about new bytes only; a
certificate may be ordered before the worker of a node has its batches. CometBFT
also compares the hash that info reports with the one it saved when it reconnects;
`EngineChecksHash` says whether the engine does, so that what depends on it shows.
An invocation runs its entry point on a clone of the state that nobody reads
again, so what execution computes is left out and what it needs is not.
EC2 grants `Quota` machines in a region; it starts machines that are stopped only,
stops none that is pending, and deletes a group that no machine uses any more; a
machine has an address once it runs, or a bit before, and can be reached while it
runs and the group of its region is open. A disk goes with its machine, and
sessions end when it halts. Whether the library panics on a contract it does not
know (`UnknownContractFails`) is a constant.

### Abstractions

- One mempool stands for those of all nodes (`Sequencer`), and a transaction
  that another node has let in is not asked about again. In `Client` the mempool is
  that of the one node, and is lost with it.
- `max_tx_bytes` is a number of transactions in `BlockExecution`; the arithmetic
  on sizes is in `ProposalTrim`.
- The height file is written in one step in `SequencerFaults`; its system calls
  are in `HeightFile`. `fs::read` of eight bytes is one step.
- Blocks have one transaction in `Client`, so that a user sees every position
  between two commits.
- A batch never leaves a worker's store, so `Reconstruct` reads all the batches
  of a certificate in one step, and a batch that comes before its certificate is
  not told from one that comes right after.
- `AppHeight` in `NarwhalEngine` is the height of any ABCI application; the demo
  application always reports 0.
- In `Testbed` everything runs on one host, as in `LocalCommittee`.
- A listing of the remote testbed asks the regions one after the other and is one
  step: by themselves machines enter no state that a listing asks for from one
  that it does not, and leave one only at the end of a wait, for good. A call that
  fails had no effect on EC2. One whose answer is lost after it had leaves what
  the same call leaves when the next one fails, or, at the end of a task, what the
  task leaves without its report, so it is not an action of its own. All machines
  of a region use its one group, and images, keys and disks are there.
- `kill` looks at the user's own TMUX (`commands.py:72`): `inside` says whether it
  is set, for the tasks that ask. Where it is not, tmux ends all sessions of a
  host; where it is, all but one of them, any. Whatever tmux answers is a success
  (`remote.py:90`); a host that SSH does not reach, or a command that a connection
  loses, is none. The local run kills its processes alike in both cases, since the
  session that stays there is the user's own. A benchmark client may end at any time.
- The demo's hasher is fed and never read, its states are never touched, and its
  engine ignores all answers: `DemoApp` has the counter and the panics only.
- An error on reading a height file that is there makes a new one, as the comment on
  `read_or_create` says ("missing or unreadable"), so the height is lost: what
  `HeightFile` promises of heights that do not go down, it promises up to then.
- A query connection to the sequencer's application is an info thread: a new
  connection after a panic is one more of them.
- `config.py`'s committee of the remote testbed is the list of its hosts; its
  ports are those of `Testbed`.
- `run_primary` is called without two of its arguments (`remote.py:242`), which
  raises an error that no caller handles. So a run ends there, with the first
  size, rate and repetition, and nothing behind that line is modelled.
- The local and the remote testbed share no state, so a behaviour of `Fabfile`
  has tasks of one of them only: interleaving them would show nothing more.
- Left out: logging, the timers behind the logged rates, the query hook of the
  sequencer, which always answers with an error, and the demo's `query` and
  `check_tx`, which change nothing, and what the demo's client prints.

## 3. What TLC checks

All runs have `CHECK_DEADLOCK FALSE`: a bounded model stops at its bounds, and
nodes really stop after a panic. States are distinct states.

### Runs that pass

| Run | Instance | States | What it shows |
|---|---|---|---|
| `sequencer` | 2 nodes, 7 inputs, 3 transactions let in, 2 blocks of up to 2 | 199,211 | Replicas that answered the same requests are the same (`StateAgreement`), hand out the same hashes (`NoFork`: the refinement of `AppHashLog`), panic on the same request (`HaltTogether`); the logged number of transactions is right (`EndBlockCountsBlock`); only what decodes gets into a block (`DecidedDecodes`); a panic on a decided transaction stops every replica (`PanicSpreads`). |
| `height_file` | 2 info threads, heights to 3, 2 crashes, 2 failing calls | 797,504 | The height is never ahead of the commits by more than the one under way, and behind them only after a thread took a file it could not read for a missing one (`EveryBlockCountsOnce`); up to then what `increment` reads is a height (`CommitFindsAHeight`) and reports never go back (`ReportsNeverGoBack`); every commit ends, with an answer or the end of its thread (`CommitEnds`). |
| `faults` | 2 nodes, 4 inputs, 2 blocks, 4 stops or returns | 143,412 | Blocks are committed once, whatever stops (`CommittedOnce`); the hasher still covers the state (`HashCoversState`); a memory that was never lost holds what its blocks store (`MemoryIsTheChain`); a block that made one application panic is finished by none (`NobodyPassesAWall`). |
| `proposal_trim` | up to 4 transactions of sizes 0, 1, 3, 4; limits -3, 0, 3, 5, 12; usize to 12 | 14,878 | The longest prefix within the limit (`LongestPrefix`). |
| `narwhal_engine` | 1 node, 2 clients, 2 certificates, channels of 1, info and other calls may fail | 60,558 | The application is given a prefix of what the consensus stands for (`ExecutesWhatIsOrdered`); a query never sees half a block (`QueriesSeeWholeBlocks`); a client that stays, also one that first waits for a place in the channel, is answered or the node ends (`QueriesEnd`); what is received is executed or the node ends (`ReceivedIsExecuted`). |
| `narwhal_demo` | 3 nodes, 3 inputs, 2 requests, 2 blocks | 10,156 | The log of a block is that of its own transactions (`LogsItsBlock`); a primary whose consensus puts out a transaction that panics stops, with or without a quorum (`PanicStopsWhoSeesIt`); what a worker was given is executed everywhere unless a panic ends a node (`GivenIsExecuted`). |
| `client` | 1 user, 6 orders and a corrupted transaction of another program, 3 transactions | 49,351 | What is printed is in the mempool or the chain while the node runs (`PrintedIsKept`) and can be looked up some day, or the node stops (`PrintedIsFound`); what `get` prints it prints for ever, and never denies it (`GetIsStable`). |
| `testbed` | local: 4 nodes, 2 workers each, 1 fault; remote: 2 regions of 2 machines, 4 tasks besides info and kill, 1 failed call, committees of 2 then 3 collocated nodes or of 2 nodes, one faulty, in 2 regions | 239,317 | No two ports are the same, of all the processes of all nodes (`EndpointsDistinct`); an engine drives its own application or none, also after interrupted runs (`EnginesHaveTheirApp`); what create, destroy and stop report is so, and stays so until the next task (`ReportsAreTrue`); destroy may delete what it deletes (`DeletesAreAllowed`); no client survives a kill, or one on each machine if it was called inside tmux (`KillStops`); a client starts only where its node was built and configured (`ClientsAreConfigured`); tasks end (`TasksEnd`). |

`faults` and `fork_on_replay` use symmetry in the nodes; they check no liveness.

### Runs that TLC refutes

Each checks one statement of a comment or a document that the code does not keep.

| Run | Statement | What the code does |
|---|---|---|
| `height_read_race` | an unreadable height file is damage (`application.rs:490`) | info can read the file that commit has just truncated |
| `fork_on_replay` | the hash is deterministic (`application.rs:316`) | a block executed again feeds the hasher twice, if the application kept its memory |
| `certificate_left` | the event loop runs on each certificate (`engine.rs:20`) | a client that hangs up ends the engine with certificates in its channel |
| `too_few_hosts` | "Ensure there are enough hosts" (`remote.py:102`) | `zip` cuts the regions to the shortest one, so a committee gets fewer hosts than nodes, though there are enough |

`fork_on_replay` runs with `EngineChecksHash = TRUE`: an engine that stops within
the first block comes back at height 0, where there is no saved hash to compare.

Reading the code showed other disagreements, which the model keeps but no run is
spent on: deliver_tx "applies it to the application state"
(`application.rs:149`), but an invocation runs on a clone of the state
(`:468`), which is dropped; "Changes to application should take effect" at commit
(`application.rs:313`), but deliver_tx makes them; info's hash is said to be
that of commit (`:86`) and is a constant; a failed info call counts as height 0
(`engine.rs:50`); the demo's client prints "transaction committed to" for any
answer (`client.rs:34`); the demo's hash leaves out `program_name`
(`transaction.rs:68`); "invalid or has not yet been committed"
(`tendermint.rs:32`) is also what `get` says of an id that the client printed,
since it searches by hash; hashing `class_hash`, as in `tests/client.rs:7`,
panics (`lib/mod.rs:84`); the worker ports are 3005, 3012, and not "3003, 3008"
(`local.py:92`).

And of the demo's scripts: a create whose second call on a region failed leaves a
group without open ports, and the next create takes it for done
(`instance.py:127`), though "the script will open a large port range" (demo
`README.md:140`); a destroy that fails behind its terminations leaves groups that
no later destroy deletes, since it then finds no machines (`instance.py:173`);
the error that stop means to raise lacks an argument (`instance.py:217`); the
error of `run_primary` passes by the kill that would have stopped the clients
(`remote.py:366`), and the next run's "kill any potentially unfinished run"
(`remote.py:216`) looks at its own hosts only; every node is given the committee
of the largest size, of which a run of 10 of 20 could not have a quorum
(`remote.py:342`); `fab logs` asserts that there are logs of benchmark clients,
which the local run does not start any more (`local.py:107`); "Stop execution on all
machines" (`fabfile.py:145`) leaves a session on each of them if it is called inside
tmux (`commands.py:74`); and "only start 2
nodes" stands behind a 4 (`fabfile.py:17`).

### Bounds

Two nodes are enough for a difference between nodes, since properties compare
two. Two blocks are needed for what one block leaves to the next (counter,
hasher, poisoned lock), two transactions in a block for a failed one before
another. The seven inputs of `sequencer` are one transaction of every fate:
stored, hash fails, hash panics, wrong hash, an invocation, and bytes that do not
decode; they can be ordered so that a deployment comes before or after its
invocation, which decides whether that panics. Four faults are a stop and a
return for an engine and for an application, or two of each at one node, so that
a block can be executed three times. Three heights and two crashes let a crash
hit the boot after a crash, and two failing calls let a commit fail on what a
failed call of another thread left. With two clients and channels of one, a client
waits for a place that another one holds, and may hang up while it does; two
certificates are one in hand, or failed, and one more behind it. The engines of
`NarwhalEngine` do not talk to each other, so one is enough. In `proposal_trim`
the sum of the sizes gets above the largest usize of the model. More than two
thirds of three primaries is three, so in `narwhal_demo` a first panic takes the
quorum away while the others still have calls to make, or have not yet got to know
what is ordered. The keys of `client` are
a hash that another hash contains and a prefix of all of them. Four testbed
nodes are what the task local starts; two workers each let the ports of one worker
meet those of another of the same node. Two regions are enough for a call that
fails between regions and for regions of different size, two machines for a
start of some of them. Four tasks are a create, one that fails half-way, one that
finds what that left, and one more: stopped machines that were installed, started
again and used by remote. Tasks that leave nothing behind, info and kill, are not
counted, so that a kill may follow the fourth. One failed call is enough for each
task to be left half done; EC2's refusals are not bounded. The committees have
two sizes, the first of them run, and `BenchParams` is given both ways of
placing workers.

### Fairness

Weak fairness of a thread that has a request (`Handle`, `HandlePanic`,
`Increment`): threads of the ABCI server are scheduled by the operating system.
Weak fairness of the engine's task between its awaits (`Run`), and strong
fairness of taking from each channel, since `tokio::select!` picks at random
among the branches that are ready. A client that waits for a place in the channel
gets one when there is one again and again (`Send`, strong: tokio's semaphore is
first come, first served). Weak fairness of ordering, and of what each primary
gets to know of the order, while more than two thirds of the primaries run
(`Order`, `Quorum /\ Output`): without them a primary may never learn of what was
ordered, and nothing is claimed of it. Weak fairness of the node behind the client
(`NextBlock`, `BlockPanics`, `Index`). Nothing makes users act, batches arrive, faults happen or
nodes return. In `Fabfile` the script of a task is one thread that goes on until it
ends (`Calling`), and EC2 takes machines out of transient states
(`MachineMoves`); that no task runs besides, which would keep it waiting, is how the
scripts are used. A batch that never arrives does not block the engine: reading it
is an error.

## 4. What TLAPS proves

For any number of nodes, threads, clients, workers and faults, any inputs and
any bounds, from the assumptions on constants that the modules name (ASSUME) and
nothing else:

- **`Sequencer_proofs`**: `TypeCorrect`, `HasherCoversState`, `ReplicasAgree`,
  `HashesAgree`, `PanicStopsAll`, `ImplementsAppHashLog`, `DecidedDecode`,
  `CountsAreRight`. Agreement compares two
  nodes that are seldom at the same place, so it is not inductive. The invariant
  goes by the history `executed`: entry k+1 is what entry k becomes under request
  k, each replica is the entry at its position (or what its last request's panic
  left of it), and none of the entries before a position was reached by a panic. Then a
  position determines the replica, and the hashes of a lower position are a prefix
  of those of a higher one. Steps of the refinement map to `Publish` when the
  request is commit, and to stuttering otherwise. For `DecidedDecode` the mempool
  has to be decodable too, since that is where decided bytes come from. For
  `CountsAreRight` two facts: in the requests nothing but a begin_block or a
  commit follows an end_block or a commit (so counting never goes on from
  another block), and on the history the counter of an entry is its distance to
  the last begin_block.
- **`Hooks_proofs`**, for the two hooks that are modelled step by step. The height
  file: `TypeCorrect`, `CommitReadsAHeight`, `CountsOnce`, `TornFileStopsBoot`,
  `ReportsAreMonotone`. The invariant follows the life of the process: what the
  file may hold while it is off, while `new` runs, and at each step of a commit;
  and what has been reported is at most what the next read can find. Most of it
  holds up to `reset`, the moment a thread takes a file that it could not read for a
  missing one and makes it anew from 0; that the height is not ahead of the commits
  holds after it too. The unwraps of a failing call itself are no matter of proof:
  they panic, as the code says. Trimming:
  `TrimTypeCorrect`, `TrimIsLongestPrefix`. A history of the partial sums makes
  the sum of a prefix a value, so no induction is needed; the invariant says what
  `total` is in terms of it, saturation included. The statement has a proviso,
  `Fits`: sizes whose sum does not saturate. A request that large cannot be in
  memory. The names of `ProposalTrim` begin with Trim where `HeightFile` has the
  same ones.
- **`SequencerFaults_proofs`**: `TypeCorrect`, `HasherCoversState`,
  `OneCommitEach`, `MemoryFollowsChain`, `NobodyPasses`. The invariant adds to
  `CommittedOnce` that the height is ahead of an engine that is connected exactly
  while a commit's answer is not saved. The last two are about a block that is
  executed again, from its beginning, on a memory that holds some of it and a lock
  that may be poisoned. Their invariant (`MInv`) says which transactions of a
  block are walls: those that panic on every memory that holds no more than what is
  stored before them. A memory that was never lost stores all that its finished
  blocks store, and what it answered of the block at hand; there was no wall in
  any of this; it stores nothing from behind a wall of the next block; and if its
  lock is poisoned it stands before such a wall, with all that is stored before it
  already there. So a deployment that a poisoned lock swallows was made before,
  and the wall is met again.
- **`NarwhalEngine_proofs`**: `TypeCorrect`, with the bounds of the channels,
  `QueriesAfterCommits` and `ExecutesOrdered`. Types need that a certificate is in
  hand at every step but two; queries need that no block is half done wherever one
  can be taken. `ExecutesOrdered` says where the application's calls are in the
  script of what is ordered: at each step of a block, the script of the blocks
  before it, the begin of its own, and the transactions of the batches that were
  delivered, with those that are left making up the whole payload; and of an engine
  that ended, that the calls are a prefix. `FlattenSeq` computes both sides by
  recursion; what is needed of it (one block more is one append, and a prefix stays a
  prefix) is proved by an induction over the naturals, see below. A batch that
  does not parse must not be a sequence of transactions, which is a conjunct of
  `EngineAssumption`.
- **`NarwhalDemo_proofs`**: `TypeCorrect`, `LogIsOfItsBlock`, `NobodyGetsPast`.
  Within a block the counter is the number of calls made since its begin_block.
  All transactions that a primary has answered do not panic, and one that stopped
  did so at a transaction that does, in a block that is the same for all.
- **`Client_proofs`**: `TypeCorrect`, `PrintedStays` and the action property
  `GetRepeats`. The invariant: a client that sends has something to send; what a
  node has answered is in its mempool or its chain, while it runs; and what `get` has printed for
  a key is the first entry that the key finds. New entries come behind the old
  ones, so the first that is found stays the first.
- **`Fabfile_proofs`**. The local testbed: `LocalTypeCorrect`, `EndpointsApart`,
  `EnginesOwn`. Every port given is below the next one, and those that one node or
  worker is given follow each other, so that all of them are compared pairwise; run starts processes only
  when the committee is complete, so an address finds at most the application it
  was made for. `ImplementsTestbed`: the tasks together allow the local testbed
  nothing that `Testbed` does not, which carries these over. The machines:
  `ReportsHold`, `DeletesHold`, `KillHolds`, for any regions, machines, tasks and
  failures. The reports are about all machines, and a task's listing is old when it
  acts on it. So the invariant says for each step of each task how far it has got:
  what holds of the regions before the one it is at, of the machines on its
  listing, and of those that are not on it. What failed tasks leave behind is in
  two facts that hold between tasks: where there is a machine, every region has its
  group (create makes all groups first; destroy deletes them last), and a client
  runs on no machine that is off or has not booted. The runs: `FabTypeCorrect`,
  the action property `ClientsConfigured`, and `DedicatedAreEnough`. While a run
  has hosts, they are one list of machines for each node, no machine is in two of
  them, all of them run or boot (so none can halt or go, which would empty its
  disk); they are built before they are configured; and the nodes before the one
  the upload is at hold their own files. The lemmas under this are about what
  `_select_hosts` computes: the regions in order, the round robin of `zip`, which
  takes every machine at most once and never past the shortest list, and the least
  and greatest of a set of numbers. That a client's node is one that got files is
  arithmetic: the quotient of its number by the workers is below the nodes of the
  first committee less the faulty ones, and `_config` leaves out as many of all
  hosts.
- **`BlockExecution_proofs`**: the lemmas on hooks and blocks that the sequencer's
  proofs share: types, hashes that only grow, panics that only `deliver_tx` has.

Proved, and checked by no run of their own: `AppHashAgreement` without faults
(`NoFork` implies it), `HashCoversState` without faults, `TornFileNeverServed`,
`NobodyGetsPast` (no primary commits a block that has stopped another one), and `DedicatedAreEnough` (what
`too_few_hosts` refutes of a run that collocates is true of one that does not).

The library states induction over data for operators, which the provers cannot
instantiate. Where a proof needs it over the naturals, it is stated for a set
(`Induction` in `NarwhalEngine_proofs`), from the least member of a set of
naturals, which there is since the finite sets 1..n are well-founded by inclusion.
`RegionsOf` is written by ranks and not by sorting for the same reason: the order
of a set by its counts can be proved about.

Every invariant and every action property that a passing run checks is proved.
Model-checked only is all liveness: `PanicSpreads`, `PanicStopsWhoSeesIt`, `CommitEnds`, `QueriesEnd`, `ReceivedIsExecuted`, `GivenIsExecuted`,
`PrintedIsFound`, `TasksEnd`. Fairness and ENABLED are out of the prover's reach.

## 5. Plan

Done, in this order: the transaction library and application; the replicated
sequencer with its abstract specification; the height file; faults; trimming; the
Narwhal engine; the demo; the client; the local testbed; the remote testbed and
the tasks of the fabfile.

To be extended:

1. A Narwhal node that is restarted: a second `Start` with the demo's height 0
   (`types.rs:250`), and what a primary outputs again.
2. The logs: `LogParser` (merging results, throughput, latency) and
   `LogAggregator` as functions, against reference definitions.
3. The Go load tester's splice over short sequences of bytes.

To be proved: an abstract specification of the height file (a counter that is
incremented at one moment) and of the Narwhal engine (a log that is handed to
applications), with the detailed ones shown to implement them.

Not modelled, and not planned: what stands behind `remote.py:242`, which no
execution reaches; the tasks plot and logs, which read files and change nothing;
the classes of parameters, which check a dictionary; the sequencer's own
benchmark, whose main stops in `todo!()` before it sends anything; plots, progress
bars and printing; shell recipes; arguments of command lines; generated Cairo
programs.
