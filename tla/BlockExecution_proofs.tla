------------------------ MODULE BlockExecution_proofs -----------------------
(***************************************************************************)
(* Lemmas about the hooks of one application process, for every module     *)
(* that drives replicas: what a request makes of a replica is a replica    *)
(* (AfterType), its hasher still covers its state (AfterCovers), and only  *)
(* a commit hands out a hash (AfterHashes).                                *)
(***************************************************************************)
EXTENDS BlockExecution, TLAPS

(* The elements of two sequences in a row.                                  *)
LEMMA ConcatElements ==
  ASSUME NEW S, NEW s \in Seq(S), NEW t \in Seq(S)
  PROVE  /\ Len(s \o t) = Len(s) + Len(t)
         /\ \A i \in 1..Len(s) : (s \o t)[i] = s[i]
         /\ \A i \in 1..Len(t) : (s \o t)[Len(s) + i] = t[i]
<1>1. Len(s) \in Nat /\ Len(t) \in Nat
  OBVIOUS
<1>2. ASSUME NEW i \in 1..Len(t) PROVE (s \o t)[Len(s) + i] = t[i]
  <2>1. Len(s) + i \in 1..Len(s) + Len(t) /\ Len(s) + i > Len(s) /\ Len(s) + i - Len(s) = i
    BY <1>1
  <2> QED BY <1>1, <2>1
<1> QED BY <1>1, <1>2

(***************************************************************************)
(* Decoded bytes that pass the checks of deliver_tx keep a memory typed.   *)
(***************************************************************************)
LEMMA ApplyType ==
  ASSUME NEW app \in App, NEW t \in TransactionType, ~HashPanics(t), ~HashFails(t)
  PROVE  ApplyTx(app, t).app \in App
<1>1. CASE t \in Declares
  <2>1. t.kind = "Declare" /\ t.program \in Programs
    BY <1>1 DEF Declares, HashFails
  <2>2. ClassHash(t.program) \in Classes
    BY <2>1 DEF Classes
  <2>3. ApplyTx(app, t) = DeclareTx(app, t)
    BY <2>1 DEF ApplyTx
  <2> QED BY <2>2, <2>3 DEF DeclareTx, Outcome, App
<1>2. CASE t \in Deploys
  <2>1. /\ t.kind = "DeployAccount"
        /\ t.class_hash \in Classes
        /\ t.salt \in Salts
    BY <1>2 DEF Deploys, HashPanics, Parses
  <2>2. ContractAddress(t.class_hash, t.salt) \in Addresses
    BY <2>1 DEF Addresses
  <2>3. ApplyTx(app, t) = DeployTx(app, t)
    BY <2>1 DEF ApplyTx
  <2>4. \/ DeployTx(app, t).app = app
        \/ DeployTx(app, t).app = [app EXCEPT !.contracts =
                                     @ \cup {ContractAddress(t.class_hash, t.salt)}]
    BY DEF DeployTx, Outcome
  <2> QED BY <2>2, <2>3, <2>4 DEF App
<1>3. CASE t \in Invokes
  <2>1. t.kind = "Invoke"
    BY <1>3 DEF Invokes
  <2>2. ApplyTx(app, t) = InvokeTx(app, t)
    BY <2>1 DEF ApplyTx
  <2>3. [app EXCEPT !.poisoned = TRUE] \in App
    BY DEF App
  <2> QED BY <2>2, <2>3 DEF InvokeTx, Outcome
<1> QED BY <1>1, <1>2, <1>3 DEF TransactionType

LEMMA HashedType ==
  ASSUME NEW app \in App, NEW h \in Hashes
  PROVE  Hashed(app, h) \in App
<1>1. app.hasher \in Seq(Hashes)
  BY DEF App
<1>2. Append(app.hasher, h) \in Seq(Hashes)
  BY <1>1
<1> QED BY <1>2 DEF Hashed, App

LEMMA DeliverType ==
  ASSUME NEW app \in App, NEW raw \in Raw
  PROVE  Deliver(app, raw).app \in App
<1>1. Counted(app) \in App
  BY DEF Counted, App
<1>2. CASE raw = Undecodable
  BY <1>2 DEF Deliver, Outcome
<1>3. CASE raw # Undecodable
  <2>1. raw \in Transaction /\ raw.type \in TransactionType /\ raw.hash \in Hashes
    BY <1>3 DEF Raw, Transaction
  <2>2. CASE HashPanics(raw.type)
    BY <1>3, <2>2 DEF Deliver, Outcome, HashPanics, HashFails
  <2>3. CASE ~HashPanics(raw.type) /\ HashFails(raw.type)
    BY <1>1, <1>3, <2>3 DEF Deliver, Outcome
  <2>4. CASE ~HashPanics(raw.type) /\ ~HashFails(raw.type)
    <3>1. Hashed(Counted(app), raw.hash) \in App
      BY <1>1, <2>1, HashedType
    <3>2. ApplyTx(Hashed(Counted(app), raw.hash), raw.type).app \in App
      BY <2>1, <2>4, <3>1, ApplyType
    <3> QED BY <1>1, <1>3, <2>4, <3>2 DEF Deliver, Outcome
  <2> QED BY <2>2, <2>3, <2>4
<1> QED BY <1>2, <1>3

-----------------------------------------------------------------------------
(***************************************************************************)
(* The hasher and the state.                                               *)
(***************************************************************************)
LEMMA FedHashed ==
  ASSUME NEW app \in App, NEW h \in Hashes
  PROVE  Fed(Hashed(app, h)) = Fed(app) \cup {h}
<1> DEFINE s == app.hasher
<1>1. s \in Seq(Hashes)
  BY DEF App
<1>2. Hashed(app, h).hasher = Append(s, h)
  BY DEF Hashed, App
<1>3. {Append(s, h)[i] : i \in 1..Len(Append(s, h))} = {s[i] : i \in 1..Len(s)} \cup {h}
  BY <1>1
<1> QED BY <1>2, <1>3 DEF Fed

(* A class hash, an address and the text of an invocation never coincide.   *)
LEMMA ClassIsNoAddress == Classes \cap Addresses = {}
BY DEF Classes, Addresses, ClassHash, ContractAddress

LEMMA InvocationIsNeither ==
  ASSUME NEW a, NEW f
  PROVE  <<"invoked", f, a>> \notin Classes \cup Addresses
BY DEF Classes, Addresses, ClassHash, ContractAddress

LEMMA ApplyCovers ==
  ASSUME NEW app \in App, Covers(app),
         NEW t \in TransactionType, ~HashPanics(t), ~HashFails(t),
         NEW h \in Hashes, h = ComputeAndHash(t)
  PROVE  Covers(ApplyTx(Hashed(app, h), t).app)
<1> DEFINE fed == Hashed(app, h)
<1>1. /\ fed \in App
      /\ Fed(fed) = Fed(app) \cup {h}
      /\ fed.classes = app.classes
      /\ fed.contracts = app.contracts
      /\ fed.poisoned = app.poisoned
  <2>1. fed \in App /\ Fed(fed) = Fed(app) \cup {h}
    BY HashedType, FedHashed
  <2> QED BY <2>1 DEF Hashed, App
<1>2. CASE t \in Declares
  <2>1. t.kind = "Declare" /\ t.program \in Programs
    BY <1>2 DEF Declares, HashFails
  <2>2. h = ClassHash(t.program) /\ h \in Classes /\ h \notin Addresses
    BY <2>1, ClassIsNoAddress DEF Classes, ComputeAndHash
  <2>3. ApplyTx(fed, t) = DeclareTx(fed, t)
    BY <2>1 DEF ApplyTx
  <2>4. CASE fed.poisoned
    BY <1>1, <2>3, <2>4 DEF DeclareTx, Outcome, Covers
  <2>5. CASE ~fed.poisoned
    <3> DEFINE new == [fed EXCEPT !.classes = @ \cup {h}]
    <3>1. ApplyTx(fed, t).app = new
      BY <2>2, <2>3, <2>5 DEF DeclareTx, Outcome
    <3>2. /\ Fed(new) = Fed(fed)
          /\ new.classes = app.classes \cup {h}
          /\ new.contracts = app.contracts
          /\ new.poisoned = FALSE
      BY <1>1, <2>5 DEF Fed, App
    <3> QED BY <1>1, <2>2, <2>5, <3>1, <3>2 DEF Covers
  <2> QED BY <2>4, <2>5
<1>3. CASE t \in Deploys
  <2>1. /\ t.kind = "DeployAccount"
        /\ t.class_hash \in Classes
        /\ t.salt \in Salts
    BY <1>3 DEF Deploys, HashPanics, Parses
  <2>2. h = ContractAddress(t.class_hash, t.salt) /\ h \in Addresses /\ h \notin Classes
    BY <2>1, ClassIsNoAddress DEF Addresses, ComputeAndHash
  <2>3. ApplyTx(fed, t) = DeployTx(fed, t)
    BY <2>1 DEF ApplyTx
  <2>4. CASE fed.poisoned
    BY <1>1, <2>3, <2>4 DEF DeployTx, Outcome, Covers
  <2>5. CASE ~fed.poisoned
    <3> DEFINE new == [fed EXCEPT !.contracts = @ \cup {h}]
    <3>1. ApplyTx(fed, t).app = new
      BY <2>2, <2>3, <2>5 DEF DeployTx, Outcome
    <3>2. /\ Fed(new) = Fed(fed)
          /\ new.classes = app.classes
          /\ new.contracts = app.contracts \cup {h}
          /\ new.poisoned = FALSE
      BY <1>1, <2>5 DEF Fed, App
    <3> QED BY <1>1, <2>2, <2>5, <3>1, <3>2 DEF Covers
  <2> QED BY <2>4, <2>5
<1>4. CASE t \in Invokes
  <2>1. t.kind = "Invoke"
    BY <1>4 DEF Invokes
  <2>2. h \notin Classes /\ h \notin Addresses
    BY <2>1, InvocationIsNeither DEF ComputeAndHash
  <2>3. ApplyTx(fed, t) = InvokeTx(fed, t)
    BY <2>1 DEF ApplyTx
  <2>4. Covers(fed)
    BY <1>1, <2>2 DEF Covers
  <2> DEFINE new == [fed EXCEPT !.poisoned = TRUE]
  <2>5. Covers(new)
    <3>1. /\ Fed(new) = Fed(fed)
          /\ new.classes = fed.classes
          /\ new.contracts = fed.contracts
          /\ new.poisoned = TRUE
      BY <1>1 DEF Fed, App
    <3> QED BY <2>4, <3>1 DEF Covers
  <2>6. ApplyTx(fed, t).app \in {fed, new}
    BY <2>3 DEF InvokeTx, Outcome
  <2> QED BY <2>4, <2>5, <2>6
<1> QED BY <1>2, <1>3, <1>4 DEF TransactionType

LEMMA DeliverCovers ==
  ASSUME NEW app \in App, Covers(app), NEW raw \in Raw
  PROVE  Covers(Deliver(app, raw).app)
<1>1. Counted(app) \in App /\ Covers(Counted(app))
  BY DEF Counted, App, Covers, Fed
<1>2. CASE raw = Undecodable
  BY <1>2 DEF Deliver, Outcome
<1>3. CASE raw # Undecodable
  <2>1. raw \in Transaction /\ raw.type \in TransactionType /\ raw.hash \in Hashes
    BY <1>3 DEF Raw, Transaction
  <2>2. CASE HashPanics(raw.type)
    BY <1>3, <2>2 DEF Deliver, Outcome, HashPanics, HashFails
  <2>3. CASE ~HashPanics(raw.type) /\ HashFails(raw.type)
    BY <1>1, <1>3, <2>3 DEF Deliver, Outcome
  <2>4. CASE ~HashPanics(raw.type) /\ ~HashFails(raw.type)
    <3>1. CASE Integral(raw)
      <4>1. raw.hash = ComputeAndHash(raw.type)
        BY <3>1 DEF Integral
      <4>2. Covers(ApplyTx(Hashed(Counted(app), raw.hash), raw.type).app)
        BY <1>1, <2>1, <2>4, <4>1, ApplyCovers
      <4> QED BY <1>3, <2>4, <3>1, <4>2 DEF Deliver
    <3>2. CASE ~Integral(raw)
      BY <1>1, <1>3, <2>4, <3>2 DEF Deliver, Outcome
    <3> QED BY <3>1, <3>2
  <2> QED BY <2>2, <2>3, <2>4
<1> QED BY <1>2, <1>3

-----------------------------------------------------------------------------
(***************************************************************************)
(* One request.                                                            *)
(***************************************************************************)
LEMMA RequestKinds ==
  ASSUME NEW q \in Requests
  PROVE  \/ q = Begin /\ q.kind = "begin_block"
         \/ q = End /\ q.kind = "end_block"
         \/ q = Commit /\ q.kind = "commit"
         \/ q.kind = "deliver_tx" /\ q.tx \in Raw
BY ReplicaAssumption DEF Requests, Begin, End, Commit, DeliverReq

(* No two requests of different kinds are the same request.                 *)
LEMMA RequestsDiffer ==
  /\ Begin # End /\ Begin # Commit /\ End # Commit
  /\ \A raw : DeliverReq(raw) \notin {Begin, End, Commit}
BY DEF Begin, End, Commit, DeliverReq

LEMMA AfterType ==
  ASSUME NEW r \in Replica, NEW q \in Requests
  PROVE  After(r, q) \in Replica
<1>0. r.app \in App /\ r.height \in Nat /\ r.hashes \in Seq(Hash)
  BY DEF Replica
<1>1. CASE q.kind = "begin_block"
  <2>1. BeginBlock(r.app) \in App
    BY <1>0 DEF BeginBlock, App
  <2> QED BY <1>1, <2>1 DEF After, Replica
<1>2. CASE q.kind = "end_block"
  BY <1>2 DEF After
<1>3. CASE q.kind = "commit"
  <2>1. CommitHash(r.app) \in Hash
    BY <1>0 DEF CommitHash, Hash, App
  <2>2. Append(r.hashes, CommitHash(r.app)) \in Seq(Hash)
    BY <1>0, <2>1
  <2>3. CommitReplica(r) \in Replica
    BY <1>0, <2>2 DEF CommitReplica, Replica
  <2> QED BY <1>3, <2>3 DEF After
<1>4. CASE q.kind = "deliver_tx" /\ q.tx \in Raw
  <2>1. Deliver(r.app, q.tx).app \in App
    BY <1>0, <1>4, DeliverType
  <2> QED BY <1>4, <2>1 DEF After, Replica
<1> QED BY <1>1, <1>2, <1>3, <1>4, RequestKinds

LEMMA AfterCovers ==
  ASSUME NEW r \in Replica, Covers(r.app), NEW q \in Requests
  PROVE  Covers(After(r, q).app)
<1>0. r.app \in App
  BY DEF Replica
<1>1. CASE q.kind = "begin_block"
  <2>1. Covers(BeginBlock(r.app))
    BY <1>0 DEF BeginBlock, App, Covers, Fed
  <2> QED BY <1>1, <2>1 DEF After, Replica
<1>2. CASE q.kind = "end_block"
  BY <1>2 DEF After
<1>3. CASE q.kind = "commit"
  BY <1>3 DEF After, CommitReplica, Replica
<1>4. CASE q.kind = "deliver_tx" /\ q.tx \in Raw
  <2>1. Covers(Deliver(r.app, q.tx).app)
    BY <1>0, <1>4, DeliverCovers
  <2> QED BY <1>4, <2>1 DEF After, Replica
<1> QED BY <1>1, <1>2, <1>3, <1>4, RequestKinds

(***************************************************************************)
(* A request leaves the hashes alone or, for a commit, adds one.           *)
(***************************************************************************)
LEMMA AfterHashes ==
  ASSUME NEW r \in Replica, NEW q \in Requests
  PROVE  IF q = Commit
           THEN After(r, q).hashes = Append(r.hashes, CommitHash(r.app))
           ELSE After(r, q).hashes = r.hashes
BY RequestKinds DEF After, CommitReplica, Replica, Commit

(***************************************************************************)
(* The counter: every transaction that deliver_tx answers, executed or     *)
(* refused, is counted, and only begin_block resets the counter.           *)
(***************************************************************************)
LEMMA ApplyKeepsCount ==
  ASSUME NEW app \in App, NEW t \in TransactionType
  PROVE  ApplyTx(app, t).app.transactions = app.transactions
BY DEF ApplyTx, DeclareTx, DeployTx, InvokeTx, Outcome, App,
       TransactionType, Declares, Deploys, Invokes

LEMMA DeliverCounts ==
  ASSUME NEW app \in App, NEW raw \in Raw, Deliver(app, raw).reply # "panic"
  PROVE  Deliver(app, raw).app.transactions = app.transactions + 1
<1>1. Counted(app) \in App /\ Counted(app).transactions = app.transactions + 1
  BY DEF Counted, App
<1>2. raw # Undecodable /\ ~HashPanics(raw.type)
  <2>1. ASSUME raw = Undecodable PROVE FALSE
    BY <2>1 DEF Deliver, Outcome
  <2>2. ASSUME raw # Undecodable, HashPanics(raw.type) PROVE FALSE
    BY <2>2 DEF Deliver, Outcome, HashPanics, HashFails
  <2> QED BY <2>1, <2>2
<1>3. raw.type \in TransactionType /\ raw.hash \in Hashes
  BY <1>2 DEF Raw, Transaction
<1>4. CASE HashFails(raw.type)
  BY <1>1, <1>2, <1>4 DEF Deliver, Outcome
<1>5. CASE ~HashFails(raw.type)
  <2> DEFINE fed == Hashed(Counted(app), raw.hash)
  <2>1. fed \in App /\ fed.transactions = app.transactions + 1
    BY <1>1, <1>3, HashedType DEF Hashed, App
  <2>2. ApplyTx(fed, raw.type).app.transactions = app.transactions + 1
    BY <1>3, <2>1, ApplyKeepsCount
  <2> QED BY <1>1, <1>2, <1>5, <2>2 DEF Deliver, Outcome
<1> QED BY <1>4, <1>5

LEMMA AfterCounts ==
  ASSUME NEW r \in Replica, NEW q \in Requests, Answer(r, q) # "panic"
  PROVE  After(r, q).app.transactions =
           IF q = Begin THEN 0
           ELSE IF q \in {End, Commit} THEN r.app.transactions
                                       ELSE r.app.transactions + 1
<1>1. r.app \in App
  BY DEF Replica
<1>2. CASE q = Begin
  BY <1>1, <1>2, RequestKinds DEF After, BeginBlock, Replica, App, Begin
<1>3. CASE q \in {End, Commit}
  BY <1>3, RequestsDiffer DEF After, CommitReplica, End, Commit
<1>4. CASE q.kind = "deliver_tx" /\ q.tx \in Raw
  <2>1. Deliver(r.app, q.tx).app.transactions = r.app.transactions + 1
    BY <1>1, <1>4, DeliverCounts DEF Answer
  <2>2. q \notin {Begin, End, Commit}
    BY <1>4 DEF Begin, End, Commit
  <2> QED BY <1>4, <2>1, <2>2 DEF After, Replica
<1> QED BY <1>2, <1>3, <1>4, RequestKinds

(* Only deliver_tx panics.                                                  *)
LEMMA PanicIsDeliver ==
  ASSUME NEW r, NEW q, Answer(r, q) = "panic"
  PROVE  q.kind = "deliver_tx" /\ q # Commit
BY DEF Answer, Commit

-----------------------------------------------------------------------------
(***************************************************************************)
(* Blocks and proposals.                                                   *)
(***************************************************************************)
LEMMA ProposalType ==
  ASSUME NEW txs \in Seq(Inputs)
  PROVE  /\ PrepareProposal(txs) \in Seq(Inputs)
         /\ Len(PrepareProposal(txs)) <= Len(txs)
         /\ SubSeq(txs, Len(PrepareProposal(txs)) + 1, Len(txs)) \in Seq(Inputs)
BY ReplicaAssumption DEF PrepareProposal

LEMMA BlockType ==
  ASSUME NEW txs \in Seq(Inputs)
  PROVE  Block(txs) \in Seq(Requests)
<1>1. <<Begin>> \in Seq(Requests) /\ <<End, Commit>> \in Seq(Requests)
  BY DEF Requests
<1>2. \A i \in 1..Len(txs) : DeliverReq(txs[i]) \in Requests
  BY DEF Requests
<1>3. [i \in 1..Len(txs) |-> DeliverReq(txs[i])] \in Seq(Requests)
  BY <1>2
<1> QED BY <1>1, <1>3 DEF Block

(* What is where in a block.                                                *)
LEMMA BlockRequests ==
  ASSUME NEW txs \in Seq(Inputs)
  PROVE  /\ Len(Block(txs)) = Len(txs) + 3
         /\ Block(txs)[1] = Begin
         /\ \A i \in 2..Len(txs) + 1 : Block(txs)[i] = DeliverReq(txs[i - 1])
         /\ Block(txs)[Len(txs) + 2] = End
         /\ Block(txs)[Len(txs) + 3] = Commit
<1> DEFINE k == Len(txs)
           middle == [i \in 1..k |-> DeliverReq(txs[i])]
<1>1. k \in Nat
  OBVIOUS
<1>2. \A i \in 1..k : DeliverReq(txs[i]) \in Requests
  BY DEF Requests
<1>3. middle \in Seq(Requests) /\ Len(middle) = k
  BY <1>1, <1>2
<1>4. <<Begin>> \in Seq(Requests) /\ <<End, Commit>> \in Seq(Requests)
  BY DEF Requests
<1>5. Block(txs) = (<<Begin>> \o middle) \o <<End, Commit>>
  BY DEF Block
<1>6. Len(Block(txs)) = k + 3
  BY <1>1, <1>3, <1>4, <1>5
<1> QED BY <1>1, <1>3, <1>4, <1>5, <1>6

(* The only commit of a block is its last request.                          *)
LEMMA BlockShape ==
  ASSUME NEW txs \in Seq(Inputs)
  PROVE  /\ Len(Block(txs)) = Len(txs) + 3
         /\ \A i \in 1..Len(txs) + 3 : Block(txs)[i] = Commit <=> i = Len(txs) + 3
<1> DEFINE k == Len(txs)
<1>1. k \in Nat
  OBVIOUS
<1>2. ASSUME NEW i \in 1..k + 3 PROVE i = 1 \/ i \in 2..k + 1 \/ i = k + 2 \/ i = k + 3
  BY <1>1
<1>3. 1 # k + 3 /\ k + 2 # k + 3 /\ \A i \in 2..k + 1 : i # k + 3
  BY <1>1
<1> QED BY <1>2, <1>3, BlockRequests, RequestsDiffer
=============================================================================
