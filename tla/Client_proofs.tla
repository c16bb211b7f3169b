---------------------------- MODULE Client_proofs ----------------------------
(***************************************************************************)
(* Proofs about the client and its node, for any number of clients, any    *)
(* transactions, keys and bounds.                                          *)
(*                                                                         *)
(* Three facts make the invariant: a client that sends has something to    *)
(* send; what a node that runs has answered is in its mempool or in its    *)
(* chain; and what get has printed for a key is still the first that it    *)
(* finds.                                                                  *)
(***************************************************************************)
EXTENDS Client, BlockExecution_proofs, FiniteSetTheorems

InNode(tx) ==
  \/ \E i \in DOMAIN mempool : mempool[i] = tx
  \/ \E i \in DOMAIN chain : chain[i].tx = tx

SendersHaveOne ==
  \A c \in Clients : pc[c] \in {"sending", "answered", "printed"} => out[c] \in Transaction

AnsweredIsKept ==
  \A c \in Clients : pc[c] \in {"answered", "printed"} => InNode(out[c]) \/ ~up

PrintedIsFirst ==
  \A k \in Keys : found[k] # NoTx =>
    Found(k) # {} /\ found[k] = chain[First(Found(k))].tx

IInv == TypeOK /\ SendersHaveOne /\ AnsweredIsKept /\ PrintedIsFirst

-----------------------------------------------------------------------------
(* What deliver_tx answers, and an entry of the chain.                      *)
LEMMA DeliverReplies ==
  ASSUME NEW memory \in App, NEW raw \in Raw
  PROVE  Deliver(memory, raw).reply \in Replies
<1>1. ASSUME NEW a, NEW reply PROVE Outcome(a, reply).reply = reply
  BY DEF Outcome
<1>2. ASSUME NEW a, NEW t \in TransactionType PROVE ApplyTx(a, t).reply \in Replies
  <2>1. CASE t.kind = "Declare"
    BY <1>1, <2>1 DEF ApplyTx, DeclareTx, Replies
  <2>2. CASE t.kind = "DeployAccount"
    BY <1>1, <2>2 DEF ApplyTx, DeployTx, Replies
  <2>3. CASE t.kind = "Invoke"
    <3>1. ApplyTx(a, t) = InvokeTx(a, t)
      BY <2>3 DEF ApplyTx
    <3>2. InvokeTx(a, t).reply \in {"ok", "panic"}
      BY <1>1 DEF InvokeTx
    <3> QED BY <3>1, <3>2 DEF Replies
  <2> QED BY <2>1, <2>2, <2>3 DEF TransactionType, Declares, Deploys, Invokes
<1>3. raw # Undecodable => raw.type \in TransactionType
  BY DEF Raw, Transaction
<1> QED BY <1>1, <1>2, <1>3 DEF Deliver, Replies

LEMMA Made ==
  ASSUME NEW t \in TransactionType, NEW id \in Ids
  PROVE  WithType(t, id) \in Transaction
BY DEF WithType, Transaction, Hashes

(* A set of naturals that has a member has a least one.                     *)
LEMMA LeastNatural ==
  ASSUME NEW S, S \subseteq Nat, S # {}
  PROVE  \E x \in S : \A y \in S : x <= y
<1> DEFINE T == {1..n : n \in S}
<1>1. T \subseteq FiniteSubsetsOf(Nat)
  <2>1. \A n \in S : 1..n \in SUBSET Nat /\ IsFiniteSet(1..n)
    BY FS_Interval
  <2> QED BY <2>1 DEF FiniteSubsetsOf
<1>2. \E A \in T : \A B \in T : <<B, A>> \notin StrictSubsetOrdering(Nat)
  <2>1. T # {}
    OBVIOUS
  <2>2. IsWellFoundedOn(StrictSubsetOrdering(Nat), FiniteSubsetsOf(Nat))
    BY FS_StrictSubsetOrderingWellFounded
  <2> HIDE DEF T
  <2> QED BY <1>1, <2>1, <2>2, WFMin
<1>3. PICK x \in S : \A y \in S : <<1..y, 1..x>> \notin StrictSubsetOrdering(Nat)
  BY <1>2
<1>4. ASSUME NEW y \in S, ~(x <= y) PROVE FALSE
  <2>1. 1..y \subseteq 1..x /\ 1..y # 1..x
    BY <1>4
  <2>2. 1..y \in SUBSET Nat /\ 1..x \in SUBSET Nat
    BY <1>4
  <2> QED BY <1>3, <1>4, <2>1, <2>2 DEF StrictSubsetOrdering
<1> QED BY <1>4

(* The first of the matches is one of them, and no other is before it.      *)
LEMMA FirstIsLeast ==
  ASSUME NEW S, S \subseteq Nat, S # {}
  PROVE  First(S) \in S /\ \A i \in S : First(S) <= i
BY LeastNatural DEF First, Min

LEMMA LeastIsFirst ==
  ASSUME NEW S, S \subseteq Nat, NEW n \in S, \A i \in S : n <= i
  PROVE  First(S) = n
<1>1. First(S) \in S /\ First(S) <= n
  BY FirstIsLeast
<1>2. First(S) \in Nat /\ n \in Nat /\ n <= First(S)
  BY <1>1
<1> QED BY <1>1, <1>2

-----------------------------------------------------------------------------
(***************************************************************************)
(* The types.                                                              *)
(***************************************************************************)
LEMMA InitIInv == Init => IInv
<1>1. NewApp \in App
  BY DEF NewApp, App
<1> QED BY <1>1 DEF Init, IInv, TypeOK, SendersHaveOne, AnsweredIsKept, PrintedIsFirst, Steps

(* What the index has are entries of the chain.                             *)
LEMMA Matches ==
  ASSUME TypeOK, NEW k \in Keys
  PROVE  /\ Found(k) \subseteq 1..indexed
         /\ \A i \in Found(k) : i \in 1..Len(chain) /\ chain[i] \in Entry
<1>1. indexed \in Nat /\ Len(chain) \in Nat /\ indexed <= Len(chain)
  BY DEF TypeOK
<1>2. \A i \in 1..indexed : i \in 1..Len(chain)
  BY <1>1
<1>3. \A i \in 1..Len(chain) : chain[i] \in Entry
  BY DEF TypeOK
<1> QED BY <1>2, <1>3 DEF Found

LEMMA TypeStep == ASSUME IInv, [Next]_vars PROVE TypeOK'
<1> USE DEF IInv, TypeOK
<1>1. ASSUME NEW c \in Clients, NEW t \in Orders, Do(c, t) PROVE TypeOK'
  <2>1. t \in TransactionType
    BY ClientAssumption
  <2>2. PICK id \in Ids : out' = [out EXCEPT ![c] = WithType(t, id)]
    BY <1>1 DEF Do
  <2>3. WithType(t, id) \in Transaction
    BY <2>1, Made
  <2> QED BY <1>1, <2>2, <2>3 DEF Do, Becomes, Steps, node
<1>2. ASSUME NEW c \in Clients, NEW t \in Orders, DoFails(c, t) PROVE TypeOK'
  BY <1>2 DEF DoFails, Becomes, Steps, node
<1>3. ASSUME NEW c \in Clients, Broadcast(c) PROVE TypeOK'
  <2>1. out[c] \in Transaction
    BY <1>3 DEF Broadcast, SendersHaveOne
  <2>2. mempool' \in Seq(Transaction)
    BY <1>3, <2>1 DEF Broadcast
  <2> QED BY <1>3, <2>2 DEF Broadcast, Becomes, Steps
<1>4. ASSUME NEW c \in Clients, BroadcastFails(c) PROVE TypeOK'
  BY <1>4 DEF BroadcastFails, Becomes, Steps, node
<1>5. ASSUME NEW c \in Clients, Report(c) PROVE TypeOK'
  BY <1>5 DEF Report, Becomes, Steps, node
<1>6. ASSUME NEW c \in Clients, NEW k \in Keys, Get(c, k) PROVE TypeOK'
  <2>1. First(Found(k)) \in Found(k)
    <3>1. Found(k) \subseteq Nat /\ Found(k) # {}
      BY <1>6, Matches DEF Get
    <3> QED BY <3>1, FirstIsLeast
  <2>2. chain[First(Found(k))].tx \in Transaction
    BY <2>1, Matches DEF Entry
  <2> QED BY <1>6, <2>2 DEF Get, Becomes, Steps, node
<1>7. ASSUME NEW c \in Clients, NEW k \in Keys, GetDenied(c, k) PROVE TypeOK'
  BY <1>7 DEF GetDenied, Becomes, Steps, node
<1>8. ASSUME NEW raw \in Others, Receive(raw) PROVE TypeOK'
  <2>1. raw \in Transaction
    BY ClientAssumption
  <2> QED BY <1>8, <2>1 DEF Receive
<1>9. ASSUME mempool # << >>
      PROVE  Head(mempool) \in Transaction /\ Executed.app \in App /\ Executed.reply \in Replies
  <2>1. Head(mempool) \in Transaction
    BY <1>9
  <2> QED BY <2>1, DeliverType, DeliverReplies DEF Executed, Raw
<1>10. CASE NextBlock
  <2> DEFINE entry == [tx |-> Head(mempool), reply |-> Executed.reply]
  <2>1. entry \in Entry
    BY <1>9, <1>10 DEF NextBlock, Entry, Replies
  <2>2. chain' = Append(chain, entry)
    BY <1>10 DEF NextBlock
  <2>3. chain' \in Seq(Entry) /\ Len(chain') = Len(chain) + 1
    BY <2>1, <2>2
  <2>4. indexed' \in 0..Len(chain')
    BY <1>10, <2>3 DEF NextBlock
  <2>5. mempool' \in Seq(Transaction)
    BY <1>10 DEF NextBlock
  <2> QED BY <1>9, <1>10, <2>3, <2>4, <2>5 DEF NextBlock
<1>11. CASE BlockPanics
  <2>1. app' \in App /\ up' \in BOOLEAN
    BY <1>9, <1>11 DEF BlockPanics
  <2>2. mempool' \in Seq(Transaction)
    BY <1>11 DEF BlockPanics
  <2>3. UNCHANGED <<chain, indexed, pc, out, found>>
    BY <1>11 DEF BlockPanics
  <2> QED BY <2>1, <2>2, <2>3
<1>12. CASE Index
  BY <1>12 DEF Index
<1>13. CASE UNCHANGED vars
  BY <1>13 DEF vars
<1> QED
  BY <1>1, <1>2, <1>3, <1>4, <1>5, <1>6, <1>7, <1>8, <1>10, <1>11, <1>12, <1>13 DEF Next

-----------------------------------------------------------------------------
(***************************************************************************)
(* What a client prints is kept.                                           *)
(***************************************************************************)
LEMMA SendersStep == ASSUME IInv, [Next]_vars PROVE SendersHaveOne'
<1> USE DEF IInv, TypeOK, SendersHaveOne
<1>1. ASSUME NEW c \in Clients, NEW t \in Orders, Do(c, t) PROVE SendersHaveOne'
  <2>1. t \in TransactionType
    BY ClientAssumption
  <2>2. PICK id \in Ids : out' = [out EXCEPT ![c] = WithType(t, id)]
    BY <1>1 DEF Do
  <2>3. WithType(t, id) \in Transaction
    BY <2>1, Made
  <2> QED BY <1>1, <2>2, <2>3 DEF Do, Becomes
<1>2. ASSUME NEW c \in Clients, NEW t \in Orders, DoFails(c, t) PROVE SendersHaveOne'
  BY <1>2 DEF DoFails, Becomes
<1>3. ASSUME NEW c \in Clients, Broadcast(c) \/ BroadcastFails(c) \/ Report(c)
      PROVE  SendersHaveOne'
  BY <1>3 DEF Broadcast, BroadcastFails, Report, Becomes
<1>4. ASSUME NEW c \in Clients, NEW k \in Keys, Get(c, k) \/ GetDenied(c, k)
      PROVE  SendersHaveOne'
  BY <1>4 DEF Get, GetDenied, Becomes
<1>5. ASSUME UNCHANGED <<pc, out>> PROVE SendersHaveOne'
  BY <1>5
<1> QED
  BY <1>1, <1>2, <1>3, <1>4, <1>5
  DEF Next, Receive, NextBlock, BlockPanics, Index, vars

(* Nothing leaves the node: a block takes the head of the mempool along.    *)
LEMMA NodeKeeps ==
  ASSUME TypeOK, NEW tx, InNode(tx),
         \/ UNCHANGED <<mempool, chain>>
         \/ chain' = chain /\ \E t : mempool' = Append(mempool, t)
         \/ NextBlock
  PROVE  InNode(tx)'
<1> USE DEF TypeOK
<1>1. CASE UNCHANGED <<mempool, chain>>
  BY <1>1 DEF InNode
<1>2. ASSUME chain' = chain, NEW t, mempool' = Append(mempool, t) PROVE InNode(tx)'
  <2>1. CASE \E i \in DOMAIN chain : chain[i].tx = tx
    BY <1>2, <2>1 DEF InNode
  <2>2. ASSUME NEW i \in DOMAIN mempool, mempool[i] = tx PROVE InNode(tx)'
    <3>1. i \in 1..Len(mempool) /\ Len(mempool) \in Nat
      OBVIOUS
    <3>2. i \in DOMAIN mempool' /\ mempool'[i] = mempool[i]
      BY <1>2, <3>1
    <3> QED BY <2>2, <3>2 DEF InNode
  <2> QED BY <2>1, <2>2 DEF InNode
<1>3. CASE NextBlock
  <2> DEFINE entry == [tx |-> Head(mempool), reply |-> Executed.reply]
  <2>1. /\ chain' = Append(chain, entry) /\ mempool' = Tail(mempool) /\ mempool # << >>
        /\ entry.tx = Head(mempool)
    BY <1>3 DEF NextBlock
  <2> HIDE DEF entry
  <2>2. Len(chain) + 1 \in DOMAIN chain' /\ chain'[Len(chain) + 1] = entry
    BY <2>1
  <2>3. ASSUME NEW i \in DOMAIN chain, chain[i].tx = tx PROVE InNode(tx)'
    <3>1. i \in 1..Len(chain) /\ Len(chain) \in Nat
      OBVIOUS
    <3>2. i \in DOMAIN chain' /\ chain'[i] = chain[i]
      BY <2>1, <3>1
    <3> QED BY <2>3, <3>2 DEF InNode
  <2>4. ASSUME NEW i \in DOMAIN mempool, mempool[i] = tx PROVE InNode(tx)'
    <3>1. CASE i = 1
      BY <2>1, <2>2, <2>4, <3>1 DEF InNode
    <3>2. CASE i # 1
      <4>1. i \in 1..Len(mempool) /\ Len(mempool) \in Nat /\ i - 1 \in 1..Len(mempool) - 1
        BY <3>2
      <4>2. Len(mempool') = Len(mempool) - 1 /\ mempool' \in Seq(Transaction)
        BY <2>1
      <4>3. i - 1 \in DOMAIN mempool' /\ mempool'[i - 1] = mempool[i]
        <5>1. i - 1 \in 1..Len(mempool') /\ (i - 1) + 1 = i
          BY <4>1, <4>2
        <5>2. \A j \in 1..Len(mempool) - 1 : Tail(mempool)[j] = mempool[j + 1]
          BY <2>1
        <5>3. mempool'[i - 1] = mempool[i]
          BY <2>1, <4>1, <5>1, <5>2
        <5>4. DOMAIN mempool' = 1..Len(mempool')
          BY <4>2
        <5> QED BY <5>1, <5>3, <5>4
      <4> QED BY <2>4, <4>3 DEF InNode
    <3> QED BY <3>1, <3>2
  <2> QED BY <2>3, <2>4 DEF InNode
<1> QED BY <1>1, <1>2, <1>3

LEMMA AnsweredStep == ASSUME IInv, [Next]_vars PROVE AnsweredIsKept'
<1> USE DEF IInv, TypeOK, AnsweredIsKept
<1>1. ASSUME NEW c \in Clients, NEW t \in Orders, Do(c, t) \/ DoFails(c, t)
      PROVE  AnsweredIsKept'
  <2>1. UNCHANGED <<up, mempool, chain>>
    BY <1>1 DEF Do, DoFails, node
  <2>2. /\ pc'[c] \notin {"answered", "printed"}
        /\ \A d \in Clients \ {c} : pc'[d] = pc[d] /\ out'[d] = out[d]
    BY <1>1 DEF Do, DoFails, Becomes
  <2> QED BY <2>1, <2>2 DEF InNode
<1>2. ASSUME NEW c \in Clients, Broadcast(c) PROVE AnsweredIsKept'
  <2>1. mempool' = Append(mempool, out[c]) /\ UNCHANGED <<up, chain, out>> /\ up
    BY <1>2 DEF Broadcast
  <2>2. InNode(out[c])'
    <3>1. Len(mempool) + 1 \in DOMAIN mempool' /\ mempool'[Len(mempool) + 1] = out[c]
      BY <2>1
    <3> QED BY <2>1, <3>1 DEF InNode
  <2>3. ASSUME NEW d \in Clients \ {c}, pc'[d] \in {"answered", "printed"}
        PROVE  InNode(out[d])'
    <3>1. pc[d] \in {"answered", "printed"}
      BY <1>2, <2>3 DEF Broadcast, Becomes
    <3>2. PICK tx : tx = out[d]
      OBVIOUS
    <3>3. InNode(tx)'
      BY <2>1, <3>1, <3>2, NodeKeeps
    <3> QED BY <2>1, <3>2, <3>3
  <2> QED BY <2>2, <2>3
<1>3. ASSUME NEW c \in Clients, BroadcastFails(c) PROVE AnsweredIsKept'
  <2>1. UNCHANGED <<up, mempool, chain>>
    BY <1>3 DEF BroadcastFails, node
  <2>2. /\ pc'[c] = "failed"
        /\ \A d \in Clients \ {c} : pc'[d] = pc[d] /\ out'[d] = out[d]
    BY <1>3 DEF BroadcastFails, Becomes
  <2> QED BY <2>1, <2>2 DEF InNode
<1>4. ASSUME NEW c \in Clients, Report(c) PROVE AnsweredIsKept'
  <2>1. UNCHANGED <<up, mempool, chain, out>>
    BY <1>4 DEF Report, node
  <2>2. \A d \in Clients : pc'[d] \in {"answered", "printed"} =>
                             pc[d] \in {"answered", "printed"}
    BY <1>4 DEF Report, Becomes
  <2> QED BY <2>1, <2>2 DEF InNode
<1>5. ASSUME NEW c \in Clients, NEW k \in Keys, Get(c, k) \/ GetDenied(c, k)
      PROVE  AnsweredIsKept'
  <2>1. UNCHANGED <<up, mempool, chain>>
    BY <1>5 DEF Get, GetDenied, node
  <2>2. /\ pc'[c] \notin {"answered", "printed"}
        /\ \A d \in Clients \ {c} : pc'[d] = pc[d] /\ out'[d] = out[d]
    BY <1>5 DEF Get, GetDenied, Becomes
  <2> QED BY <2>1, <2>2 DEF InNode
<1>6. ASSUME UNCHANGED <<up, pc, out>>,
             \/ UNCHANGED <<mempool, chain>>
             \/ chain' = chain /\ \E t : mempool' = Append(mempool, t)
             \/ NextBlock
      PROVE  AnsweredIsKept'
  <2> SUFFICES ASSUME NEW c \in Clients, pc[c] \in {"answered", "printed"}, up
               PROVE  InNode(out[c])'
    BY <1>6
  <2>1. PICK tx : tx = out[c]
    OBVIOUS
  <2>2. InNode(tx)'
    BY <1>6, <2>1, NodeKeeps
  <2> QED BY <1>6, <2>1, <2>2
<1>7. ASSUME NEW raw \in Others, Receive(raw) PROVE AnsweredIsKept'
  BY <1>6, <1>7 DEF Receive
<1>8. CASE NextBlock
  BY <1>6, <1>8 DEF NextBlock
<1>9. CASE BlockPanics
  BY <1>9 DEF BlockPanics
<1>10. CASE Index \/ UNCHANGED vars
  BY <1>6, <1>10 DEF Index, vars
<1> QED BY <1>1, <1>2, <1>3, <1>4, <1>5, <1>7, <1>8, <1>9, <1>10 DEF Next

-----------------------------------------------------------------------------
(***************************************************************************)
(* What get prints.                                                        *)
(***************************************************************************)

(* Entries behind those of a key do not change what get finds first.        *)
LEMMA FirstStays ==
  ASSUME TypeOK, TypeOK', NEW k \in Keys, Found(k) # {}, indexed <= indexed',
         \A i \in 1..indexed : chain'[i] = chain[i],
         Found(k)' \subseteq Nat
  PROVE  Found(k)' # {} /\ (chain[First(Found(k))])' = chain[First(Found(k))]
<1> DEFINE n == First(Found(k))
<1>1. indexed \in Nat /\ indexed' \in Nat
  BY DEF TypeOK
<1>2. Found(k) \subseteq 1..indexed /\ Found(k) \subseteq Nat
  BY Matches
<1>3. n \in Found(k) /\ \A i \in Found(k) : n <= i
  BY <1>2, FirstIsLeast
<1>4. PICK m : m = n
  OBVIOUS
<1> HIDE DEF n
<1>5. m \in 1..indexed /\ m \in 1..indexed'
  BY <1>1, <1>2, <1>3, <1>4
<1>6. m \in Found(k)'
  BY <1>3, <1>4, <1>5 DEF Found
<1>7. ASSUME NEW i \in Found(k)' PROVE m <= i
  <2>1. i \in Nat /\ m \in Nat
    BY <1>5
  <2>2. CASE i <= indexed
    <3>1. i \in 1..indexed
      BY <1>1, <1>7, <2>1, <2>2 DEF Found
    <3>2. i \in Found(k)
      BY <1>7, <3>1 DEF Found
    <3> QED BY <1>3, <1>4, <3>2
  <2>3. CASE i > indexed
    BY <1>1, <1>5, <2>1, <2>3
  <2> QED BY <1>1, <2>1, <2>2, <2>3
<1>8. First(Found(k)') = m
  BY <1>6, <1>7, LeastIsFirst
<1> QED BY <1>4, <1>5, <1>6, <1>8 DEF n, First

LEMMA PrintedStep == ASSUME IInv, TypeOK', [Next]_vars PROVE PrintedIsFirst'
<1> USE DEF IInv, PrintedIsFirst
<1>1. \A k \in Keys : Found(k) \subseteq Nat /\ Found(k)' \subseteq Nat
  <2> SUFFICES ASSUME NEW k \in Keys PROVE Found(k) \subseteq Nat /\ Found(k)' \subseteq Nat
    OBVIOUS
  <2>1. indexed \in Nat /\ indexed' \in Nat
    BY DEF TypeOK
  <2> QED BY <2>1 DEF Found
<1>2. ASSUME UNCHANGED found, indexed <= indexed', \A i \in 1..indexed : chain'[i] = chain[i]
      PROVE  PrintedIsFirst'
  BY <1>1, <1>2, FirstStays
<1>3. indexed <= indexed' /\ \A i \in 1..indexed : chain'[i] = chain[i]
  <2>1. /\ indexed \in Nat /\ Len(chain) \in Nat /\ indexed <= Len(chain)
        /\ \A i \in 1..indexed : i \in 1..Len(chain)
    BY DEF TypeOK
  <2>2. CASE NextBlock
    <3>1. PICK entry : chain' = Append(chain, entry)
      BY <2>2 DEF NextBlock
    <3>2. \A i \in 1..Len(chain) : chain'[i] = chain[i]
      BY <3>1 DEF TypeOK
    <3> QED BY <2>1, <2>2, <3>2 DEF NextBlock
  <2>3. CASE Index
    BY <2>1, <2>3 DEF Index
  <2>4. CASE UNCHANGED <<chain, indexed>>
    BY <2>1, <2>4
  <2> QED
    BY <2>2, <2>3, <2>4
    DEF Next, Do, DoFails, Broadcast, BroadcastFails, Report, Get, GetDenied, Receive,
        BlockPanics, vars, node
<1>4. ASSUME NEW c \in Clients, NEW k \in Keys, Get(c, k) PROVE PrintedIsFirst'
  <2>1. UNCHANGED <<chain, indexed>> /\ Found(k) # {}
    BY <1>4 DEF Get, node
  <2>2. PICK first : first = chain[First(Found(k))].tx
    OBVIOUS
  <2>3. found' = [found EXCEPT ![k] = first] /\ found \in [Keys -> Transaction \cup {NoTx}]
    BY <1>4, <2>2 DEF Get, TypeOK
  <2>4. \A j \in Keys : Found(j)' = Found(j)
    BY <2>1 DEF Found
  <2> SUFFICES ASSUME NEW j \in Keys, found'[j] # NoTx
               PROVE  Found(j) # {} /\ found'[j] = chain[First(Found(j))].tx
    BY <2>1, <2>4
  <2>5. CASE j = k
    BY <2>1, <2>2, <2>3, <2>5
  <2>6. CASE j # k
    BY <2>3, <2>6
  <2> QED BY <2>5, <2>6
<1>5. ASSUME ~(\E c \in Clients, k \in Keys : Get(c, k)) PROVE UNCHANGED found
  BY <1>5
  DEF Next, Do, DoFails, Broadcast, BroadcastFails, Report, GetDenied, Receive,
      NextBlock, BlockPanics, Index, vars
<1> QED BY <1>2, <1>3, <1>4, <1>5

THEOREM Inductive == Spec => []IInv
<1>1. IInv /\ [Next]_vars => IInv'
  <2> SUFFICES ASSUME IInv, [Next]_vars PROVE IInv'
    OBVIOUS
  <2> QED BY TypeStep, SendersStep, AnsweredStep, PrintedStep DEF IInv
<1> QED BY InitIInv, <1>1, PTL DEF Spec

-----------------------------------------------------------------------------
(* Every variable keeps its type: the index is never ahead of the chain.    *)
THEOREM TypeCorrect == Spec => []TypeOK
<1>1. IInv => TypeOK
  BY DEF IInv
<1> QED BY Inductive, <1>1, PTL

(***************************************************************************)
(* A transaction that the client has printed is in the mempool or in a     *)
(* block of a node that runs, whatever else clients and other programs     *)
(* send and whatever requests and answers get lost.                        *)
(***************************************************************************)
THEOREM PrintedStays == Spec => []PrintedIsKept
<1>1. IInv => PrintedIsKept
  BY DEF IInv, AnsweredIsKept, InNode, PrintedIsKept
<1> QED BY Inductive, <1>1, PTL

(***************************************************************************)
(* The answer of get for a key never changes once there is one, and get    *)
(* never fails to find it again: entries come in behind those that the     *)
(* index has.                                                              *)
(***************************************************************************)
THEOREM GetRepeats == Spec => GetIsStable
<1> DEFINE Stable == \A k \in Keys :
                       found[k] # NoTx => found'[k] = found[k] /\ Found(k)' # {}
<1>1. IInv /\ IInv' /\ [Next]_vars => [Stable]_vars
  <2> SUFFICES ASSUME IInv, IInv', [Next]_vars, NEW k \in Keys, found[k] # NoTx
               PROVE  found'[k] = found[k] /\ Found(k)' # {}
    OBVIOUS
  <2> SUFFICES found'[k] = found[k]
    BY DEF IInv, PrintedIsFirst
  <2>1. Found(k) # {} /\ found[k] = chain[First(Found(k))].tx
    BY DEF IInv, PrintedIsFirst
  <2>2. CASE \E c \in Clients, j \in Keys : Get(c, j)
    <3>1. PICK j \in Keys : found' = [found EXCEPT ![j] = chain[First(Found(j))].tx]
      BY <2>2 DEF Get
    <3> QED BY <2>1, <3>1 DEF IInv, TypeOK
  <2>3. CASE ~(\E c \in Clients, j \in Keys : Get(c, j))
    BY <2>3
    DEF Next, Do, DoFails, Broadcast, BroadcastFails, Report, GetDenied, Receive,
        NextBlock, BlockPanics, Index, vars
  <2> QED BY <2>2, <2>3
<1>2. GetIsStable <=> [][Stable]_vars
  BY DEF GetIsStable
<1> QED BY Inductive, <1>1, <1>2, PTL DEF Spec
=============================================================================
