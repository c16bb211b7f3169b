------------------------ MODULE NarwhalEngine_proofs ------------------------
(***************************************************************************)
(* Proofs about the Narwhal engine, for any nodes, clients, payloads and   *)
(* channel capacity, with and without failing calls.                       *)
(*                                                                         *)
(* That a query sees whole blocks needs more than what it says of the step *)
(* "query": the same has to hold wherever the engine can take a query.     *)
(* That an application executes what is ordered needs the place of every   *)
(* engine in the calls of the ordered certificates (Follows), and lemmas   *)
(* about FlattenSeq, which is recursive, by induction on lengths.          *)
(***************************************************************************)
EXTENDS NarwhalEngine, SequenceTheorems, FiniteSetTheorems, TLAPS

(***************************************************************************)
(* Types are not inductive alone: that the payload of the certificate in   *)
(* hand is a payload needs that a certificate is in hand.                  *)
(***************************************************************************)
InHand(n) ==
  /\ taken[n] <= received[n]
  /\ received[n] <= Len(ordered)
  /\ pc[n] \notin {"select", "query"} => taken[n] > 0

Typed == TypeOK /\ \A n \in Nodes : InHand(n)

(* What a failing call may have been is a call.                             *)
LEMMA PendingType ==
  ASSUME TypeOK, NEW n \in Nodes
  PROVE  Pending(n) \in Seq(Calls)
<1>1. /\ BeginBlock(height[n]) \in Calls /\ EndBlock(height[n]) \in Calls
      /\ Commit \in Calls
  BY DEF Calls, BeginBlock, EndBlock, TypeOK
<1>2. /\ <<BeginBlock(height[n])>> \in Seq(Calls) /\ <<EndBlock(height[n])>> \in Seq(Calls)
      /\ <<Commit>> \in Seq(Calls) /\ << >> \in Seq(Calls)
  BY <1>1
<1>3. ASSUME Usable(n), Head(batches[n])[2] # << >>
      PROVE  <<DeliverTx(Head(batches[n])[2][1])>> \in Seq(Calls)
  <2>1. batches[n] \in Seq(Reads) /\ batches[n] # << >>
    BY <1>3 DEF Usable, TypeOK
  <2>2. Head(batches[n]) \in Reads
    BY <2>1
  <2>3. Head(batches[n])[2] \in Seq(Txs) /\ Head(batches[n])[2] # << >>
    BY <1>3, <2>2 DEF Usable, Reads, Batches
  <2>4. Head(batches[n])[2][1] \in Txs
    BY <2>3
  <2>5. DeliverTx(Head(batches[n])[2][1]) \in Calls
    BY <2>4 DEF Calls
  <2> QED BY <2>5
<1>4. CASE pc[n] = "begin"
  BY <1>2, <1>4 DEF Pending
<1>5. CASE pc[n] = "deliver"
  BY <1>2, <1>3, <1>5 DEF Pending
<1>6. CASE pc[n] = "end"
  BY <1>2, <1>6 DEF Pending
<1>7. CASE pc[n] = "commit"
  BY <1>2, <1>7 DEF Pending
<1>8. CASE pc[n] \notin {"begin", "deliver", "end", "commit"}
  BY <1>2, <1>8 DEF Pending
<1> QED BY <1>4, <1>5, <1>6, <1>7, <1>8

LEMMA HandledType ==
  ASSUME TypeOK, NEW n \in Nodes, NEW call \in Calls, Handled(n, call)
  PROVE  calls' \in [Nodes -> Seq(Calls)]
<1>1. Append(calls[n], call) \in Seq(Calls)
  BY DEF TypeOK
<1> QED BY <1>1 DEF Handled, TypeOK

LEMMA InitTyped == Init => Typed
<1> SUFFICES ASSUME Init PROVE Typed
  OBVIOUS
<1>1. \A n \in Nodes : queries[n] \in Seq(Clients) /\ Len(queries[n]) = 0
  BY DEF Init
<1>2. \A n \in Nodes : received[n] - taken[n] = 0 /\ 0 \in 0..Capacity
  BY EngineAssumption DEF Init
<1>3. \A n \in Nodes : InHand(n)
  BY DEF Init, InHand
<1> QED BY <1>1, <1>2, <1>3, EngineAssumption DEF Init, TypeOK, Typed, Steps, ClientSteps

(***************************************************************************)
(* One lemma for each actor.                                               *)
(***************************************************************************)
LEMMA EnvironmentTyped ==
  ASSUME Typed, NEW n \in Nodes, Output(n) \/ Synchronized(n)
  PROVE  Typed'
<1> USE DEF Typed, TypeOK, api
<1>1. CASE Output(n)
  <2>1. /\ ordered' \in Seq(Payloads) /\ Len(ordered') \in Nat
        /\ Len(ordered) <= Len(ordered') /\ received[n] < Len(ordered')
    <3>1. received[n] <= Len(ordered) /\ received[n] \in Nat /\ Len(ordered) \in Nat
      BY DEF InHand
    <3>2. CASE received[n] < Len(ordered) /\ UNCHANGED ordered
      BY <3>1, <3>2
    <3>3. CASE \E p \in Payloads : ordered' = Append(ordered, p)
      BY <3>1, <3>3
    <3> QED BY <1>1, <3>2, <3>3 DEF Output
  <2>2. received' = [received EXCEPT ![n] = @ + 1] /\ received' \in [Nodes -> Nat]
    BY <1>1 DEF Output
  <2>3. taken' = taken /\ pc' = pc /\ queries' = queries
    BY <1>1 DEF Output
  <2>4. \A m \in Nodes : received'[m] - taken'[m] \in 0..Capacity
    <3>1. received[n] - taken[n] < Capacity
      BY <1>1 DEF Output
    <3> QED BY <2>2, <2>3, <3>1, EngineAssumption
  <2>5. \A m \in Nodes : InHand(m)'
    <3> SUFFICES ASSUME NEW m \in Nodes PROVE InHand(m)'
      OBVIOUS
    <3>1. InHand(m) /\ received[m] \in Nat /\ taken[m] \in Nat /\ Len(ordered) \in Nat
      OBVIOUS
    <3>2. received'[m] \in Nat /\ taken[m] <= received'[m]
      BY <2>2, <3>1 DEF InHand
    <3>3. received'[m] <= Len(ordered')
      <4>1. CASE m = n
        BY <2>1, <2>2, <3>1, <4>1
      <4>2. CASE m # n
        BY <2>1, <2>2, <3>1, <4>2 DEF InHand
      <4> QED BY <4>1, <4>2
    <3> QED BY <2>3, <3>1, <3>2, <3>3 DEF InHand
  <2> QED BY <1>1, <2>1, <2>2, <2>3, <2>4, <2>5 DEF Output
<1>2. CASE Synchronized(n)
  <2>1. PICK b \in Named : store' = [store EXCEPT ![n] = @ \cup {b}]
    BY <1>2 DEF Synchronized
  <2>2. b \in Batches
    <3>1. PICK k \in DOMAIN ordered : b \in ToSet(ordered[k])
      BY <2>1 DEF Named
    <3>2. ordered[k] \in Seq(Batches)
      BY <3>1, EngineAssumption
    <3> QED BY <3>1, <3>2 DEF ToSet
  <2>3. store' \in [Nodes -> SUBSET Batches]
    BY <2>1, <2>2
  <2> QED BY <1>2, <2>3 DEF Synchronized, InHand
<1> QED BY <1>1, <1>2

LEMMA ClientTyped ==
  ASSUME Typed, NEW c \in Clients, Ask(c) \/ Send(c) \/ HangUp(c)
  PROVE  Typed'
<1> USE DEF Typed, TypeOK, InHand, environment, Set, ClientSteps
<1>1. CASE Send(c)
  <2> DEFINE n == NodeOf[c]
  <2>1. n \in Nodes
    BY EngineAssumption
  <2>2. Append(queries[n], c) \in Seq(Clients) /\ Len(Append(queries[n], c)) <= Capacity
    <3>1. queries[n] \in Seq(Clients) /\ Len(queries[n]) \in Nat /\ Len(queries[n]) < Capacity
      BY <1>1, <2>1 DEF Send
    <3>2. Len(Append(queries[n], c)) = Len(queries[n]) + 1
      BY <3>1
    <3> QED BY <3>1, <3>2, EngineAssumption
  <2>3. \A m \in Nodes : Len(queries'[m]) <= Capacity
    BY <1>1, <2>1, <2>2 DEF Send
  <2>4. queries' \in [Nodes -> Seq(Clients)]
    BY <1>1, <2>1, <2>2 DEF Send
  <2> QED BY <1>1, <2>3, <2>4 DEF Send
<1>2. CASE Ask(c) \/ HangUp(c)
  BY <1>2 DEF Ask, HangUp
<1> QED BY <1>1, <1>2

LEMMA StartTyped ==
  ASSUME Typed, NEW n \in Nodes, Start(n) \/ StartWithoutInfo(n) \/ StartFails(n)
  PROVE  Typed'
<1> USE DEF Typed, TypeOK
<1>1. /\ height' = height \/ \E h \in Nat : height' = [height EXCEPT ![n] = h]
      /\ \E v \in {"running", "ended"} : status' = [status EXCEPT ![n] = v]
  BY EngineAssumption DEF Start, StartWithoutInfo, StartFails, Set
<1>2. UNCHANGED <<ordered, received, store, taken, pc, batches, calls, queries, asker, client>>
  BY DEF Start, StartWithoutInfo, StartFails, environment, api
<1>3. height' \in [Nodes -> Nat]
  BY <1>1
<1>4. status' \in [Nodes -> {"new", "running", "ended"}]
  BY <1>1
<1> QED BY <1>2, <1>3, <1>4 DEF InHand

LEMMA TakeTyped ==
  ASSUME Typed, NEW n \in Nodes, TakeCertificate(n) \/ TakeQuery(n)
  PROVE  Typed'
<1> USE DEF Typed, TypeOK
<1>1. CASE TakeCertificate(n)
  <2>1. /\ height' = [height EXCEPT ![n] = @ + 1] /\ taken' = [taken EXCEPT ![n] = @ + 1]
        /\ pc' = [pc EXCEPT ![n] = "begin"] /\ taken[n] < received[n]
        /\ UNCHANGED <<ordered, received, store, status, batches, calls, queries, asker, client>>
    BY <1>1 DEF TakeCertificate, Set, environment, api
  <2>2. \A m \in Nodes : received'[m] - taken'[m] \in 0..Capacity
    BY <2>1, EngineAssumption
  <2>3. \A m \in Nodes : InHand(m)'
    BY <2>1 DEF InHand
  <2>4. /\ height' \in [Nodes -> Nat] /\ taken' \in [Nodes -> Nat]
        /\ pc' \in [Nodes -> Steps]
    BY <2>1 DEF Steps
  <2> QED BY <2>1, <2>2, <2>3, <2>4
<1>2. CASE TakeQuery(n)
  <2> DEFINE q == queries[n]
  <2>1. /\ q # << >> /\ pc' = [pc EXCEPT ![n] = "query"]
        /\ asker' = [asker EXCEPT ![n] = Head(q)]
        /\ queries' = [queries EXCEPT ![n] = Tail(q)]
        /\ UNCHANGED <<ordered, received, store, status, height, taken, batches,
                       calls, client>>
    BY <1>2 DEF TakeQuery, Set, environment
  <2>2. pc' \in [Nodes -> Steps] /\ \A m \in Nodes : InHand(m)'
    BY <2>1 DEF Steps, InHand
  <2>3. /\ Head(q) \in Clients /\ Tail(q) \in Seq(Clients)
        /\ Len(Tail(q)) = Len(q) - 1 /\ Len(q) \in Nat /\ Len(q) <= Capacity
    BY <2>1
  <2>4. Len(Tail(q)) <= Capacity
    BY <2>3, EngineAssumption
  <2>5. ASSUME NEW m \in Nodes
        PROVE  queries'[m] \in Seq(Clients) /\ Len(queries'[m]) <= Capacity
    BY <2>1, <2>3, <2>4
  <2>6. /\ asker' \in [Nodes -> Clients \cup {NoClient}]
        /\ queries' \in [Nodes -> Seq(Clients)]
    BY <2>1, <2>3
  <2> QED BY <2>1, <2>2, <2>5, <2>6
<1> QED BY <1>1, <1>2

(***************************************************************************)
(* What the actions of Run and a failing call have in common.              *)
(***************************************************************************)
LEMMA FrameTyped ==
  ASSUME Typed, NEW n \in Nodes,
         UNCHANGED <<ordered, received, store, height, taken, queries, asker>>,
         \/ pc' = pc
         \/ \E s \in Steps : /\ pc' = [pc EXCEPT ![n] = s]
                             /\ s \in {"select", "query"} \/ taken[n] > 0,
         status' = status \/ status' = [status EXCEPT ![n] = "ended"],
         batches' \in [Nodes -> Seq(Reads)],
         calls' \in [Nodes -> Seq(Calls)],
         client' \in [Clients -> ClientSteps]
  PROVE  Typed'
<1>0. /\ pc \in [Nodes -> Steps]
      /\ status \in [Nodes -> {"new", "running", "ended"}]
  BY DEF Typed, TypeOK
<1>1. pc' \in [Nodes -> Steps] /\ status' \in [Nodes -> {"new", "running", "ended"}]
  <2>1. pc' \in [Nodes -> Steps]
    BY <1>0
  <2>2. status' \in [Nodes -> {"new", "running", "ended"}]
    BY <1>0
  <2> QED BY <2>1, <2>2
<1>2. ASSUME NEW m \in Nodes PROVE InHand(m)'
  <2>1. InHand(m)
    BY DEF Typed
  <2>2. pc'[m] \notin {"select", "query"} => taken[m] > 0
    BY <2>1 DEF Typed, TypeOK, InHand
  <2> QED BY <2>1, <2>2 DEF InHand
<1> QED BY <1>1, <1>2 DEF Typed, TypeOK

LEMMA RunTyped ==
  ASSUME Typed, NEW n \in Nodes, Run(n) \/ CallFails(n)
  PROVE  Typed'
<1>0. TypeOK /\ InHand(n) /\ taken[n] \in Nat
  BY DEF Typed, TypeOK
<1> USE DEF Set, environment, api, Steps
<1>1. CASE CallBegin(n) \/ CallEnd(n) \/ CallCommit(n)
  <2>1. BeginBlock(height[n]) \in Calls /\ EndBlock(height[n]) \in Calls /\ Commit \in Calls
    BY <1>0 DEF Calls, BeginBlock, EndBlock, TypeOK
  <2>2. calls' \in [Nodes -> Seq(Calls)]
    BY <1>0, <1>1, <2>1, HandledType DEF CallBegin, CallEnd, CallCommit
  <2>3. taken[n] > 0
    BY <1>0, <1>1 DEF CallBegin, CallEnd, CallCommit, At, InHand
  <2>4. \E s \in Steps : pc' = [pc EXCEPT ![n] = s]
    BY <1>1 DEF CallBegin, CallEnd, CallCommit
  <2>5. UNCHANGED <<ordered, received, store, status, height, taken, batches, queries, asker, client>>
    BY <1>1 DEF CallBegin, CallEnd, CallCommit
  <2> QED BY <1>0, <2>2, <2>3, <2>4, <2>5, FrameTyped DEF TypeOK
<1>2. CASE Reconstruct(n)
  <2> DEFINE payload == ordered[taken[n]]
             reads == [i \in DOMAIN payload |-> Lookup(n, payload[i])]
  <2>1. taken[n] > 0 /\ taken[n] \in 1..Len(ordered)
    BY <1>0, <1>2 DEF Reconstruct, At, InHand, TypeOK
  <2>2. payload \in Seq(Batches)
    BY <1>0, <2>1, EngineAssumption DEF TypeOK
  <2>3. reads \in Seq(Reads)
    <3>1. \A i \in 1..Len(payload) : Lookup(n, payload[i]) \in Reads
      BY <2>2 DEF Lookup, Reads
    <3> QED BY <2>2, <3>1
  <2>4. batches' \in [Nodes -> Seq(Reads)]
    BY <1>0, <1>2, <2>3 DEF Reconstruct, TypeOK
  <2>5. /\ pc' = [pc EXCEPT ![n] = "deliver"]
        /\ UNCHANGED <<ordered, received, store, status, height, taken, calls, queries, asker, client>>
    BY <1>2 DEF Reconstruct
  <2> QED BY <1>0, <2>1, <2>4, <2>5, FrameTyped DEF TypeOK
<1>3. CASE CallDeliver(n)
  <2> DEFINE head == Head(batches[n])
             batch == head[2]
  <2>1. batches[n] \in Seq(Reads) /\ batches[n] # << >> /\ Usable(n)
    BY <1>0, <1>3 DEF CallDeliver, Usable, TypeOK
  <2>2. head \in Reads
    BY <2>1
  <2>3. batch \in Seq(Txs)
    BY <2>1, <2>2 DEF Usable, Reads, Batches
  <2>4. UNCHANGED <<ordered, received, store, status, height, taken, pc, queries, asker, client>>
    BY <1>3 DEF CallDeliver
  <2>5. CASE batch = << >>
    <3>1. Tail(batches[n]) \in Seq(Reads)
      BY <2>1
    <3>2. batches' = [batches EXCEPT ![n] = Tail(@)] /\ UNCHANGED calls
      BY <1>3, <2>5 DEF CallDeliver
    <3>3. batches' \in [Nodes -> Seq(Reads)]
      BY <1>0, <3>1, <3>2 DEF TypeOK
    <3> QED BY <1>0, <2>4, <3>2, <3>3, FrameTyped DEF TypeOK
  <2>6. CASE batch # << >>
    <3>1. Head(batch) \in Txs /\ Tail(batch) \in Seq(Txs)
      BY <2>3, <2>6
    <3>2. DeliverTx(Head(batch)) \in Calls
      BY <3>1 DEF Calls
    <3>3. calls' \in [Nodes -> Seq(Calls)]
      BY <1>0, <1>3, <2>6, <3>2, HandledType DEF CallDeliver
    <3>4. <<"ok", Tail(batch)>> \in Reads
      BY <3>1 DEF Reads, Batches
    <3>5. batches' = [batches EXCEPT ![n] = [batches[n] EXCEPT ![1] = <<"ok", Tail(batch)>>]]
      BY <1>0, <1>3, <2>6 DEF CallDeliver, TypeOK
    <3>6. [batches[n] EXCEPT ![1] = <<"ok", Tail(batch)>>] \in Seq(Reads)
      BY <2>1, <3>4
    <3>7. batches' \in [Nodes -> Seq(Reads)]
      BY <1>0, <3>5, <3>6 DEF TypeOK
    <3> QED BY <1>0, <2>4, <3>3, <3>7, FrameTyped DEF TypeOK
  <2> QED BY <2>5, <2>6
<1>4. CASE DeliverFails(n)
  <2>1. /\ status' = [status EXCEPT ![n] = "ended"]
        /\ UNCHANGED <<ordered, received, store, height, taken, pc, batches, calls,
                       queries, asker, client>>
    BY <1>4 DEF DeliverFails
  <2> QED BY <1>0, <2>1, FrameTyped DEF TypeOK
<1>5. CASE Delivered(n)
  <2>1. /\ pc' = [pc EXCEPT ![n] = "end"]
        /\ UNCHANGED <<ordered, received, store, status, height, taken, batches, calls,
                       queries, asker, client>>
    BY <1>5 DEF Delivered
  <2>2. taken[n] > 0
    BY <1>0, <1>5 DEF Delivered, At, InHand
  <2> QED BY <1>0, <2>1, <2>2, FrameTyped DEF TypeOK
<1>6. CASE AnswerQuery(n) \/ NobodyWaits(n)
  <2>1. /\ status' = status \/ status' = [status EXCEPT ![n] = "ended"]
        /\ pc' = pc \/ pc' = [pc EXCEPT ![n] = "select"]
        /\ UNCHANGED <<ordered, received, store, height, taken, batches, calls,
                       queries, asker>>
    BY <1>6 DEF AnswerQuery, NobodyWaits
  <2>2. client' \in [Clients -> ClientSteps]
    <3>1. client' = client \/ client' = [client EXCEPT ![asker[n]] = "answered"]
      BY <1>6 DEF AnswerQuery, NobodyWaits
    <3> QED BY <1>0, <3>1 DEF TypeOK, ClientSteps
  <2> QED BY <1>0, <2>1, <2>2, FrameTyped DEF TypeOK
<1>7. CASE CallFails(n)
  <2>1. calls[n] \o Pending(n) \in Seq(Calls)
    BY <1>0, PendingType DEF TypeOK
  <2>2. calls' \in [Nodes -> Seq(Calls)]
    BY <1>0, <1>7, <2>1 DEF CallFails, TypeOK
  <2>3. /\ status' = [status EXCEPT ![n] = "ended"]
        /\ UNCHANGED <<ordered, received, store, height, taken, pc, batches, queries, asker, client>>
    BY <1>7 DEF CallFails
  <2> QED BY <1>0, <2>2, <2>3, FrameTyped DEF TypeOK
<1> QED BY <1>1, <1>2, <1>3, <1>4, <1>5, <1>6, <1>7 DEF Run

(* Typed holds of every reachable state.                                    *)
THEOREM Inductive == Spec => []Typed
<1>1. Typed /\ [Next]_vars => Typed'
  <2> SUFFICES ASSUME Typed, [Next]_vars PROVE Typed'
    OBVIOUS
  <2>1. CASE UNCHANGED vars
    BY <2>1 DEF vars, Typed, TypeOK, InHand
  <2> QED BY <2>1, EnvironmentTyped, ClientTyped, StartTyped, TakeTyped, RunTyped DEF Next
<1> QED BY InitTyped, <1>1, PTL DEF Spec

(***************************************************************************)
(* Every variable keeps its type, and neither channel overflows.           *)
(***************************************************************************)
THEOREM TypeCorrect == Spec => []TypeOK
<1>1. Typed => TypeOK
  BY DEF Typed
<1> QED BY Inductive, <1>1, PTL

-----------------------------------------------------------------------------
(* Where the engine can take a query, no block is half done.                *)
Whole(n) == calls[n] = << >> \/ Last(calls[n]) = Commit

BetweenBlocks(n) ==
  status[n] # "ended" /\ pc[n] \in {"select", "query"} => Whole(n)

LEMMA NextBetweenBlocks ==
  ASSUME TypeOK, \A n \in Nodes : BetweenBlocks(n), Next
  PROVE  \A n \in Nodes : BetweenBlocks(n)'
<1> USE DEF TypeOK, environment, api, Set, At
<1>0. ASSUME UNCHANGED <<status, pc, calls>> PROVE \A n \in Nodes : BetweenBlocks(n)'
  BY <1>0 DEF BetweenBlocks, Whole
<1>1. ASSUME NEW m \in Nodes, NEW n \in Nodes, n # m,
             status'[n] = status[n], pc'[n] = pc[n], calls'[n] = calls[n]
      PROVE  BetweenBlocks(n)'
  BY <1>1 DEF BetweenBlocks, Whole
<1>2. ASSUME NEW m \in Nodes, Output(m) \/ Synchronized(m)
      PROVE  \A n \in Nodes : BetweenBlocks(n)'
  BY <1>0, <1>2 DEF Output, Synchronized
<1>3. ASSUME NEW c \in Clients, Ask(c) \/ Send(c) \/ HangUp(c)
      PROVE  \A n \in Nodes : BetweenBlocks(n)'
  BY <1>0, <1>3 DEF Ask, Send, HangUp
<1>4. ASSUME NEW m \in Nodes, Start(m) \/ StartWithoutInfo(m) \/ StartFails(m)
      PROVE  \A n \in Nodes : BetweenBlocks(n)'
  <2>1. UNCHANGED <<pc, calls>> /\ status[m] = "new"
    BY <1>4 DEF Start, StartWithoutInfo, StartFails
  <2>2. \A n \in Nodes : n # m => status'[n] = status[n]
    BY <1>4 DEF Start, StartWithoutInfo, StartFails
  <2> QED BY <2>1, <2>2 DEF BetweenBlocks, Whole
<1>5. ASSUME NEW m \in Nodes, TakeCertificate(m) \/ TakeQuery(m)
      PROVE  \A n \in Nodes : BetweenBlocks(n)'
  BY <1>5 DEF TakeCertificate, TakeQuery, BetweenBlocks, Whole
<1>6. ASSUME NEW m \in Nodes, CallBegin(m) \/ CallEnd(m)
      PROVE  \A n \in Nodes : BetweenBlocks(n)'
  BY <1>6 DEF CallBegin, CallEnd, Handled, BetweenBlocks, Whole
<1>7. ASSUME NEW m \in Nodes, CallCommit(m)
      PROVE  \A n \in Nodes : BetweenBlocks(n)'
  <2>1. calls[m] \in Seq(Calls) /\ calls' = [calls EXCEPT ![m] = Append(@, Commit)]
    BY <1>7 DEF CallCommit, Handled
  <2>2. Last(calls'[m]) = Commit
    BY <2>1 DEF Last
  <2>3. \A n \in Nodes : n # m => /\ status'[n] = status[n]
                                  /\ pc'[n] = pc[n] /\ calls'[n] = calls[n]
    BY <1>7, <2>1 DEF CallCommit
  <2>4. BetweenBlocks(m)'
    BY <2>2 DEF BetweenBlocks, Whole
  <2> QED BY <1>1, <2>3, <2>4
<1>8. ASSUME NEW m \in Nodes, Reconstruct(m) \/ CallDeliver(m) \/ Delivered(m)
      PROVE  \A n \in Nodes : BetweenBlocks(n)'
  <2>1. pc'[m] \notin {"select", "query"}
    BY <1>8 DEF Reconstruct, CallDeliver, Delivered
  <2>2. \A n \in Nodes : n # m => /\ status'[n] = status[n]
                                  /\ pc'[n] = pc[n] /\ calls'[n] = calls[n]
    BY <1>8 DEF Reconstruct, CallDeliver, Delivered, Handled
  <2> QED BY <1>1, <2>1, <2>2 DEF BetweenBlocks
<1>9. ASSUME NEW m \in Nodes, DeliverFails(m) \/ NobodyWaits(m) \/ CallFails(m)
      PROVE  \A n \in Nodes : BetweenBlocks(n)'
  <2>1. status'[m] = "ended"
    BY <1>9 DEF DeliverFails, NobodyWaits, CallFails
  <2>2. \A n \in Nodes : n # m => /\ status'[n] = status[n]
                                  /\ pc'[n] = pc[n] /\ calls'[n] = calls[n]
    BY <1>9 DEF DeliverFails, NobodyWaits, CallFails
  <2> QED BY <1>1, <2>1, <2>2 DEF BetweenBlocks
<1>10. ASSUME NEW m \in Nodes, AnswerQuery(m)
       PROVE  \A n \in Nodes : BetweenBlocks(n)'
  BY <1>10 DEF AnswerQuery, BetweenBlocks, Whole
<1> QED BY <1>2, <1>3, <1>4, <1>5, <1>6, <1>7, <1>8, <1>9, <1>10 DEF Next, Run

(***************************************************************************)
(* No query is passed to an application while a block is half done.        *)
(***************************************************************************)
THEOREM QueriesAfterCommits == Spec => []QueriesSeeWholeBlocks
<1> DEFINE Between == \A n \in Nodes : BetweenBlocks(n)
<1>1. Init => Between
  BY DEF Init, BetweenBlocks, Whole
<1>2. Typed /\ Between /\ [Next]_vars => Between'
  <2> SUFFICES ASSUME Typed, Between, [Next]_vars PROVE Between'
    OBVIOUS
  <2>1. CASE UNCHANGED vars
    BY <2>1 DEF vars, BetweenBlocks, Whole
  <2> QED BY <2>1, NextBetweenBlocks DEF Typed
<1>3. Between => QueriesSeeWholeBlocks
  BY DEF BetweenBlocks, Whole, QueriesSeeWholeBlocks, At
<1> QED BY Inductive, <1>1, <1>2, <1>3, PTL DEF Spec

-----------------------------------------------------------------------------
(***************************************************************************)
(* Induction over the naturals.  The induction theorems of the library     *)
(* are about operators; here they are sets, and the principle comes from   *)
(* the finite sets 1..n, which are well-founded by inclusion.              *)
(***************************************************************************)

(* A set of naturals that has a member has a least one.                     *)
LEMMA LeastNatural ==
  ASSUME NEW S, S \subseteq Nat, S # {}
  PROVE  \E x \in S : \A y \in S : x <= y
<1> DEFINE T == {1..n : n \in S}
<1>1. T \subseteq FiniteSubsetsOf(Nat)
  <2>1. \A n \in S : 1..n \in SUBSET Nat /\ IsFiniteSet(1..n)
    BY FS_Interval
  <2> QED BY <2>1 DEF FiniteSubsetsOf
<1>2. \E A \in T : \A B \in T : <<B, A>> \notin StrictSubsetOrdering(Nat)
  <2>1. T # {}
    OBVIOUS
  <2>2. IsWellFoundedOn(StrictSubsetOrdering(Nat), FiniteSubsetsOf(Nat))
    BY FS_StrictSubsetOrderingWellFounded
  <2> HIDE DEF T
  <2> QED BY <1>1, <2>1, <2>2, WFMin
<1>3. PICK x \in S : \A y \in S : <<1..y, 1..x>> \notin StrictSubsetOrdering(Nat)
  BY <1>2
<1>4. ASSUME NEW y \in S, ~(x <= y) PROVE FALSE
  <2>1. 1..y \subseteq 1..x /\ 1..y # 1..x
    BY <1>4
  <2>2. 1..y \in SUBSET Nat /\ 1..x \in SUBSET Nat
    BY <1>4
  <2> QED BY <1>3, <1>4, <2>1, <2>2 DEF StrictSubsetOrdering
<1> QED BY <1>4

LEMMA Induction ==
  ASSUME NEW S, 0 \in S, \A n \in Nat : n \in S => n + 1 \in S
  PROVE  Nat \subseteq S
<1> SUFFICES ASSUME Nat \ S # {} PROVE FALSE
  OBVIOUS
<1>1. PICK x \in Nat \ S : \A y \in Nat \ S : x <= y
  BY LeastNatural
<1>2. x # 0 /\ x - 1 \in Nat
  BY <1>1
<1>3. x - 1 \in S
  BY <1>1, <1>2
<1> QED BY <1>1, <1>2, <1>3

(* FlattenSeq by its recursion.  The function that it defines exists, by     *)
(* induction on the length.                                                 *)
Flattens(f, s, n) ==
  f = [i \in 1..n |-> IF i = 1 THEN s[i] ELSE f[i - 1] \o s[i]]

LEMMA FlattenMore ==
  ASSUME NEW s, NEW n \in Nat, NEW f, Flattens(f, s, n)
  PROVE  \E g : Flattens(g, s, n + 1)
<1> DEFINE g == [i \in 1..n + 1 |-> IF i = n + 1
                                      THEN IF i = 1 THEN s[i] ELSE f[n] \o s[i]
                                      ELSE f[i]]
<1>1. ASSUME NEW i \in 1..n + 1
      PROVE  g[i] = IF i = 1 THEN s[i] ELSE g[i - 1] \o s[i]
  <2>1. CASE i = n + 1 /\ i # 1
    <3>1. n \in 1..n + 1 /\ n # n + 1 /\ i - 1 = n
      BY <2>1
    <3> QED BY <2>1, <3>1
  <2>2. CASE i # n + 1
    <3>1. i \in 1..n /\ g[i] = f[i]
      BY <2>2
    <3>2. f[i] = IF i = 1 THEN s[i] ELSE f[i - 1] \o s[i]
      BY <3>1 DEF Flattens
    <3>3. CASE i # 1
      <4>1. i - 1 \in 1..n + 1 /\ i - 1 # n + 1
        BY <3>1, <3>3
      <4>2. g[i - 1] = f[i - 1]
        BY <4>1
      <4> QED BY <3>1, <3>2, <3>3, <4>2
    <3> QED BY <3>1, <3>2, <3>3
  <2> QED BY <2>1, <2>2
<1>2. Flattens(g, s, n + 1)
  <2>1. g = [i \in 1..n + 1 |-> g[i]]
    OBVIOUS
  <2> HIDE DEF g
  <2> QED BY <1>1, <2>1 DEF Flattens
<1> HIDE DEF g
<1> QED BY <1>2

LEMMA FlattenDefined ==
  ASSUME NEW s, NEW n \in Nat
  PROVE  \E f : Flattens(f, s, n)
<1> DEFINE S == {k \in Nat : \E f : Flattens(f, s, k)}
<1>1. 0 \in S
  <2>1. Flattens([i \in 1..0 |-> 0], s, 0)
    BY DEF Flattens
  <2> QED BY <2>1
<1>2. \A k \in Nat : k \in S => k + 1 \in S
  BY FlattenMore
<1> HIDE DEF S
<1>3. n \in S
  BY <1>1, <1>2, Induction
<1> QED BY <1>3 DEF S

LEMMA Flattened ==
  ASSUME NEW s, Len(s) \in Nat, Len(s) # 0
  PROVE  \E f : Flattens(f, s, Len(s)) /\ FlattenSeq(s) = f[Len(s)]
<1> DEFINE f == CHOOSE f : f = [i \in 1..Len(s) |-> IF i = 1 THEN s[i] ELSE f[i - 1] \o s[i]]
<1>1. FlattenSeq(s) = f[Len(s)]
  BY DEF FlattenSeq
<1>2. \E h : h = [i \in 1..Len(s) |-> IF i = 1 THEN s[i] ELSE h[i - 1] \o s[i]]
  BY FlattenDefined DEF Flattens
<1>3. f = [i \in 1..Len(s) |-> IF i = 1 THEN s[i] ELSE f[i - 1] \o s[i]]
  BY <1>2
<1> HIDE DEF f
<1> QED BY <1>1, <1>3 DEF Flattens

(* Two functions that flatten sequences with a common beginning agree on it.*)
LEMMA FlattenUnique ==
  ASSUME NEW s, NEW t, NEW n \in Nat, NEW f, NEW g,
         \A i \in 1..n : s[i] = t[i], Flattens(f, s, n), Flattens(g, t, n + 1)
  PROVE  \A i \in 1..n : f[i] = g[i]
<1> DEFINE S == {k \in Nat : k \in 1..n => f[k] = g[k]}
<1>1. 0 \in S
  OBVIOUS
<1>2. ASSUME NEW k \in Nat, k \in S PROVE k + 1 \in S
  <2> SUFFICES ASSUME k + 1 \in 1..n PROVE f[k + 1] = g[k + 1]
    OBVIOUS
  <2>1. k + 1 \in 1..n + 1 /\ s[k + 1] = t[k + 1] /\ (k + 1) - 1 = k
    OBVIOUS
  <2>2. f[k + 1] = IF k + 1 = 1 THEN s[k + 1] ELSE f[k] \o s[k + 1]
    BY <2>1, ZenonT(40) DEF Flattens
  <2>3. g[k + 1] = IF k + 1 = 1 THEN t[k + 1] ELSE g[k] \o t[k + 1]
    BY <2>1 DEF Flattens
  <2>4. CASE k # 0
    <3>1. k \in 1..n /\ k + 1 # 1
      BY <2>4
    <3> QED BY <1>2, <2>1, <2>2, <2>3, <3>1
  <2> QED BY <2>1, <2>2, <2>3, <2>4
<1> HIDE DEF S
<1>3. Nat \subseteq S
  BY <1>1, <1>2, Induction
<1> QED BY <1>3 DEF S

LEMMA FlattenEmpty == FlattenSeq(<< >>) = << >>
BY DEF FlattenSeq

LEMMA FlattenType ==
  ASSUME NEW E, NEW s \in Seq(Seq(E))
  PROVE  FlattenSeq(s) \in Seq(E)
<1>1. CASE s = << >>
  BY <1>1, FlattenEmpty, EmptySeq
<1>2. CASE s # << >>
  <2>1. Len(s) \in Nat /\ Len(s) # 0
    BY <1>2
  <2>2. PICK f : Flattens(f, s, Len(s)) /\ FlattenSeq(s) = f[Len(s)]
    BY <2>1, Flattened
  <2> DEFINE S == {k \in Nat : k \in 1..Len(s) => f[k] \in Seq(E)}
  <2>3. 0 \in S
    OBVIOUS
  <2>4. ASSUME NEW k \in Nat, k \in S PROVE k + 1 \in S
    <3> SUFFICES ASSUME k + 1 \in 1..Len(s) PROVE f[k + 1] \in Seq(E)
      OBVIOUS
    <3>1. s[k + 1] \in Seq(E) /\ (k + 1) - 1 = k
      OBVIOUS
    <3>2. f[k + 1] = IF k + 1 = 1 THEN s[k + 1] ELSE f[k] \o s[k + 1]
      BY <2>2, <3>1 DEF Flattens
    <3>3. CASE k # 0
      <4>1. k \in 1..Len(s) /\ k + 1 # 1
        BY <3>3
      <4>2. f[k] \in Seq(E)
        BY <2>4, <4>1
      <4> QED BY <3>1, <3>2, <4>1, <4>2
    <3> QED BY <3>1, <3>2, <3>3
  <2> HIDE DEF S
  <2>5. Nat \subseteq S
    BY <2>3, <2>4, Induction
  <2>6. Len(s) \in S /\ Len(s) \in 1..Len(s)
    BY <2>1, <2>5
  <2> QED BY <2>2, <2>6 DEF S
<1> QED BY <1>1, <1>2

LEMMA FlattenAppend ==
  ASSUME NEW E, NEW s \in Seq(Seq(E)), NEW e \in Seq(E)
  PROVE  FlattenSeq(Append(s, e)) = FlattenSeq(s) \o e
<1> DEFINE t == Append(s, e)
           n == Len(s)
<1>1. /\ n \in Nat /\ t \in Seq(Seq(E)) /\ Len(t) = n + 1 /\ t[n + 1] = e
      /\ \A i \in 1..n : t[i] = s[i]
  OBVIOUS
<1> HIDE DEF t
<1>2. PICK g : Flattens(g, t, n + 1) /\ FlattenSeq(t) = g[n + 1]
  BY <1>1, Flattened
<1>3. g[n + 1] = IF n + 1 = 1 THEN e ELSE g[n] \o e
  <2>1. n + 1 \in 1..n + 1 /\ (n + 1) - 1 = n
    BY <1>1
  <2> HIDE DEF n
  <2> QED BY <1>1, <1>2, <2>1 DEF Flattens
<1>4. CASE n = 0
  <2>1. s = << >> /\ FlattenSeq(s) = << >>
    BY <1>4, FlattenEmpty
  <2>2. << >> \o e = e
    OBVIOUS
  <2> QED BY <1>2, <1>3, <1>4, <2>1, <2>2 DEF t
<1>5. CASE n # 0
  <2>1. PICK f : Flattens(f, s, n) /\ FlattenSeq(s) = f[n]
    BY <1>1, <1>5, Flattened
  <2>2. \A i \in 1..n : f[i] = g[i]
    <3> HIDE DEF n
    <3>1. /\ n \in Nat /\ Flattens(f, s, n) /\ Flattens(g, t, n + 1)
          /\ \A i \in 1..n : s[i] = t[i]
      BY <1>1, <1>2, <2>1
    <3> QED BY <3>1, FlattenUnique
  <2>3. n \in 1..n /\ n + 1 # 1
    BY <1>1, <1>5
  <2> QED BY <1>2, <1>3, <2>1, <2>2, <2>3 DEF t
<1> QED BY <1>4, <1>5

LEMMA FlattenConsMore ==
  ASSUME NEW E, NEW e \in Seq(E), NEW q \in Seq(Seq(E)), NEW x \in Seq(E),
         FlattenSeq(<<e>> \o q) = e \o FlattenSeq(q)
  PROVE  FlattenSeq(<<e>> \o Append(q, x)) = e \o FlattenSeq(Append(q, x))
<1>1. <<e>> \o q \in Seq(Seq(E)) /\ <<e>> \o Append(q, x) = Append(<<e>> \o q, x)
  OBVIOUS
<1>2. FlattenSeq(<<e>> \o Append(q, x)) = (e \o FlattenSeq(q)) \o x
  BY <1>1, FlattenAppend
<1>3. FlattenSeq(Append(q, x)) = FlattenSeq(q) \o x /\ FlattenSeq(q) \in Seq(E)
  BY FlattenAppend, FlattenType
<1>4. (e \o FlattenSeq(q)) \o x = e \o (FlattenSeq(q) \o x)
  BY <1>3, ConcatAssociative
<1> QED BY <1>2, <1>3, <1>4

LEMMA FlattenCons ==
  ASSUME NEW E, NEW e \in Seq(E), NEW s \in Seq(Seq(E))
  PROVE  FlattenSeq(<<e>> \o s) = e \o FlattenSeq(s)
<1> DEFINE P(r) == FlattenSeq(<<e>> \o r) = e \o FlattenSeq(r)
           Q(n) == \A r \in Seq(Seq(E)) : Len(r) = n => P(r)
           S == {n \in Nat : Q(n)}
<1>1. Q(0)
  <2> SUFFICES ASSUME NEW r \in Seq(Seq(E)), Len(r) = 0 PROVE P(r)
    OBVIOUS
  <2>1. r = << >> /\ <<e>> \o r = Append(<< >>, e)
    OBVIOUS
  <2>2. << >> \in Seq(Seq(E)) /\ << >> \o e = e /\ e \o << >> = e
    OBVIOUS
  <2>3. FlattenSeq(Append(<< >>, e)) = << >> \o e
    BY <2>2, FlattenAppend, FlattenEmpty
  <2> QED BY <2>1, <2>2, <2>3, FlattenEmpty
<1>2. ASSUME NEW n \in Nat, Q(n) PROVE Q(n + 1)
  <2> HIDE DEF P
  <2> SUFFICES ASSUME NEW r \in Seq(Seq(E)), Len(r) = n + 1 PROVE P(r)
    OBVIOUS
  <2>1. r # << >>
    OBVIOUS
  <2>2. PICK q \in Seq(Seq(E)), x \in Seq(E) : r = Append(q, x)
    <3> DEFINE D == Seq(E)
    <3> HIDE DEF D
    <3>1. r \in Seq(D)
      BY DEF D
    <3>2. \E q \in Seq(D), x \in D : r = Append(q, x)
      BY <2>1, <3>1, SequenceEmptyOrAppend
    <3> QED BY <3>2 DEF D
  <2>3. Len(q) = n
    BY <2>2
  <2>4. P(q)
    BY <1>2, <2>3
  <2> QED BY <2>2, <2>4, FlattenConsMore DEF P
<1> HIDE DEF Q
<1>3. Nat \subseteq S
  <2>1. 0 \in S /\ \A n \in Nat : n \in S => n + 1 \in S
    BY <1>1, <1>2
  <2> HIDE DEF S
  <2> QED BY <2>1, Induction
<1>4. Q(Len(s))
  <2>1. Len(s) \in Nat
    OBVIOUS
  <2> QED BY <1>3, <2>1
<1> QED BY <1>4 DEF Q

-----------------------------------------------------------------------------
(***************************************************************************)
(* What the calls of a block are made of.                                  *)
(***************************************************************************)
Of(batch) ==
  IF batch = Malformed THEN << >> ELSE [i \in DOMAIN batch |-> DeliverTx(batch[i])]

LEMMA OfType == ASSUME NEW b \in Batches PROVE Of(b) \in Seq(Calls)
<1>1. CASE b = Malformed
  BY <1>1, EmptySeq DEF Of
<1>2. CASE b # Malformed
  <2>1. b \in Seq(Txs)
    BY <1>2 DEF Batches
  <2>2. \A i \in 1..Len(b) : DeliverTx(b[i]) \in Calls
    BY <2>1 DEF Calls
  <2>3. [i \in 1..Len(b) |-> DeliverTx(b[i])] \in Seq(Calls)
    BY <2>1, <2>2
  <2> QED BY <1>2, <2>1, <2>3 DEF Of
<1> QED BY <1>1, <1>2

LEMMA FirstOf ==
  ASSUME NEW E, NEW e \in E, NEW s \in Seq(E)
  PROVE  /\ <<e>> \o s \in Seq(E) /\ Len(<<e>> \o s) = Len(s) + 1
         /\ (<<e>> \o s)[1] = e
         /\ \A i \in 1..Len(s) + 1 : i # 1 => (<<e>> \o s)[i] = s[i - 1]
OBVIOUS

Delivering(p) == [k \in 1..Len(p) |-> Of(p[k])]

LEMMA TransactionsType ==
  ASSUME NEW p \in Seq(Batches)
  PROVE  /\ Delivering(p) \in Seq(Seq(Calls))
         /\ Transactions(p) = FlattenSeq(Delivering(p))
         /\ Transactions(p) \in Seq(Calls)
<1>1. \A k \in 1..Len(p) : Of(p[k]) \in Seq(Calls)
  BY OfType
<1>2. Delivering(p) \in Seq(Seq(Calls))
  BY <1>1 DEF Delivering
<1>3. Transactions(p) = FlattenSeq(Delivering(p))
  BY DEF Transactions, Delivering, Of
<1> QED BY <1>2, <1>3, FlattenType

LEMMA NoTransactions == Transactions(<< >>) = << >>
<1>1. Delivering(<< >>) = << >> /\ << >> \in Seq(Batches)
  BY DEF Delivering
<1> QED BY <1>1, TransactionsType, FlattenEmpty

LEMMA FirstTransactions ==
  ASSUME NEW p \in Seq(Batches), p # << >>
  PROVE  Transactions(p) = Of(Head(p)) \o Transactions(Tail(p))
<1>1. Tail(p) \in Seq(Batches) /\ Head(p) \in Batches
  OBVIOUS
<1>2. Delivering(p) = <<Of(Head(p))>> \o Delivering(Tail(p))
  <2>1. /\ Len(Tail(p)) = Len(p) - 1 /\ Head(p) = p[1] /\ Len(p) \in Nat
        /\ \A k \in 1..Len(p) - 1 : Tail(p)[k] = p[k + 1]
    OBVIOUS
  <2>2. \A s, t \in Seq(Seq(Calls)) :
          Len(s) = Len(t) /\ (\A i \in 1..Len(s) : s[i] = t[i]) => s = t
    BY SeqEqual
  <2> DEFINE s == Delivering(p)
             r == Delivering(Tail(p))
             t == <<Of(Head(p))>> \o r
  <2>3. s \in Seq(Seq(Calls)) /\ r \in Seq(Seq(Calls)) /\ Of(Head(p)) \in Seq(Calls)
    BY <1>1, TransactionsType, OfType
  <2>4. Len(s) = Len(p) /\ \A i \in 1..Len(p) : s[i] = Of(p[i])
    BY DEF Delivering
  <2>5. Len(r) = Len(p) - 1 /\ \A i \in 1..Len(p) - 1 : r[i] = Of(p[i + 1])
    BY <2>1 DEF Delivering
  <2>6. t \in Seq(Seq(Calls)) /\ Len(t) = Len(p) /\ t[1] = Of(p[1])
    <3> HIDE DEF r
    <3>1. t \in Seq(Seq(Calls)) /\ Len(t) = Len(r) + 1 /\ t[1] = Of(Head(p))
      BY <2>3, FirstOf
    <3>2. Len(r) + 1 = Len(p)
      BY <2>1, <2>5
    <3> QED BY <2>1, <3>1, <3>2
  <2>7. ASSUME NEW i \in 1..Len(p), i # 1 PROVE t[i] = Of(p[i])
    <3>1. i - 1 \in 1..Len(p) - 1 /\ (i - 1) + 1 = i
      BY <2>1, <2>7
    <3>2. t[i] = r[i - 1]
      <4> HIDE DEF r
      <4>1. i \in 1..Len(r) + 1
        BY <2>1, <2>5
      <4> QED BY <2>3, <2>7, <4>1, FirstOf
    <3>3. r[i - 1] = Of(p[(i - 1) + 1])
      <4> HIDE DEF r
      <4> QED BY <2>5, <3>1
    <3> QED BY <3>1, <3>2, <3>3
  <2>8. s = t
    <3> HIDE DEF s, r, t
    <3> QED BY <2>2, <2>3, <2>4, <2>6, <2>7
  <2> QED BY <2>8
<1>3. Of(Head(p)) \in Seq(Calls) /\ Delivering(Tail(p)) \in Seq(Seq(Calls))
  BY <1>1, OfType, TransactionsType
<1>4. FlattenSeq(Delivering(p)) = Of(Head(p)) \o FlattenSeq(Delivering(Tail(p)))
  BY <1>2, <1>3, FlattenCons
<1> QED BY <1>1, <1>4, TransactionsType

LEMMA FirstTransaction ==
  ASSUME NEW b \in Seq(Txs), b # << >>
  PROVE  Of(b) = <<DeliverTx(Head(b))>> \o Of(Tail(b))
<1>1. /\ Tail(b) \in Seq(Txs) /\ Head(b) = b[1] /\ Len(b) \in Nat \ {0}
      /\ Len(Tail(b)) = Len(b) - 1
      /\ \A k \in 1..Len(b) - 1 : Tail(b)[k] = b[k + 1]
  OBVIOUS
<1> DEFINE s == Of(b)
           r == Of(Tail(b))
           t == <<DeliverTx(Head(b))>> \o r
<1>2. b # Malformed /\ Tail(b) # Malformed
  BY <1>1, EngineAssumption
<1>3. s \in Seq(Calls) /\ r \in Seq(Calls) /\ DeliverTx(Head(b)) \in Calls
  <2>1. b \in Batches /\ Tail(b) \in Batches /\ Head(b) \in Txs
    BY <1>1 DEF Batches
  <2> QED BY <2>1, OfType DEF Calls
<1>4. Len(s) = Len(b) /\ \A i \in 1..Len(b) : s[i] = DeliverTx(b[i])
  BY <1>2 DEF Of
<1>5. Len(r) = Len(b) - 1 /\ \A i \in 1..Len(b) - 1 : r[i] = DeliverTx(b[i + 1])
  BY <1>1, <1>2 DEF Of
<1>6. t \in Seq(Calls) /\ Len(t) = Len(b) /\ t[1] = DeliverTx(b[1])
  <2> HIDE DEF r
  <2>1. t \in Seq(Calls) /\ Len(t) = Len(r) + 1 /\ t[1] = DeliverTx(Head(b))
    BY <1>3, FirstOf
  <2>2. Len(r) + 1 = Len(b)
    BY <1>1, <1>5
  <2> QED BY <1>1, <2>1, <2>2
<1>7. ASSUME NEW i \in 1..Len(b), i # 1 PROVE t[i] = DeliverTx(b[i])
  <2>1. i - 1 \in 1..Len(b) - 1 /\ (i - 1) + 1 = i
    BY <1>1, <1>7
  <2>2. t[i] = r[i - 1]
    <3> HIDE DEF r
    <3>1. i \in 1..Len(r) + 1
      BY <1>1, <1>5
    <3> QED BY <1>3, <1>7, <3>1, FirstOf
  <2>3. r[i - 1] = DeliverTx(b[(i - 1) + 1])
    <3> HIDE DEF r
    <3> QED BY <1>5, <2>1
  <2> QED BY <2>1, <2>2, <2>3
<1>8. s = t
  <2> HIDE DEF s, r, t
  <2> QED BY <1>3, <1>4, <1>6, <1>7, SeqEqual
<1> QED BY <1>8

LEMMA BlockCallsType ==
  ASSUME NEW h \in Nat, NEW p \in Payloads
  PROVE  /\ BlockCalls(h, p) \in Seq(Calls) /\ Transactions(p) \in Seq(Calls)
         /\ <<BeginBlock(h)>> \in Seq(Calls) /\ <<EndBlock(h)>> \in Seq(Calls)
         /\ <<Commit>> \in Seq(Calls) /\ <<EndBlock(h), Commit>> \in Seq(Calls)
         /\ <<EndBlock(h), Commit>> = <<EndBlock(h)>> \o <<Commit>>
<1>1. BeginBlock(h) \in Calls /\ EndBlock(h) \in Calls /\ Commit \in Calls
  BY DEF Calls, BeginBlock, EndBlock
<1>2. Transactions(p) \in Seq(Calls)
  BY EngineAssumption, TransactionsType
<1> QED BY <1>1, <1>2 DEF BlockCalls

-----------------------------------------------------------------------------
(***************************************************************************)
(* The calls of the first k blocks, when they are counted from h.          *)
(***************************************************************************)
Blocks(h, k) == FlattenSeq([j \in 1..k |-> BlockCalls(h + j, ordered[j])])

LEMMA HeightsAreNat == Heights \subseteq Nat /\ AppHeight \in Heights
BY EngineAssumption DEF Heights

LEMMA BlocksType ==
  ASSUME TypeOK, NEW h \in Nat, NEW k \in 0..Len(ordered)
  PROVE  /\ [j \in 1..k |-> BlockCalls(h + j, ordered[j])] \in Seq(Seq(Calls))
         /\ Blocks(h, k) \in Seq(Calls)
<1>1. ordered \in Seq(Payloads) /\ k \in Nat /\ Len(ordered) \in Nat
  BY DEF TypeOK
<1>2. \A j \in 1..k : BlockCalls(h + j, ordered[j]) \in Seq(Calls)
  <2> SUFFICES ASSUME NEW j \in 1..k PROVE BlockCalls(h + j, ordered[j]) \in Seq(Calls)
    OBVIOUS
  <2>1. h + j \in Nat /\ ordered[j] \in Payloads
    BY <1>1
  <2> QED BY <2>1, BlockCallsType
<1>3. [j \in 1..k |-> BlockCalls(h + j, ordered[j])] \in Seq(Seq(Calls))
  BY <1>1, <1>2
<1> QED BY <1>3, FlattenType DEF Blocks

LEMMA NoBlocks == ASSUME NEW h PROVE Blocks(h, 0) = << >>
<1>1. [j \in 1..0 |-> BlockCalls(h + j, ordered[j])] = << >>
  OBVIOUS
<1> QED BY <1>1, FlattenEmpty DEF Blocks

LEMMA OneMoreBlock ==
  ASSUME TypeOK, NEW h \in Nat, NEW k \in Nat, k < Len(ordered)
  PROVE  Blocks(h, k + 1) = Blocks(h, k) \o BlockCalls(h + (k + 1), ordered[k + 1])
<1> DEFINE F(j) == BlockCalls(h + j, ordered[j])
           s == [j \in 1..k |-> F(j)]
           t == [j \in 1..k + 1 |-> F(j)]
<1>1. Len(ordered) \in Nat /\ k \in 0..Len(ordered) /\ k + 1 \in 0..Len(ordered)
  BY DEF TypeOK
<1>2. s \in Seq(Seq(Calls)) /\ t \in Seq(Seq(Calls))
  BY <1>1, BlocksType
<1>3. F(k + 1) \in Seq(Calls)
  <2>1. t[k + 1] = F(k + 1) /\ Len(t) = k + 1
    BY <1>1
  <2> HIDE DEF t, F
  <2> QED BY <1>1, <1>2, <2>1
<1> HIDE DEF F
<1>4. t = Append(s, F(k + 1))
  <2>1. Len(s) = k /\ Len(t) = k + 1
    BY <1>1
  <2>2. /\ Append(s, F(k + 1)) \in Seq(Seq(Calls))
        /\ Len(Append(s, F(k + 1))) = k + 1
        /\ \A i \in 1..k : Append(s, F(k + 1))[i] = s[i]
        /\ Append(s, F(k + 1))[k + 1] = F(k + 1)
    <3> HIDE DEF s
    <3> QED BY <1>2, <1>3, <2>1, AppendProperties
  <2>3. \A i \in 1..k + 1 : t[i] = Append(s, F(k + 1))[i]
    <3> SUFFICES ASSUME NEW i \in 1..k + 1 PROVE t[i] = Append(s, F(k + 1))[i]
      OBVIOUS
    <3>1. CASE i = k + 1
      BY <2>2, <3>1
    <3>2. CASE i # k + 1
      <4>1. i \in 1..k
        BY <3>2
      <4> QED BY <2>2, <4>1
    <3> QED BY <3>1, <3>2
  <2> HIDE DEF s, t
  <2> QED BY <1>2, <2>1, <2>2, <2>3, SeqEqual
<1>5. FlattenSeq(t) = FlattenSeq(s) \o F(k + 1)
  <2> HIDE DEF s, t
  <2> QED BY <1>2, <1>3, <1>4, FlattenAppend
<1> QED BY <1>5 DEF Blocks, F

LEMMA ScriptIsBlocks ==
  ASSUME TypeOK, NEW h PROVE Script(h) = Blocks(h, Len(ordered))
<1>1. DOMAIN ordered = 1..Len(ordered)
  BY DEF TypeOK
<1> QED BY <1>1 DEF Script, Blocks

LEMMA Concat ==
  ASSUME NEW a \in Seq(Calls), NEW b \in Seq(Calls), NEW c \in Seq(Calls)
  PROVE  /\ a \o b \in Seq(Calls) /\ b \o c \in Seq(Calls)
         /\ (a \o b) \o c = a \o (b \o c)
BY ConcatAssociative

LEMMA BlocksGrow ==
  ASSUME TypeOK, NEW h \in Nat, NEW k \in Nat, NEW d \in Nat, k + d <= Len(ordered)
  PROVE  \E r \in Seq(Calls) : Blocks(h, k + d) = Blocks(h, k) \o r
<1> DEFINE P(m) == \E r \in Seq(Calls) : Blocks(h, k + m) = Blocks(h, k) \o r
           S == {m \in Nat : k + m <= Len(ordered) => P(m)}
<1>0. Len(ordered) \in Nat
  BY DEF TypeOK
<1>1. P(0) /\ Blocks(h, k) \in Seq(Calls)
  <2>1. Blocks(h, k) \in Seq(Calls) /\ k + 0 = k
    BY <1>0, BlocksType
  <2>2. Blocks(h, k) = Blocks(h, k) \o << >> /\ << >> \in Seq(Calls)
    BY <2>1, ConcatEmptySeq
  <2> QED BY <2>1, <2>2
<1>2. ASSUME NEW m \in Nat, k + (m + 1) <= Len(ordered), P(m) PROVE P(m + 1)
  <2>1. PICK r \in Seq(Calls) : Blocks(h, k + m) = Blocks(h, k) \o r
    BY <1>2
  <2>2. /\ k + m \in Nat /\ k + m < Len(ordered) /\ (k + m) + 1 = k + (m + 1)
        /\ h + (k + (m + 1)) \in Nat /\ ordered[k + (m + 1)] \in Payloads
    BY <1>0, <1>2 DEF TypeOK
  <2> DEFINE c == BlockCalls(h + (k + (m + 1)), ordered[k + (m + 1)])
  <2>3. c \in Seq(Calls)
    BY <2>2, BlockCallsType
  <2>4. Blocks(h, k + (m + 1)) = Blocks(h, k + m) \o c
    BY <2>2, OneMoreBlock
  <2> HIDE DEF c
  <2>5. (Blocks(h, k) \o r) \o c = Blocks(h, k) \o (r \o c) /\ r \o c \in Seq(Calls)
    BY <1>1, <2>3, Concat, ZenonT(40)
  <2>6. Blocks(h, k + (m + 1)) = (Blocks(h, k) \o r) \o c
    BY <2>1, <2>4
  <2> QED BY <2>5, <2>6
<1>3. ASSUME NEW m \in Nat, m \in S PROVE m + 1 \in S
  <2>1. k + (m + 1) <= Len(ordered) => k + m <= Len(ordered)
    BY <1>0
  <2> HIDE DEF P
  <2> QED BY <1>2, <1>3, <2>1
<1>4. 0 \in S
  BY <1>1
<1> HIDE DEF P, S
<1>5. d \in S
  BY <1>3, <1>4, Induction
<1> QED BY <1>5 DEF P, S

LEMMA PrefixOfConcat ==
  ASSUME NEW a \in Seq(Calls), NEW r \in Seq(Calls) PROVE IsPrefix(a, a \o r)
<1>1. /\ a \o r \in Seq(Calls) /\ Len(a \o r) = Len(a) + Len(r)
      /\ \A i \in 1..Len(a) : (a \o r)[i] = a[i]
  BY ConcatProperties
<1>2. Len(a) \in Nat /\ Len(r) \in Nat
  OBVIOUS
<1>3. SubSeq(a, 1, Len(a)) = SubSeq(a \o r, 1, Len(a))
  BY <1>1, <1>2
<1> QED BY <1>1, <1>2, <1>3 DEF IsPrefix

(* What begins the calls of the first k blocks begins those of all.         *)
LEMMA PrefixOfScript ==
  ASSUME TypeOK, NEW h \in Nat, NEW k \in 0..Len(ordered),
         NEW a \in Seq(Calls), NEW r \in Seq(Calls), Blocks(h, k) = a \o r
  PROVE  IsPrefix(a, Script(h))
<1>1. PICK d \in Nat : k \in Nat /\ k + d = Len(ordered) /\ k + d <= Len(ordered)
  <2>1. k \in Nat /\ Len(ordered) \in Nat /\ k <= Len(ordered)
    BY DEF TypeOK
  <2>2. /\ Len(ordered) - k \in Nat /\ k + (Len(ordered) - k) = Len(ordered)
        /\ k + (Len(ordered) - k) <= Len(ordered)
    BY <2>1
  <2> QED BY <2>1, <2>2
<1>2. \E q \in Seq(Calls) : Blocks(h, k + d) = Blocks(h, k) \o q
  BY <1>1, BlocksGrow
<1>3. PICK q \in Seq(Calls) : Script(h) = (a \o r) \o q
  BY <1>1, <1>2, ScriptIsBlocks
<1>4. Script(h) = a \o (r \o q) /\ r \o q \in Seq(Calls)
  BY <1>3, Concat, ZenonT(40)
<1> QED BY <1>4, PrefixOfConcat

-----------------------------------------------------------------------------
(***************************************************************************)
(* Where a running engine is in the calls of the ordered certificates: the *)
(* blocks before the certificate in hand are done, and of its own block    *)
(* the calls before the step the engine is at.  While it delivers, what is *)
(* left to read stands for the transactions that are left; a batch that    *)
(* was not found may be any batch.                                         *)
(***************************************************************************)
Reading(n, rest) ==
  /\ rest \in Seq(Batches)
  /\ Len(rest) = Len(batches[n])
  /\ \A k \in 1..Len(rest) : batches[n][k] \in {NotFound, <<"ok", rest[k]>>}

Left(n, done) ==
  \E rest : /\ Reading(n, rest)
            /\ done \o Transactions(rest) = Transactions(ordered[taken[n]])

Before(n, h) == Blocks(h, taken[n] - 1)

Begun(n, h) == Before(n, h) \o <<BeginBlock(height[n])>>

AllDelivered(n, h) == Begun(n, h) \o Transactions(ordered[taken[n]])

Follows(n, h) ==
  /\ height[n] = h + taken[n]
  /\ pc[n] \in {"select", "query"} => calls[n] = Blocks(h, taken[n])
  /\ pc[n] = "begin" => calls[n] = Before(n, h)
  /\ pc[n] = "reconstruct" => calls[n] = Begun(n, h)
  /\ pc[n] = "deliver" =>
       \E done \in Seq(Calls) : calls[n] = Begun(n, h) \o done /\ Left(n, done)
  /\ pc[n] = "end" => calls[n] = AllDelivered(n, h)
  /\ pc[n] = "commit" => calls[n] = AllDelivered(n, h) \o <<EndBlock(height[n])>>

Executes(n) ==
  /\ status[n] = "new" => calls[n] = << >> /\ taken[n] = 0 /\ pc[n] = "select"
  /\ status[n] = "running" => \E h \in Heights : Follows(n, h)
  /\ status[n] = "ended" => \E h \in Heights : IsPrefix(calls[n], Script(h))

LEMMA InBlock ==
  ASSUME Typed, NEW n \in Nodes, NEW h \in Heights, height[n] = h + taken[n],
         pc[n] \notin {"select", "query"}
  PROVE  /\ taken[n] \in 1..Len(ordered) /\ ordered[taken[n]] \in Payloads
         /\ height[n] \in Nat /\ h \in Nat
         /\ Before(n, h) \in Seq(Calls) /\ Begun(n, h) \in Seq(Calls)
         /\ AllDelivered(n, h) \in Seq(Calls)
         /\ Blocks(h, taken[n]) =
              (AllDelivered(n, h) \o <<EndBlock(height[n])>>) \o <<Commit>>
<1>1. h \in Nat
  BY HeightsAreNat
<1>2. /\ taken[n] \in 1..Len(ordered) /\ ordered[taken[n]] \in Payloads
      /\ height[n] \in Nat /\ TypeOK /\ Len(ordered) \in Nat
  <2>1. InHand(n)
    BY DEF Typed
  <2>2. /\ taken[n] \in Nat /\ received[n] \in Nat /\ Len(ordered) \in Nat
        /\ ordered \in Seq(Payloads) /\ height[n] \in Nat
    BY DEF Typed, TypeOK
  <2>3. taken[n] \in 1..Len(ordered)
    BY <2>1, <2>2 DEF InHand
  <2> QED BY <2>2, <2>3 DEF Typed
<1>3. PICK k \in Nat : taken[n] = k + 1 /\ taken[n] - 1 = k /\ k < Len(ordered)
                       /\ k \in 0..Len(ordered)
  <2>1. /\ taken[n] - 1 \in Nat /\ taken[n] = (taken[n] - 1) + 1
        /\ taken[n] - 1 < Len(ordered) /\ taken[n] - 1 \in 0..Len(ordered)
    BY <1>2
  <2> QED BY <2>1
<1> DEFINE B == Before(n, h)
           b == <<BeginBlock(height[n])>>
           T == Transactions(ordered[taken[n]])
           e == <<EndBlock(height[n])>>
           c == <<Commit>>
<1>4. B \in Seq(Calls)
  BY <1>1, <1>2, <1>3, BlocksType DEF Before
<1>5. /\ b \in Seq(Calls) /\ T \in Seq(Calls) /\ e \in Seq(Calls) /\ c \in Seq(Calls)
      /\ BlockCalls(height[n], ordered[taken[n]]) = (b \o T) \o (e \o c)
  BY <1>2, BlockCallsType DEF BlockCalls
<1>6. Blocks(h, taken[n]) = B \o ((b \o T) \o (e \o c))
  <2>1. Blocks(h, k + 1) = Blocks(h, k) \o BlockCalls(h + (k + 1), ordered[k + 1])
    BY <1>1, <1>2, <1>3, OneMoreBlock
  <2> HIDE DEF b, T, e, c
  <2> QED BY <1>3, <1>5, <2>1 DEF Before
<1>7. Begun(n, h) = B \o b /\ AllDelivered(n, h) = (B \o b) \o T
  BY DEF Begun, AllDelivered
<1> HIDE DEF B, b, T, e, c
<1>8. /\ B \o b \in Seq(Calls) /\ b \o T \in Seq(Calls) /\ e \o c \in Seq(Calls)
      /\ (B \o b) \o T = B \o (b \o T)
  BY <1>4, <1>5, Concat
<1>9. (B \o b) \o T \in Seq(Calls)
  BY <1>5, <1>8, Concat
<1>10. B \o ((b \o T) \o (e \o c)) = (B \o (b \o T)) \o (e \o c)
  BY <1>4, <1>8, Concat
<1>11. (((B \o b) \o T) \o e) \o c = ((B \o b) \o T) \o (e \o c)
  BY <1>5, <1>9, Concat
<1>12. Blocks(h, taken[n]) = (((B \o b) \o T) \o e) \o c
  BY <1>6, <1>8, <1>10, <1>11
<1> QED BY <1>1, <1>2, <1>4, <1>7, <1>8, <1>9, <1>12 DEF B, e, c

LEMMA HeadOfRest ==
  ASSUME Typed, NEW n \in Nodes, Usable(n), NEW rest, Reading(n, rest)
  PROVE  /\ rest \in Seq(Batches) /\ rest # << >>
         /\ Head(rest) \in Seq(Txs) /\ Head(rest) # Malformed
         /\ Head(batches[n])[2] = Head(rest)
         /\ Len(rest) \in Nat /\ Len(rest) # 0 /\ Len(rest) = Len(batches[n])
         /\ batches[n] \in Seq(Reads) /\ batches[n] # << >>
<1>1. batches[n] \in Seq(Reads) /\ batches[n] # << >>
  BY DEF Usable, Typed, TypeOK
<1>2. rest \in Seq(Batches) /\ Len(rest) = Len(batches[n]) /\ Len(rest) # 0
  BY <1>1 DEF Reading
<1>3. 1 \in 1..Len(rest) /\ Head(rest) = rest[1] /\ Head(batches[n]) = batches[n][1]
      /\ rest[1] \in Batches
  BY <1>1, <1>2
<1>4. Head(batches[n]) = <<"ok", Head(rest)>>
  BY <1>3 DEF Reading, Usable
<1>5. Head(batches[n])[2] = Head(rest)
  BY <1>4
<1> QED BY <1>1, <1>2, <1>3, <1>5 DEF Usable, Batches

(* Associativity for more than three, with concatenation behind a name.     *)
Cat(x, y) == x \o y

LEMMA CatAssociative ==
  ASSUME NEW x \in Seq(Calls), NEW y \in Seq(Calls), NEW z \in Seq(Calls)
  PROVE  Cat(x, y) \in Seq(Calls) /\ Cat(Cat(x, y), z) = Cat(x, Cat(y, z))
BY Concat DEF Cat

(* The call that is pending is the next one of the block.                   *)
LEMMA PendingIsNext ==
  ASSUME Typed, NEW n \in Nodes, NEW h \in Heights, Follows(n, h)
  PROVE  /\ h \in Nat /\ taken[n] \in 0..Len(ordered)
         /\ \E r \in Seq(Calls) : Blocks(h, taken[n]) = (calls[n] \o Pending(n)) \o r
<1>0. /\ h \in Nat /\ taken[n] \in 0..Len(ordered)
      /\ TypeOK /\ calls[n] \in Seq(Calls) /\ pc[n] \in Steps
      /\ height[n] = h + taken[n]
  <2>1. InHand(n) /\ TypeOK
    BY DEF Typed
  <2>2. taken[n] \in Nat /\ received[n] \in Nat /\ Len(ordered) \in Nat
    BY <2>1 DEF TypeOK
  <2>3. taken[n] \in 0..Len(ordered)
    BY <2>1, <2>2 DEF InHand
  <2>4. height[n] = h + taken[n]
    BY DEF Follows
  <2> QED BY <2>1, <2>3, <2>4, HeightsAreNat DEF TypeOK
<1> SUFFICES \E r \in Seq(Calls) : Blocks(h, taken[n]) = (calls[n] \o Pending(n)) \o r
  BY <1>0
<1> DEFINE A == AllDelivered(n, h)
           B == Begun(n, h)
           b == <<BeginBlock(height[n])>>
           T == Transactions(ordered[taken[n]])
           e == <<EndBlock(height[n])>>
           c == <<Commit>>
           P == Pending(n)
<1>1. CASE pc[n] \in {"select", "query"}
  <2>1. Pending(n) = << >> /\ calls[n] = Blocks(h, taken[n])
    BY <1>1 DEF Pending, Follows
  <2>2. (calls[n] \o << >>) \o << >> = calls[n] /\ << >> \in Seq(Calls)
    BY <1>0, ConcatEmptySeq
  <2> QED BY <2>1, <2>2
<1>2. CASE pc[n] \in {"begin", "reconstruct", "deliver", "end", "commit"}
  <2>1. /\ Before(n, h) \in Seq(Calls) /\ B \in Seq(Calls) /\ A \in Seq(Calls)
        /\ Blocks(h, taken[n]) = (A \o e) \o c
        /\ ordered[taken[n]] \in Payloads /\ height[n] \in Nat
    BY <1>0, <1>2, InBlock
  <2>2. b \in Seq(Calls) /\ T \in Seq(Calls) /\ e \in Seq(Calls) /\ c \in Seq(Calls)
    BY <2>1, BlockCallsType
  <2>3. A = B \o T /\ B = Before(n, h) \o b
    BY DEF AllDelivered, Begun
  <2> HIDE DEF A, B, b, T, e, c
  <2>4. e \o c \in Seq(Calls) /\ (A \o e) \o c = A \o (e \o c) /\ A \o e \in Seq(Calls)
    BY <2>1, <2>2, Concat, ZenonT(40)
  <2>5. T \o (e \o c) \in Seq(Calls)
        /\ (B \o T) \o (e \o c) = B \o (T \o (e \o c))
    <3>1. B \in Seq(Calls) /\ T \in Seq(Calls) /\ e \o c \in Seq(Calls)
      BY <2>1, <2>2, <2>4
    <3> QED BY <3>1, Concat, ZenonT(40)
  <2>6. Blocks(h, taken[n]) = B \o (T \o (e \o c))
    BY <2>1, <2>3, <2>4, <2>5
  <2>7. CASE pc[n] = "begin"
    <3>1. P = b /\ calls[n] = Before(n, h)
      BY <2>7 DEF Pending, Follows, b, B
    <3> QED BY <2>3, <2>5, <2>6, <3>1
  <2>8. CASE pc[n] = "reconstruct"
    <3>1. P = << >> /\ calls[n] = B
      BY <2>8 DEF Pending, Follows, B
    <3>2. B \o << >> = B
      BY <2>1, ConcatEmptySeq
    <3> QED BY <2>5, <2>6, <3>1, <3>2
  <2>9. CASE pc[n] = "deliver"
    <3>1. PICK done \in Seq(Calls) : calls[n] = B \o done /\ Left(n, done)
      BY <2>9 DEF Follows, B
    <3>2. PICK rest : Reading(n, rest) /\ done \o Transactions(rest) = T
      BY <3>1 DEF Left, T
    <3>3. \E q \in Seq(Calls) : Transactions(rest) = P \o q /\ P \in Seq(Calls)
      <4>1. rest \in Seq(Batches) /\ Transactions(rest) \in Seq(Calls)
        BY <3>2, TransactionsType DEF Reading
      <4>2. CASE Usable(n) /\ Head(batches[n])[2] # << >>
        <5> DEFINE x == DeliverTx(Head(Head(rest)))
        <5>1. /\ Head(rest) \in Seq(Txs) /\ Head(rest) # << >> /\ rest # << >>
              /\ Head(batches[n])[2] = Head(rest)
          BY <3>2, <4>2, HeadOfRest
        <5>2. P = <<x>>
          BY <2>9, <4>2, <5>1 DEF Pending
        <5>3. x \in Calls /\ Tail(Head(rest)) \in Batches
          BY <5>1 DEF Calls, Batches
        <5>4. /\ <<x>> \in Seq(Calls) /\ Of(Tail(Head(rest))) \in Seq(Calls)
              /\ Tail(rest) \in Seq(Batches)
          BY <4>1, <5>1, <5>3, OfType
        <5>5. Transactions(Tail(rest)) \in Seq(Calls)
          BY <5>4, TransactionsType
        <5>6. Transactions(rest) = (<<x>> \o Of(Tail(Head(rest)))) \o Transactions(Tail(rest))
          BY <4>1, <5>1, FirstTransactions, FirstTransaction
        <5> HIDE DEF x
        <5>7. Transactions(rest) = <<x>> \o (Of(Tail(Head(rest))) \o Transactions(Tail(rest)))
              /\ Of(Tail(Head(rest))) \o Transactions(Tail(rest)) \in Seq(Calls)
          BY <5>4, <5>5, <5>6, Concat
        <5> QED BY <5>2, <5>4, <5>7
      <4>3. CASE ~(Usable(n) /\ Head(batches[n])[2] # << >>)
        <5>1. P = << >>
          BY <2>9, <4>3 DEF Pending
        <5>2. << >> \o Transactions(rest) = Transactions(rest) /\ << >> \in Seq(Calls)
          BY <4>1, ConcatEmptySeq
        <5> QED BY <4>1, <5>1, <5>2
      <4> QED BY <4>2, <4>3
    <3>4. PICK q \in Seq(Calls) : Transactions(rest) = P \o q /\ P \in Seq(Calls)
      BY <3>3
    <3> HIDE DEF P
    <3>5. B \o ((done \o (P \o q)) \o (e \o c)) = ((B \o done) \o P) \o (q \o (e \o c))
      <4>1. PICK f \in Seq(Calls) : f = e \o c
        BY <2>4
      <4>2. B \in Seq(Calls) /\ P \in Seq(Calls)
        BY <2>1, <3>4
      <4>3. Cat(B, Cat(Cat(done, Cat(P, q)), f)) = Cat(Cat(Cat(B, done), P), Cat(q, f))
        BY <4>2, CatAssociative
      <4> QED BY <4>1, <4>3, Zenon DEF Cat
    <3>6. q \o (e \o c) \in Seq(Calls)
      BY <2>4, <3>4, Concat
    <3>9. Blocks(h, taken[n]) = (calls[n] \o P) \o (q \o (e \o c))
      BY <2>6, <3>1, <3>2, <3>4, <3>5
    <3> QED BY <3>6, <3>9 DEF P
  <2>10. CASE pc[n] = "end"
    <3>1. P = e /\ calls[n] = A
      BY <2>10 DEF Pending, Follows, e, A
    <3> QED BY <2>1, <2>2, <3>1
  <2>11. CASE pc[n] = "commit"
    <3>1. P = c /\ calls[n] = A \o e
      BY <2>11 DEF Pending, Follows, c, e, A
    <3>2. ((A \o e) \o c) \o << >> = (A \o e) \o c /\ << >> \in Seq(Calls)
      <4>1. (A \o e) \o c \in Seq(Calls)
        BY <2>2, <2>4, Concat
      <4> QED BY <4>1, ConcatEmptySeq
    <3> QED BY <2>1, <3>1, <3>2
  <2> QED BY <1>2, <2>7, <2>8, <2>9, <2>10, <2>11
<1> QED BY <1>0, <1>1, <1>2 DEF Steps

(* A node that ends now has made the calls of the script up to some point.  *)
LEMMA EndsInScript ==
  ASSUME Typed, NEW n \in Nodes, NEW h \in Heights, Follows(n, h)
  PROVE  IsPrefix(calls[n], Script(h)) /\ IsPrefix(calls[n] \o Pending(n), Script(h))
<1>1. PICK r \in Seq(Calls) : Blocks(h, taken[n]) = (calls[n] \o Pending(n)) \o r
  BY PendingIsNext
<1>2. calls[n] \in Seq(Calls) /\ Pending(n) \in Seq(Calls) /\ TypeOK
  BY PendingType DEF Typed, TypeOK
<1>3. calls[n] \o Pending(n) \in Seq(Calls)
      /\ (calls[n] \o Pending(n)) \o r = calls[n] \o (Pending(n) \o r)
      /\ Pending(n) \o r \in Seq(Calls)
  BY <1>2, Concat
<1>4. h \in Nat /\ taken[n] \in 0..Len(ordered)
  BY PendingIsNext
<1> QED BY <1>1, <1>2, <1>3, <1>4, PrefixOfScript

-----------------------------------------------------------------------------
(***************************************************************************)
(* Every step keeps every engine in its script.                            *)
(***************************************************************************)
Untouched(n) ==
  /\ status'[n] = status[n] /\ height'[n] = height[n] /\ taken'[n] = taken[n]
  /\ pc'[n] = pc[n] /\ batches'[n] = batches[n] /\ calls'[n] = calls[n]

LEMMA UntouchedExecutes ==
  ASSUME NEW n \in Nodes, Executes(n), UNCHANGED ordered, Untouched(n)
  PROVE  Executes(n)'
<1>1. \A h : Follows(n, h) => Follows(n, h)'
  BY ZenonT(40) DEF Untouched, Follows, Before, Begun, AllDelivered, Left, Reading, Blocks
<1>2. \A h : Script(h)' = Script(h)
  BY DEF Script
<1> QED BY <1>1, <1>2 DEF Executes, Untouched

LEMMA OthersExecute ==
  ASSUME \A n \in Nodes : Executes(n), NEW m \in Nodes, UNCHANGED ordered,
         \A n \in Nodes : n # m => Untouched(n), Executes(m)'
  PROVE  \A n \in Nodes : Executes(n)'
BY UntouchedExecutes

(* One more certificate: what is there of the script stays.                 *)
LEMMA PrefixGrows ==
  ASSUME NEW a \in Seq(Calls), NEW s \in Seq(Calls), NEW r \in Seq(Calls), IsPrefix(a, s)
  PROVE  IsPrefix(a, s \o r)
<1>1. /\ s \o r \in Seq(Calls) /\ Len(s \o r) = Len(s) + Len(r)
      /\ \A i \in 1..Len(s) : (s \o r)[i] = s[i]
  BY ConcatProperties
<1>2. Len(a) \in Nat /\ Len(s) \in Nat /\ Len(r) \in Nat /\ Len(a) <= Len(s)
  BY DEF IsPrefix
<1>3. SubSeq(s, 1, Len(a)) = SubSeq(s \o r, 1, Len(a))
  BY <1>1, <1>2
<1> QED BY <1>1, <1>2, <1>3 DEF IsPrefix

LEMMA AppendedBlocks ==
  ASSUME TypeOK, NEW p \in Payloads, ordered' = Append(ordered, p), NEW h \in Nat
  PROVE  /\ \A k \in 0..Len(ordered) : Blocks(h, k)' = Blocks(h, k)
         /\ \E r \in Seq(Calls) : Script(h)' = Script(h) \o r
         /\ Script(h) \in Seq(Calls)
<1> DEFINE l == Len(ordered)
<1>1. /\ ordered \in Seq(Payloads) /\ l \in Nat /\ Len(ordered') = l + 1
      /\ ordered' \in Seq(Payloads) /\ ordered'[l + 1] = p
      /\ \A j \in 1..l : ordered'[j] = ordered[j]
  BY DEF TypeOK
<1> HIDE DEF l
<1>2. ASSUME NEW k \in 0..l PROVE Blocks(h, k)' = Blocks(h, k)
  <2>1. \A j \in 1..k : ordered'[j] = ordered[j]
    BY <1>1, <1>2
  <2> QED BY <2>1 DEF Blocks
<1>3. Blocks(h, l) \in Seq(Calls) /\ Script(h) = Blocks(h, l)
  BY <1>1, BlocksType, ScriptIsBlocks DEF l
<1>4. Script(h)' = Blocks(h, l) \o BlockCalls(h + (l + 1), p)
  <2> DEFINE F(j) == BlockCalls(h + j, ordered'[j])
             s == [j \in 1..l |-> F(j)]
             t == [j \in 1..l + 1 |-> F(j)]
  <2>1. Script(h)' = FlattenSeq(t)
    <3>1. DOMAIN ordered' = 1..l + 1
      BY <1>1
    <3> QED BY <3>1 DEF Script
  <2>2. Blocks(h, l) = FlattenSeq(s)
    <3>1. s = [j \in 1..l |-> BlockCalls(h + j, ordered[j])]
      BY <1>1
    <3> HIDE DEF s
    <3> QED BY <3>1 DEF Blocks
  <2>3. \A j \in 1..l + 1 : F(j) \in Seq(Calls)
    <3> SUFFICES ASSUME NEW j \in 1..l + 1 PROVE F(j) \in Seq(Calls)
      OBVIOUS
    <3>1. h + j \in Nat /\ ordered'[j] \in Payloads
      BY <1>1
    <3> QED BY <3>1, BlockCallsType
  <2> HIDE DEF F
  <2>4. /\ s \in Seq(Seq(Calls)) /\ t \in Seq(Seq(Calls))
        /\ Len(s) = l /\ Len(t) = l + 1 /\ F(l + 1) \in Seq(Calls)
        /\ \A i \in 1..l : t[i] = s[i]
        /\ t[l + 1] = F(l + 1)
    BY <1>1, <2>3
  <2> HIDE DEF s, t
  <2>5. /\ Append(s, F(l + 1)) \in Seq(Seq(Calls))
        /\ Len(Append(s, F(l + 1))) = l + 1
        /\ \A i \in 1..l : Append(s, F(l + 1))[i] = s[i]
        /\ Append(s, F(l + 1))[l + 1] = F(l + 1)
    BY <2>4, AppendProperties
  <2>6. \A i \in 1..l + 1 : i \in 1..l \/ i = l + 1
    BY <1>1
  <2>7. t = Append(s, F(l + 1))
    BY <2>4, <2>5, <2>6, SeqEqual
  <2>8. FlattenSeq(t) = FlattenSeq(s) \o F(l + 1)
    BY <2>4, <2>7, FlattenAppend
  <2> QED BY <1>1, <2>1, <2>2, <2>8 DEF F
<1>5. BlockCalls(h + (l + 1), p) \in Seq(Calls)
  <2>1. h + (l + 1) \in Nat
    BY <1>1
  <2> QED BY <2>1, BlockCallsType
<1> QED BY <1>2, <1>3, <1>4, <1>5 DEF l

LEMMA OutputExecutes ==
  ASSUME Typed, \A n \in Nodes : Executes(n), NEW m \in Nodes, Output(m)
  PROVE  \A n \in Nodes : Executes(n)'
<1>1. \A n \in Nodes : Untouched(n)
  BY DEF Output, Untouched
<1>2. CASE UNCHANGED ordered
  BY <1>1, <1>2, UntouchedExecutes
<1>3. CASE \E p \in Payloads : ordered' = Append(ordered, p)
  <2>1. PICK p \in Payloads : ordered' = Append(ordered, p)
    BY <1>3
  <2> SUFFICES ASSUME NEW n \in Nodes PROVE Executes(n)'
    OBVIOUS
  <2>2. TypeOK /\ InHand(n) /\ Executes(n) /\ calls[n] \in Seq(Calls)
    BY DEF Typed, TypeOK
  <2>3. /\ taken[n] \in 0..Len(ordered) /\ Len(ordered) \in Nat
        /\ pc[n] \notin {"select", "query"} =>
             /\ taken[n] - 1 \in 0..Len(ordered)
             /\ ordered'[taken[n]] = ordered[taken[n]]
    <3>1. ordered \in Seq(Payloads) /\ taken[n] \in Nat /\ received[n] \in Nat
      BY <2>2 DEF TypeOK
    <3>2. Len(ordered) \in Nat /\ \A j \in 1..Len(ordered) : ordered'[j] = ordered[j]
      BY <2>1, <3>1
    <3>3. taken[n] <= Len(ordered)
      BY <2>2, <3>1, <3>2 DEF InHand
    <3>4. ASSUME pc[n] \notin {"select", "query"}
          PROVE  taken[n] - 1 \in 0..Len(ordered) /\ taken[n] \in 1..Len(ordered)
      BY <2>2, <3>1, <3>2, <3>3, <3>4 DEF InHand
    <3> QED BY <3>1, <3>2, <3>3, <3>4
  <2>4. ASSUME NEW h \in Heights, Follows(n, h) PROVE Follows(n, h)'
    <3>1. h \in Nat
      BY HeightsAreNat
    <3>2. \A k \in 0..Len(ordered) : Blocks(h, k)' = Blocks(h, k)
      BY <2>1, <2>2, <3>1, AppendedBlocks
    <3>3. Untouched(n)
      BY <1>1
    <3>4. pc[n] \in {"select", "query"} => Blocks(h, taken[n])' = Blocks(h, taken[n])
      <4>1. PICK k \in 0..Len(ordered) : k = taken[n]
        BY <2>3
      <4> QED BY <3>2, <3>3, <4>1 DEF Untouched, Blocks
    <3>5. ASSUME pc[n] \notin {"select", "query"}
          PROVE  /\ Before(n, h)' = Before(n, h) /\ Begun(n, h)' = Begun(n, h)
                 /\ AllDelivered(n, h)' = AllDelivered(n, h)
                 /\ \A done : Left(n, done) => Left(n, done)'
      <4>1. PICK k \in 0..Len(ordered) : k = taken[n] - 1
        BY <2>3, <3>5
      <4>2. Before(n, h)' = Before(n, h)
        BY <3>2, <3>3, <4>1 DEF Untouched, Blocks, Before
      <4>3. ordered'[taken'[n]] = ordered[taken[n]]
        BY <2>3, <3>3, <3>5 DEF Untouched
      <4> QED BY <3>3, <4>2, <4>3 DEF Untouched, Begun, AllDelivered, Left, Reading
    <3> QED BY <2>4, <3>3, <3>4, <3>5 DEF Follows, Untouched
  <2>5. ASSUME NEW h \in Heights, IsPrefix(calls[n], Script(h))
        PROVE  IsPrefix(calls[n], Script(h))'
    <3>1. h \in Nat
      BY HeightsAreNat
    <3>2. PICK r \in Seq(Calls) : Script(h)' = Script(h) \o r /\ Script(h) \in Seq(Calls)
      BY <2>1, <2>2, <3>1, AppendedBlocks
    <3>3. IsPrefix(calls[n], Script(h) \o r)
      BY <2>2, <2>5, <3>2, PrefixGrows
    <3>4. calls'[n] = calls[n]
      BY <1>1 DEF Untouched
    <3> QED BY <3>2, <3>3, <3>4
  <2>6. Untouched(n)
    BY <1>1
  <2> QED BY <2>2, <2>4, <2>5, <2>6 DEF Executes, Untouched
<1> QED BY <1>2, <1>3 DEF Output

(* What the script says of a node stays when the node keeps its place.      *)
LEMMA ScriptStays ==
  ASSUME NEW n \in Nodes, NEW h, UNCHANGED ordered, taken'[n] = taken[n],
         height'[n] = height[n]
  PROVE  /\ Blocks(h, taken[n])' = Blocks(h, taken[n])
         /\ Before(n, h)' = Before(n, h) /\ Begun(n, h)' = Begun(n, h)
         /\ AllDelivered(n, h)' = AllDelivered(n, h) /\ Script(h)' = Script(h)
BY DEF Blocks, Before, Begun, AllDelivered, Script

(* A call that is handled is the last one.                                  *)
LEMMA HandledLast ==
  ASSUME Typed, NEW m \in Nodes, NEW call \in Calls, Handled(m, call)
  PROVE  /\ calls'[m] = calls[m] \o <<call>> /\ calls[m] \in Seq(Calls)
         /\ \A n \in Nodes : n # m => calls'[n] = calls[n]
<1>1. calls \in [Nodes -> Seq(Calls)]
  BY DEF Typed, TypeOK
<1>2. calls[m] \in Seq(Calls) /\ calls'[m] = Append(calls[m], call)
  BY <1>1 DEF Handled
<1>3. Append(calls[m], call) = calls[m] \o <<call>>
  BY <1>2, AppendIsConcat
<1> QED BY <1>1, <1>2, <1>3 DEF Handled

LEMMA QuietExecutes ==
  ASSUME Typed, \A n \in Nodes : Executes(n),
         \/ \E m \in Nodes : Synchronized(m)
         \/ \E c \in Clients : Ask(c) \/ Send(c) \/ HangUp(c)
  PROVE  \A n \in Nodes : Executes(n)'
<1>1. UNCHANGED <<ordered, status, height, taken, pc, batches, calls>>
  BY DEF Synchronized, Ask, Send, HangUp, environment, api
<1> QED BY <1>1, UntouchedExecutes DEF Untouched

LEMMA StartExecutes ==
  ASSUME Typed, \A n \in Nodes : Executes(n), NEW m \in Nodes,
         Start(m) \/ StartWithoutInfo(m) \/ StartFails(m)
  PROVE  \A n \in Nodes : Executes(n)'
<1>1. /\ UNCHANGED <<ordered, taken, pc, batches, calls>>
      /\ calls[m] = << >> /\ taken[m] = 0 /\ pc[m] = "select"
  BY DEF Start, StartWithoutInfo, StartFails, environment, Executes
<1>2. \A n \in Nodes : n # m => Untouched(n)
  BY <1>1 DEF Start, StartWithoutInfo, StartFails, Set, Untouched, Typed, TypeOK
<1>3. CASE Start(m) \/ StartWithoutInfo(m)
  <2>1. PICK h \in Heights : status'[m] = "running" /\ height'[m] = h
    <3>1. CASE Start(m)
      BY <3>1, HeightsAreNat DEF Start, Set, Typed, TypeOK
    <3>2. CASE StartWithoutInfo(m)
      BY <3>2 DEF StartWithoutInfo, Heights, Set, Typed, TypeOK
    <3> QED BY <1>3, <3>1, <3>2
  <2>2. Blocks(h, taken[m])' = << >>
    <3>1. Blocks(h, 0) = << >>
      BY NoBlocks
    <3> QED BY <1>1, <3>1 DEF Blocks
  <2>3. h = h + 0
    BY HeightsAreNat
  <2>4. Follows(m, h)'
    BY <1>1, <2>1, <2>2, <2>3 DEF Follows
  <2>5. Executes(m)'
    BY <2>1, <2>4 DEF Executes
  <2> QED BY <1>1, <1>2, <2>5, OthersExecute
<1>4. CASE StartFails(m)
  <2>1. status'[m] = "ended"
    BY <1>4 DEF StartFails, Set, Typed, TypeOK
  <2>2. Script(AppHeight)' = Script(AppHeight) /\ Script(AppHeight) \in Seq(Calls)
    <3>1. ordered \in Seq(Payloads) /\ TypeOK /\ AppHeight \in Nat
      BY EngineAssumption DEF Typed, TypeOK
    <3>2. Len(ordered) \in 0..Len(ordered)
      BY <3>1
    <3>3. Script(AppHeight) = Blocks(AppHeight, Len(ordered))
      BY <3>1, ScriptIsBlocks
    <3>4. Blocks(AppHeight, Len(ordered)) \in Seq(Calls)
      BY <3>1, <3>2, BlocksType
    <3> QED BY <1>1, <3>3, <3>4 DEF Script
  <2>3. IsPrefix(<< >>, Script(AppHeight))
    <3>1. << >> \o Script(AppHeight) = Script(AppHeight) /\ << >> \in Seq(Calls)
      BY <2>2, ConcatEmptySeq
    <3> QED BY <2>2, <3>1, PrefixOfConcat
  <2>4. IsPrefix(calls[m], Script(AppHeight))'
    BY <1>1, <2>2, <2>3
  <2>5. Executes(m)'
    BY <2>1, <2>4, HeightsAreNat DEF Executes
  <2> QED BY <1>1, <1>2, <2>5, OthersExecute
<1> QED BY <1>3, <1>4

LEMMA TakeExecutes ==
  ASSUME Typed, \A n \in Nodes : Executes(n), NEW m \in Nodes, TakeCertificate(m)
  PROVE  \A n \in Nodes : Executes(n)'
<1>1. /\ UNCHANGED <<ordered, status, batches, calls>>
      /\ status[m] = "running" /\ pc[m] = "select"
      /\ pc'[m] = "begin" /\ height'[m] = height[m] + 1 /\ taken'[m] = taken[m] + 1
  BY DEF TakeCertificate, At, environment, Set, Typed, TypeOK
<1>2. \A n \in Nodes : n # m => Untouched(n)
  BY DEF TakeCertificate, environment, Set, Untouched, Typed, TypeOK
<1>3. PICK h \in Heights : Follows(m, h)
  BY <1>1 DEF Executes
<1>4. taken[m] \in Nat /\ height[m] \in Nat /\ h \in Nat
  BY HeightsAreNat DEF Typed, TypeOK
<1>5. height'[m] = h + taken'[m] /\ taken'[m] - 1 = taken[m]
  BY <1>1, <1>3, <1>4 DEF Follows
<1>6. Before(m, h)' = Blocks(h, taken[m])
  BY <1>1, <1>5 DEF Before, Blocks
<1>7. calls[m] = Blocks(h, taken[m])
  BY <1>1, <1>3 DEF Follows
<1>8. Follows(m, h)'
  BY <1>1, <1>5, <1>6, <1>7 DEF Follows
<1>9. Executes(m)'
  BY <1>1, <1>8 DEF Executes
<1> QED BY <1>1, <1>2, <1>9, OthersExecute

LEMMA QueryExecutes ==
  ASSUME Typed, \A n \in Nodes : Executes(n), NEW m \in Nodes,
         TakeQuery(m) \/ AnswerQuery(m)
  PROVE  \A n \in Nodes : Executes(n)'
<1>1. /\ UNCHANGED <<ordered, status, height, taken, batches, calls>>
      /\ status[m] = "running" /\ pc[m] \in {"select", "query"}
      /\ pc'[m] \in {"select", "query"}
  BY DEF TakeQuery, AnswerQuery, At, environment, Set, Typed, TypeOK
<1>2. \A n \in Nodes : n # m => Untouched(n)
  BY DEF TakeQuery, AnswerQuery, environment, Set, Untouched, Typed, TypeOK
<1>3. PICK h \in Heights : Follows(m, h)
  BY <1>1 DEF Executes
<1>4. calls[m] = Blocks(h, taken[m]) /\ Blocks(h, taken[m])' = Blocks(h, taken[m])
  BY <1>1, <1>3, ScriptStays DEF Follows
<1>5. Follows(m, h)'
  BY <1>1, <1>3, <1>4 DEF Follows
<1>6. Executes(m)'
  BY <1>1, <1>5 DEF Executes
<1> QED BY <1>1, <1>2, <1>6, OthersExecute

LEMMA BeginExecutes ==
  ASSUME Typed, \A n \in Nodes : Executes(n), NEW m \in Nodes, CallBegin(m)
  PROVE  \A n \in Nodes : Executes(n)'
<1>1. /\ UNCHANGED <<ordered, status, height, taken, batches>>
      /\ status[m] = "running" /\ pc[m] = "begin" /\ pc'[m] = "reconstruct"
  BY DEF CallBegin, At, environment, Set, Typed, TypeOK
<1>2. BeginBlock(height[m]) \in Calls
  BY DEF Typed, TypeOK, Calls, BeginBlock
<1>3. /\ calls'[m] = calls[m] \o <<BeginBlock(height[m])>>
      /\ \A n \in Nodes : n # m => calls'[n] = calls[n]
  BY <1>2, HandledLast DEF CallBegin
<1>4. \A n \in Nodes : n # m => Untouched(n)
  BY <1>1, <1>3 DEF CallBegin, Set, Untouched, Typed, TypeOK
<1>5. PICK h \in Heights : Follows(m, h)
  BY <1>1 DEF Executes
<1>6. Begun(m, h)' = Begun(m, h)
  BY <1>1, ScriptStays
<1>7. calls'[m] = Begun(m, h)
  BY <1>1, <1>3, <1>5 DEF Follows, Begun
<1>8. Follows(m, h)'
  BY <1>1, <1>5, <1>6, <1>7 DEF Follows
<1>9. Executes(m)'
  BY <1>1, <1>8 DEF Executes
<1> QED BY <1>1, <1>4, <1>9, OthersExecute

LEMMA ReconstructExecutes ==
  ASSUME Typed, \A n \in Nodes : Executes(n), NEW m \in Nodes, Reconstruct(m)
  PROVE  \A n \in Nodes : Executes(n)'
<1> DEFINE p == ordered[taken[m]]
<1>1. /\ UNCHANGED <<ordered, status, height, taken, calls>>
      /\ status[m] = "running" /\ pc[m] = "reconstruct" /\ pc'[m] = "deliver"
      /\ batches'[m] = [i \in DOMAIN p |-> Lookup(m, p[i])]
  BY DEF Reconstruct, At, environment, Set, Typed, TypeOK
<1>2. \A n \in Nodes : n # m => Untouched(n)
  BY DEF Reconstruct, environment, Set, Untouched, Typed, TypeOK
<1>3. PICK h \in Heights : Follows(m, h)
  BY <1>1 DEF Executes
<1>4. height[m] = h + taken[m] /\ calls[m] = Begun(m, h)
  BY <1>1, <1>3 DEF Follows
<1>5. p \in Payloads /\ p \in Seq(Batches) /\ Begun(m, h) \in Seq(Calls)
  BY <1>1, <1>4, InBlock, EngineAssumption
<1>6. Reading(m, p)'
  <2>1. Len(batches'[m]) = Len(p) /\ DOMAIN p = 1..Len(p)
    BY <1>1, <1>5
  <2>2. \A k \in 1..Len(p) : batches'[m][k] \in {NotFound, <<"ok", p[k]>>}
    BY <1>1, <2>1 DEF Lookup
  <2> QED BY <1>1, <1>5, <2>1, <2>2 DEF Reading, NotFound
<1>7. /\ << >> \in Seq(Calls) /\ << >> \o Transactions(p) = Transactions(p)
      /\ Begun(m, h) = Begun(m, h) \o << >>
  <2>1. Transactions(p) \in Seq(Calls)
    BY <1>5, TransactionsType
  <2> QED BY <1>5, <2>1, ConcatEmptySeq
<1>8. Left(m, << >>)'
  <2>1. p' = p
    BY <1>1
  <2>2. << >> \o Transactions(p) = Transactions(p')
    BY <1>7, <2>1
  <2> QED BY <1>6, <2>1, <2>2 DEF Left
<1>9. Begun(m, h)' = Begun(m, h)
  BY <1>1, ScriptStays
<1>10. Follows(m, h)'
  BY <1>1, <1>4, <1>7, <1>8, <1>9 DEF Follows
<1>11. Executes(m)'
  BY <1>1, <1>10 DEF Executes
<1> QED BY <1>1, <1>2, <1>11, OthersExecute

LEMMA DeliveredExecutes ==
  ASSUME Typed, \A n \in Nodes : Executes(n), NEW m \in Nodes, Delivered(m)
  PROVE  \A n \in Nodes : Executes(n)'
<1>1. /\ UNCHANGED <<ordered, status, height, taken, batches, calls>>
      /\ status[m] = "running" /\ pc[m] = "deliver" /\ pc'[m] = "end"
      /\ batches[m] = << >>
  BY DEF Delivered, At, environment, Set, Typed, TypeOK
<1>2. \A n \in Nodes : n # m => Untouched(n)
  BY DEF Delivered, environment, Set, Untouched, Typed, TypeOK
<1>3. PICK h \in Heights : Follows(m, h)
  BY <1>1 DEF Executes
<1>4. PICK done \in Seq(Calls) : calls[m] = Begun(m, h) \o done /\ Left(m, done)
  BY <1>1, <1>3 DEF Follows
<1>5. PICK rest : Reading(m, rest)
                  /\ done \o Transactions(rest) = Transactions(ordered[taken[m]])
  BY <1>4 DEF Left
<1>6. rest = << >>
  BY <1>1, <1>5 DEF Reading
<1>7. done = Transactions(ordered[taken[m]])
  BY <1>5, <1>6, NoTransactions, ConcatEmptySeq
<1>8. AllDelivered(m, h)' = AllDelivered(m, h) /\ calls[m] = AllDelivered(m, h)
  BY <1>1, <1>4, <1>7, ScriptStays DEF AllDelivered
<1>9. Follows(m, h)'
  BY <1>1, <1>3, <1>8 DEF Follows
<1>10. Executes(m)'
  BY <1>1, <1>9 DEF Executes
<1> QED BY <1>1, <1>2, <1>10, OthersExecute

LEMMA EndExecutes ==
  ASSUME Typed, \A n \in Nodes : Executes(n), NEW m \in Nodes, CallEnd(m)
  PROVE  \A n \in Nodes : Executes(n)'
<1>1. /\ UNCHANGED <<ordered, status, height, taken, batches>>
      /\ status[m] = "running" /\ pc[m] = "end" /\ pc'[m] = "commit"
  BY DEF CallEnd, At, environment, Set, Typed, TypeOK
<1>2. EndBlock(height[m]) \in Calls
  BY DEF Typed, TypeOK, Calls, EndBlock
<1>3. /\ calls'[m] = calls[m] \o <<EndBlock(height[m])>>
      /\ \A n \in Nodes : n # m => calls'[n] = calls[n]
  BY <1>2, HandledLast DEF CallEnd
<1>4. \A n \in Nodes : n # m => Untouched(n)
  BY <1>1, <1>3 DEF CallEnd, Set, Untouched, Typed, TypeOK
<1>5. PICK h \in Heights : Follows(m, h)
  BY <1>1 DEF Executes
<1>6. AllDelivered(m, h)' = AllDelivered(m, h)
  BY <1>1, ScriptStays
<1>7. calls'[m] = AllDelivered(m, h) \o <<EndBlock(height[m])>>
  BY <1>1, <1>3, <1>5 DEF Follows
<1>8. Follows(m, h)'
  BY <1>1, <1>5, <1>6, <1>7 DEF Follows
<1>9. Executes(m)'
  BY <1>1, <1>8 DEF Executes
<1> QED BY <1>1, <1>4, <1>9, OthersExecute

LEMMA CommitExecutes ==
  ASSUME Typed, \A n \in Nodes : Executes(n), NEW m \in Nodes, CallCommit(m)
  PROVE  \A n \in Nodes : Executes(n)'
<1>1. /\ UNCHANGED <<ordered, status, height, taken, batches>>
      /\ status[m] = "running" /\ pc[m] = "commit" /\ pc'[m] = "select"
  BY DEF CallCommit, At, environment, Set, Typed, TypeOK
<1>2. /\ calls'[m] = calls[m] \o <<Commit>>
      /\ \A n \in Nodes : n # m => calls'[n] = calls[n]
  BY HandledLast DEF CallCommit, Calls
<1>3. \A n \in Nodes : n # m => Untouched(n)
  BY <1>1, <1>2 DEF CallCommit, Set, Untouched, Typed, TypeOK
<1>4. PICK h \in Heights : Follows(m, h)
  BY <1>1 DEF Executes
<1>5. /\ height[m] = h + taken[m]
      /\ calls[m] = AllDelivered(m, h) \o <<EndBlock(height[m])>>
  BY <1>1, <1>4 DEF Follows
<1>6. calls'[m] = Blocks(h, taken[m]) /\ Blocks(h, taken[m])' = Blocks(h, taken[m])
  BY <1>1, <1>2, <1>5, InBlock, ScriptStays
<1>7. Follows(m, h)'
  BY <1>1, <1>5, <1>6 DEF Follows
<1>8. Executes(m)'
  BY <1>1, <1>7 DEF Executes
<1> QED BY <1>1, <1>3, <1>8, OthersExecute

LEMMA EndedExecutes ==
  ASSUME Typed, \A n \in Nodes : Executes(n), NEW m \in Nodes,
         DeliverFails(m) \/ NobodyWaits(m) \/ CallFails(m)
  PROVE  \A n \in Nodes : Executes(n)'
<1>1. /\ UNCHANGED <<ordered, height, taken, pc, batches>>
      /\ status[m] = "running" /\ status'[m] = "ended"
      /\ calls'[m] \in {calls[m], calls[m] \o Pending(m)}
  BY DEF DeliverFails, NobodyWaits, CallFails, At, environment, Set, Typed, TypeOK
<1>2. \A n \in Nodes : n # m => Untouched(n)
  BY DEF DeliverFails, NobodyWaits, CallFails, environment, Set, Untouched, Typed, TypeOK
<1>3. PICK h \in Heights : Follows(m, h)
  BY <1>1 DEF Executes
<1>4. IsPrefix(calls[m], Script(h)) /\ IsPrefix(calls[m] \o Pending(m), Script(h))
  BY <1>3, EndsInScript
<1>5. Script(h)' = Script(h)
  BY <1>1 DEF Script
<1>6. IsPrefix(calls[m], Script(h))'
  <2>1. IsPrefix(calls'[m], Script(h))
    BY <1>1, <1>4
  <2> QED BY <1>5, <2>1
<1>7. Executes(m)'
  BY <1>1, <1>6 DEF Executes
<1> QED BY <1>1, <1>2, <1>7, OthersExecute

(* The empty batch at the head of the rest is done with.                    *)
LEMMA SkipBatch ==
  ASSUME Typed, NEW m \in Nodes, Usable(m), NEW rest, Reading(m, rest),
         Head(rest) = << >>, batches'[m] = Tail(batches[m])
  PROVE  Reading(m, Tail(rest))' /\ Transactions(Tail(rest)) = Transactions(rest)
<1>1. /\ rest \in Seq(Batches) /\ rest # << >> /\ Len(rest) \in Nat /\ Len(rest) # 0
      /\ Len(rest) = Len(batches[m]) /\ batches[m] \in Seq(Reads) /\ batches[m] # << >>
      /\ Head(rest) # Malformed
  BY HeadOfRest
<1>2. /\ Tail(rest) \in Seq(Batches) /\ Len(Tail(rest)) = Len(rest) - 1
      /\ Len(Tail(batches[m])) = Len(rest) - 1
      /\ \A k \in 1..Len(rest) - 1 :
           Tail(rest)[k] = rest[k + 1] /\ Tail(batches[m])[k] = batches[m][k + 1]
  BY <1>1
<1>3. \A k \in 1..Len(rest) - 1 : k + 1 \in 1..Len(rest)
  BY <1>1
<1>4. Reading(m, Tail(rest))'
  BY <1>2, <1>3 DEF Reading, NotFound
<1>5. Of(Head(rest)) = << >>
  BY <1>1 DEF Of
<1>6. Transactions(Tail(rest)) \in Seq(Calls)
  BY <1>2, TransactionsType
<1>7. Transactions(rest) = << >> \o Transactions(Tail(rest))
  BY <1>1, <1>5, FirstTransactions
<1> QED BY <1>4, <1>6, <1>7, ConcatEmptySeq

(* The first transaction of the batch at the head of the rest is done with. *)
LEMMA SkipTransaction ==
  ASSUME Typed, NEW m \in Nodes, Usable(m), NEW rest, Reading(m, rest),
         Head(rest) # << >>,
         batches'[m] = [batches[m] EXCEPT ![1] = <<"ok", Tail(Head(rest))>>]
  PROVE  /\ DeliverTx(Head(Head(rest))) \in Calls
         /\ \E left : /\ Reading(m, left)' /\ Transactions(left) \in Seq(Calls)
                      /\ Transactions(rest) =
                           <<DeliverTx(Head(Head(rest)))>> \o Transactions(left)
<1> DEFINE b == Head(rest)
           left == [rest EXCEPT ![1] = Tail(b)]
<1>1. /\ rest \in Seq(Batches) /\ rest # << >> /\ Len(rest) \in Nat /\ Len(rest) # 0
      /\ Len(rest) = Len(batches[m]) /\ batches[m] \in Seq(Reads) /\ batches[m] # << >>
      /\ b \in Seq(Txs) /\ b # << >>
  BY HeadOfRest
<1>2. Tail(b) \in Batches /\ Head(b) \in Txs /\ 1 \in 1..Len(rest)
  BY <1>1 DEF Batches
<1> HIDE DEF b
<1>3. /\ left \in Seq(Batches) /\ Len(left) = Len(rest) /\ left[1] = Tail(b)
      /\ \A k \in 1..Len(rest) : k # 1 => left[k] = rest[k]
  BY <1>1, <1>2
<1>4. Tail(left) = Tail(rest) /\ Head(left) = Tail(b) /\ left # << >>
  BY <1>1, <1>3
<1>5. Reading(m, left)'
  <2>1. /\ Len(batches'[m]) = Len(rest) /\ batches'[m][1] = <<"ok", Tail(b)>>
        /\ \A k \in 1..Len(rest) : k # 1 => batches'[m][k] = batches[m][k]
    <3>1. PICK read \in Reads : read = <<"ok", Tail(b)>>
      BY <1>2 DEF Reads
    <3>2. batches'[m] = [batches[m] EXCEPT ![1] = read]
      BY <3>1 DEF b
    <3>3. /\ Len([batches[m] EXCEPT ![1] = read]) = Len(batches[m])
          /\ [batches[m] EXCEPT ![1] = read][1] = read
          /\ \A k \in 1..Len(batches[m]) :
               k # 1 => [batches[m] EXCEPT ![1] = read][k] = batches[m][k]
      BY <1>1, <1>2, ExceptSeq
    <3> QED BY <1>1, <3>1, <3>2, <3>3
  <2> HIDE DEF left
  <2>2. \A k \in 1..Len(left) : batches'[m][k] \in {NotFound, <<"ok", left[k]>>}
    BY <1>3, <2>1 DEF Reading
  <2> QED BY <1>3, <2>1, <2>2 DEF Reading, NotFound
<1> HIDE DEF left
<1>6. Transactions(left) = Of(Tail(b)) \o Transactions(Tail(rest))
      /\ Transactions(left) \in Seq(Calls)
  BY <1>3, <1>4, FirstTransactions, TransactionsType
<1>7. Transactions(rest) = (<<DeliverTx(Head(b))>> \o Of(Tail(b))) \o Transactions(Tail(rest))
  BY <1>1, FirstTransactions, FirstTransaction DEF b
<1>8. /\ DeliverTx(Head(b)) \in Calls /\ <<DeliverTx(Head(b))>> \in Seq(Calls)
      /\ Of(Tail(b)) \in Seq(Calls) /\ Transactions(Tail(rest)) \in Seq(Calls)
  <2>1. DeliverTx(Head(b)) \in Calls
    BY <1>2 DEF Calls
  <2>2. Tail(rest) \in Seq(Batches)
    BY <1>1
  <2>3. <<DeliverTx(Head(b))>> \in Seq(Calls)
    BY <2>1
  <2>4. Of(Tail(b)) \in Seq(Calls)
    BY <1>2, OfType
  <2>5. Transactions(Tail(rest)) \in Seq(Calls)
    BY <2>2, TransactionsType
  <2> QED BY <2>1, <2>3, <2>4, <2>5
<1> DEFINE x == <<DeliverTx(Head(b))>>
<1>9. Transactions(rest) = x \o Transactions(left)
  <2> HIDE DEF x
  <2> QED BY <1>6, <1>7, <1>8, Concat DEF x
<1> QED BY <1>5, <1>6, <1>8, <1>9 DEF b

LEMMA DeliverExecutes ==
  ASSUME Typed, \A n \in Nodes : Executes(n), NEW m \in Nodes, CallDeliver(m)
  PROVE  \A n \in Nodes : Executes(n)'
<1>1. /\ UNCHANGED <<ordered, status, height, taken, pc>>
      /\ status[m] = "running" /\ pc[m] = "deliver" /\ Usable(m)
  BY DEF CallDeliver, At, environment
<1>2. PICK h \in Heights : Follows(m, h)
  BY <1>1 DEF Executes
<1>3. height[m] = h + taken[m]
      /\ \E done \in Seq(Calls) : calls[m] = Begun(m, h) \o done /\ Left(m, done)
  BY <1>1, <1>2 DEF Follows
<1>4. PICK done \in Seq(Calls) : calls[m] = Begun(m, h) \o done /\ Left(m, done)
  BY <1>3
<1>5. PICK rest : Reading(m, rest)
                  /\ done \o Transactions(rest) = Transactions(ordered[taken[m]])
  BY <1>4 DEF Left
<1>6. Head(batches[m])[2] = Head(rest)
  BY <1>1, <1>5, HeadOfRest
<1>7. Begun(m, h)' = Begun(m, h) /\ Begun(m, h) \in Seq(Calls)
  BY <1>1, <1>3, ScriptStays, InBlock
<1>8. CASE Head(rest) = << >>
  <2>1. UNCHANGED calls /\ batches' = [batches EXCEPT ![m] = Tail(@)]
    BY <1>6, <1>8 DEF CallDeliver
  <2>2. /\ batches'[m] = Tail(batches[m])
        /\ \A n \in Nodes : n # m => Untouched(n)
    BY <1>1, <2>1 DEF Untouched, Typed, TypeOK
  <2>3. Reading(m, Tail(rest))' /\ Transactions(Tail(rest)) = Transactions(rest)
    BY <1>1, <1>5, <1>8, <2>2, SkipBatch
  <2>4. done \o Transactions(Tail(rest)) = Transactions(ordered'[taken'[m]])
    BY <1>1, <1>5, <2>3
  <2>5. Left(m, done)'
    BY <2>3, <2>4 DEF Left
  <2>6. Follows(m, h)'
    BY <1>1, <1>3, <1>4, <1>7, <2>1, <2>5 DEF Follows
  <2>7. Executes(m)'
    BY <1>1, <2>6 DEF Executes
  <2> QED BY <1>1, <2>2, <2>7, OthersExecute
<1>9. CASE Head(rest) # << >>
  <2> DEFINE x == DeliverTx(Head(Head(rest)))
  <2>1. /\ Handled(m, x)
        /\ batches' = [batches EXCEPT ![m][1] = <<"ok", Tail(Head(rest))>>]
    BY <1>6, <1>9 DEF CallDeliver
  <2>2. /\ batches'[m] = [batches[m] EXCEPT ![1] = <<"ok", Tail(Head(rest))>>]
        /\ \A n \in Nodes : n # m => batches'[n] = batches[n]
    BY <2>1 DEF Typed, TypeOK
  <2>3. /\ x \in Calls
        /\ \E left : /\ Reading(m, left)' /\ Transactions(left) \in Seq(Calls)
                     /\ Transactions(rest) = <<x>> \o Transactions(left)
    BY <1>1, <1>5, <1>9, <2>2, SkipTransaction
  <2>4. PICK left : /\ Reading(m, left)' /\ Transactions(left) \in Seq(Calls)
                    /\ Transactions(rest) = <<x>> \o Transactions(left)
    BY <2>3
  <2>5. /\ calls'[m] = calls[m] \o <<x>>
        /\ \A n \in Nodes : n # m => calls'[n] = calls[n]
    BY <2>1, <2>3, HandledLast
  <2>6. \A n \in Nodes : n # m => Untouched(n)
    BY <1>1, <2>2, <2>5 DEF Untouched
  <2>7. <<x>> \in Seq(Calls)
    BY <2>3
  <2> HIDE DEF x
  <2>8. /\ done \o <<x>> \in Seq(Calls)
        /\ done \o (<<x>> \o Transactions(left)) = (done \o <<x>>) \o Transactions(left)
    BY <2>4, <2>7, Concat
  <2>9. calls'[m] = Begun(m, h) \o (done \o <<x>>)
    BY <1>4, <1>7, <2>5, <2>7, Concat, SMTT(20)
  <2>10. (done \o <<x>>) \o Transactions(left) = Transactions(ordered'[taken'[m]])
    BY <1>1, <1>5, <2>4, <2>8
  <2>11. Left(m, done \o <<x>>)'
    BY <2>4, <2>10 DEF Left
  <2>12. Follows(m, h)'
    BY <1>1, <1>3, <1>7, <2>8, <2>9, <2>11 DEF Follows
  <2>13. Executes(m)'
    BY <1>1, <2>12 DEF Executes
  <2> QED BY <1>1, <2>6, <2>13, OthersExecute
<1> QED BY <1>8, <1>9

(* Every engine is in its script in every reachable state.                  *)
THEOREM InScript == Spec => [](\A n \in Nodes : Executes(n))
<1> DEFINE All == \A n \in Nodes : Executes(n)
<1>1. Init => All
  BY DEF Init, Executes
<1>2. Typed /\ All /\ [Next]_vars => All'
  <2> SUFFICES ASSUME Typed, \A n \in Nodes : Executes(n), [Next]_vars
               PROVE  \A n \in Nodes : Executes(n)'
    OBVIOUS
  <2>1. CASE UNCHANGED vars
    BY <2>1, UntouchedExecutes DEF vars, Untouched
  <2>2. CASE \E m \in Nodes : \/ Output(m) \/ Start(m) \/ StartWithoutInfo(m)
                              \/ StartFails(m) \/ TakeCertificate(m) \/ TakeQuery(m)
    BY <2>2, OutputExecutes, StartExecutes, TakeExecutes, QueryExecutes
  <2>3. CASE \E m \in Nodes : Run(m)
    BY <2>3, BeginExecutes, ReconstructExecutes, DeliverExecutes, DeliveredExecutes,
       EndExecutes, CommitExecutes, QueryExecutes, EndedExecutes DEF Run
  <2>4. CASE \E m \in Nodes : CallFails(m)
    BY <2>4, EndedExecutes
  <2>5. CASE \/ \E m \in Nodes : Synchronized(m)
             \/ \E c \in Clients : Ask(c) \/ Send(c) \/ HangUp(c)
    BY <2>5, QuietExecutes
  <2> QED BY <2>1, <2>2, <2>3, <2>4, <2>5 DEF Next
<1> QED BY <1>1, <1>2, Inductive, PTL DEF Spec

(***************************************************************************)
(* Every application is given exactly what the consensus has ordered, up   *)
(* to some call, however far stores lag behind and whatever batch or call  *)
(* fails.                                                                  *)
(***************************************************************************)
THEOREM ExecutesOrdered == Spec => []ExecutesWhatIsOrdered
<1>1. Typed /\ (\A n \in Nodes : Executes(n)) => ExecutesWhatIsOrdered
  <2> SUFFICES ASSUME Typed, NEW n \in Nodes, Executes(n)
               PROVE  \E h \in Heights : IsPrefix(calls[n], Script(h))
    BY DEF ExecutesWhatIsOrdered
  <2>1. CASE status[n] = "new"
    <3>1. ordered \in Seq(Payloads) /\ TypeOK /\ AppHeight \in Nat
      BY EngineAssumption DEF Typed, TypeOK
    <3>2. 0 \in 0..Len(ordered) /\ 0 \in Nat
      BY <3>1
    <3>3. Blocks(AppHeight, 0) = << >> \o << >> /\ << >> \in Seq(Calls)
      BY NoBlocks, ConcatEmptySeq
    <3>4. IsPrefix(<< >>, Script(AppHeight))
      BY <3>1, <3>2, <3>3, PrefixOfScript
    <3> QED BY <2>1, <3>4, HeightsAreNat DEF Executes
  <2>2. CASE status[n] = "running"
    BY <2>2, EndsInScript DEF Executes
  <2>3. CASE status[n] = "ended"
    BY <2>3 DEF Executes
  <2>4. status[n] \in {"new", "running", "ended"}
    BY DEF Typed, TypeOK
  <2> QED BY <2>1, <2>2, <2>3, <2>4
<1> QED BY <1>1, Inductive, InScript, PTL
=============================================================================
