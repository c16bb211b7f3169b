---------------------------- MODULE Hooks_proofs ----------------------------
(***************************************************************************)
(* Proofs about what happens inside single hooks of the application, which *)
(* the other modules take as one step each: info and commit on the height  *)
(* file, and the loops of prepare_proposal.  The two share nothing.        *)
(*                                                                         *)
(* THE HEIGHT FILE, for any number of info threads, commits, crashes and   *)
(* failing system calls.                                                   *)
(* The inductive invariant follows the life of the process: what the file  *)
(* may hold while it is off, while StarknetApp::new runs, and at each step *)
(* of a commit while it serves.                                            *)
(*                                                                         *)
(* TRIMMING, for any sizes, limits and width of usize.  The history        *)
(* variable sums makes the sum of a prefix a value, so that no induction   *)
(* over sequences is needed: the invariant says what total is in terms of  *)
(* sums.                                                                   *)
(***************************************************************************)
EXTENDS HeightFile, ProposalTrim, SequenceTheorems, TLAPS

(* What the height in the file is worth to the engine.                      *)
Level == IF pc[Committer] = "return" THEN acked + 1 ELSE acked

Counted ==
  /\ file \in Nat => file <= acked + 1
  /\ ~reset /\ file \in Nat => file >= acked
  /\ file = Missing => acked = 0

Off ==
  /\ \A t \in Threads : pc[t] = "idle"
  /\ Counted

(* Only Boot runs.  If it found no file it makes one with height 0.         *)
Booting ==
  /\ \A t \in Threads \ {Boot} : pc[t] = "idle"
  /\ pc[Boot] \in {"read", "truncate", "write", "return"}
  /\ Counted
  /\ pc[Boot] = "truncate" => height[Boot] = 0 /\ (~reset => file = Missing)
  /\ pc[Boot] = "write" => file = Empty /\ height[Boot] = 0 /\ (~reset => acked = 0)
  /\ pc[Boot] = "return" => file \in Nat /\ file = height[Boot]

(* A commit in a process where no file was taken for a missing one.         *)
Committing ==
  \/ pc[Committer] \in {"idle", "read"} /\ file = acked
  \/ pc[Committer] = "truncate" /\ file = acked /\ height[Committer] = acked + 1
  \/ pc[Committer] = "write" /\ file = Empty /\ height[Committer] = acked + 1
  \/ pc[Committer] = "return" /\ file = acked + 1
  \/ pc[Committer] = "failed" /\ file \in {acked, Empty}

(* An info thread writes the file only after it took it for a missing one.  *)
Serving ==
  /\ pc[Boot] = "idle"
  /\ \A t \in InfoThreads :
       pc[t] \in {"truncate", "write"} => reset /\ height[t] = 0
  /\ file # Missing
  /\ file \in Nat => file <= Level
  /\ file = Empty => \E t \in Threads : pc[t] \in {"write", "failed"}
  /\ pc[Committer] \in {"truncate", "write"} => height[Committer] <= acked + 1
  /\ ~reset => Committing

(* What info has answered is not ahead of what a later read can find.       *)
Reports ==
  \A t \in InfoThreads :
    /\ server # "serving" => /\ file \in Nat => reported[t] <= file
                             /\ file = Missing => reported[t] = 0
    /\ server = "boot" /\ pc[Boot] = "write" => reported[t] = 0
    /\ server = "serving" => reported[t] <= Level
    /\ server = "serving" /\ pc[t] = "return" =>
         reported[t] <= height[t] /\ height[t] <= Level

IInv ==
  /\ TypeOK
  /\ server = "off" => Off
  /\ server = "boot" => Booting
  /\ server = "serving" => Serving
  /\ ~reset => Reports

-----------------------------------------------------------------------------
LEMMA InitIInv == Init => IInv
<1> SUFFICES ASSUME Init PROVE IInv
  OBVIOUS
<1>1. TypeOK
  BY HeightFileAssumption DEF Init, TypeOK, Threads, Readers, Steps
<1>2. Off /\ Reports
  BY HeightFileAssumption DEF Init, Off, Counted, Reports, Threads, Readers
<1> QED BY <1>1, <1>2 DEF Init, IInv

LEMMA ThreadsApart ==
  /\ Boot \in Threads /\ Committer \in Threads /\ InfoThreads \subseteq Threads
  /\ Boot \notin InfoThreads /\ Committer \notin InfoThreads /\ Boot # Committer
BY HeightFileAssumption DEF Threads, Readers

LEMMA TypeStep == ASSUME TypeOK, [Next]_vars PROVE TypeOK'
<1> USE HeightFileAssumption, ThreadsApart DEF TypeOK, Goto, Steps, io
<1>1. CASE Start
  BY <1>1 DEF Start
<1>2. CASE Serve
  BY <1>2 DEF Serve
<1>3. CASE CommitBlock
  BY <1>3 DEF CommitBlock
<1>4. CASE IncrementRead \/ IncrementReadFails
  BY <1>4 DEF IncrementRead, IncrementReadFails, Fails
<1>5. ASSUME NEW t \in Threads, Truncate(t) \/ Write(t) \/ WriteFails(t) PROVE TypeOK'
  BY <1>5 DEF Truncate, Write, WriteFails, Ends, Fails
<1>6. CASE CommitReturns
  BY <1>6 DEF CommitReturns
<1>7. CASE Crash
  BY <1>7 DEF Crash
<1>8. ASSUME NEW t \in Readers, ReadHeight(t) \/ ReadIsError(t) \/ ReadUnreadable(t)
      PROVE  TypeOK'
  <2>1. t \in Threads
    BY DEF Threads
  <2>2. CASE ReadHeight(t)
    BY <2>1, <2>2 DEF ReadHeight
  <2>3. CASE ReadIsError(t)
    <3>1. \/ failures' = failures /\ reset' = reset
          \/ failures' = failures + 1 /\ reset' = TRUE
      BY <2>3, Zenon DEF ReadIsError, Fails
    <3>2. failures' \in Nat
      BY <3>1
    <3>3. reset' \in BOOLEAN
      BY <3>1, Zenon
    <3> QED BY <2>1, <2>3, <3>2, <3>3 DEF ReadIsError
  <2>4. CASE ReadUnreadable(t)
    BY <2>1, <2>4 DEF ReadUnreadable, Ends
  <2> QED BY <1>8, <2>2, <2>3, <2>4
<1>9. ASSUME NEW t \in InfoThreads, Info(t) \/ InfoReturns(t) PROVE TypeOK'
  BY <1>9 DEF Info, InfoReturns
<1>10. CASE UNCHANGED vars
  BY <1>10 DEF vars
<1> QED BY <1>1, <1>2, <1>3, <1>4, <1>5, <1>6, <1>7, <1>8, <1>9, <1>10
    DEF Next, Increment, Threads

(***************************************************************************)
(* The steps of the process: start, end of StarknetApp::new, crash.        *)
(***************************************************************************)
LEMMA StartIInv == ASSUME IInv, TypeOK', Start PROVE IInv'
BY ThreadsApart DEF Start, Goto, IInv, TypeOK, Off, Booting, Counted, Reports, io

LEMMA ServeIInv == ASSUME IInv, TypeOK', Serve PROVE IInv'
<1> USE ThreadsApart DEF IInv
<1>1. server = "boot" /\ Booting
  BY DEF Serve, Off, Serving, TypeOK
<1>2. Serving'
  BY <1>1, HeightFileAssumption
  DEF Serve, Goto, Booting, Serving, Committing, Level, TypeOK, io
<1>3. ~reset' => Reports'
  BY <1>1 DEF Serve, Goto, Booting, Reports, Level, TypeOK, io
<1> QED BY <1>2, <1>3 DEF Serve

LEMMA CrashIInv == ASSUME IInv, TypeOK', Crash PROVE IInv'
<1> USE ThreadsApart, HeightFileAssumption DEF IInv, io
<1>1. Counted'
  BY DEF Crash, Booting, Serving, Committing, Level, Counted, TypeOK
<1>2. Off'
  BY <1>1 DEF Crash, Off
<1>3. ~reset' => Reports'
  BY DEF Crash, Booting, Serving, Committing, Reports, Level, TypeOK
<1> QED BY <1>2, <1>3 DEF Crash

(***************************************************************************)
(* The steps of Boot in read_or_create.                                    *)
(***************************************************************************)
LEMMA BootIInv ==
  ASSUME IInv, TypeOK',
         \/ ReadHeight(Boot) \/ ReadIsError(Boot) \/ ReadUnreadable(Boot)
         \/ Truncate(Boot) \/ Write(Boot) \/ WriteFails(Boot)
  PROVE  IInv'
<1> USE ThreadsApart, HeightFileAssumption DEF IInv, Goto, Counted, io
<1>1. server = "boot" /\ Booting
  BY DEF ReadHeight, ReadIsError, ReadUnreadable, Truncate, Write, WriteFails, Off,
         Serving, TypeOK
<1>2. CASE ReadHeight(Boot)
  BY <1>1, <1>2 DEF ReadHeight, Booting, Reports, TypeOK
<1>3. CASE ReadIsError(Boot)
  BY <1>1, <1>3 DEF ReadIsError, Fails, Booting, Reports, TypeOK
<1>4. CASE ReadUnreadable(Boot) \/ WriteFails(Boot)
  <2>1. Off'
    <3>1. UNCHANGED <<file, acked, reset>> /\ pc' = [pc EXCEPT ![Boot] = "idle"]
      BY <1>4 DEF ReadUnreadable, WriteFails, Ends
    <3> QED BY <1>1, <3>1 DEF Booting, Off, TypeOK
  <2>2. ~reset' => Reports'
    BY <1>1, <1>4 DEF ReadUnreadable, WriteFails, Ends, Booting, Reports, TypeOK
  <2> QED BY <1>4, <2>1, <2>2 DEF ReadUnreadable, WriteFails, Ends
<1>5. CASE Truncate(Boot)
  BY <1>1, <1>5 DEF Truncate, Booting, Reports, TypeOK
<1>6. CASE Write(Boot)
  BY <1>1, <1>6 DEF Write, Booting, Reports, TypeOK
<1> QED BY <1>2, <1>3, <1>4, <1>5, <1>6

(***************************************************************************)
(* The steps of an info thread.  Once reset, only the bounds on the height *)
(* in the file have to be kept.                                            *)
(***************************************************************************)
LEMMA InfoIInv ==
  ASSUME IInv, TypeOK', NEW t \in InfoThreads,
         \/ Info(t) \/ InfoReturns(t)
         \/ ReadHeight(t) \/ ReadIsError(t) \/ ReadUnreadable(t)
         \/ Truncate(t) \/ Write(t) \/ WriteFails(t)
  PROVE  IInv'
<1> USE ThreadsApart, HeightFileAssumption DEF IInv, Goto, io
<1>1. server = "serving" /\ Serving /\ t # Boot /\ t # Committer
  BY DEF Info, Listening, InfoReturns, ReadHeight, ReadIsError, ReadUnreadable,
         Truncate, Write, WriteFails, Off, Booting, TypeOK
<1>2. CASE Info(t)
  BY <1>1, <1>2 DEF Info, Serving, Committing, Reports, Level, TypeOK
<1>3. CASE InfoReturns(t)
  BY <1>1, <1>3 DEF InfoReturns, Serving, Committing, Reports, Level, TypeOK
<1>4. CASE ReadHeight(t)
  BY <1>1, <1>4 DEF ReadHeight, Serving, Committing, Reports, Level, TypeOK
<1>5. CASE ReadIsError(t)
  BY <1>1, <1>5 DEF ReadIsError, Serving, Committing, Level, TypeOK
<1>6. CASE ReadUnreadable(t)
  BY <1>1, <1>6 DEF ReadUnreadable, Ends, Serving, Committing, Reports, Level, TypeOK
<1>7. CASE Truncate(t)
  BY <1>1, <1>7 DEF Truncate, Serving, Level, TypeOK
<1>8. CASE Write(t)
  BY <1>1, <1>8 DEF Write, Serving, Level, TypeOK
<1>9. CASE WriteFails(t)
  BY <1>1, <1>9 DEF WriteFails, Ends, Serving, Level, TypeOK
<1> QED BY <1>2, <1>3, <1>4, <1>5, <1>6, <1>7, <1>8, <1>9

(***************************************************************************)
(* The steps of a commit.                                                  *)
(***************************************************************************)
LEMMA CommitIInv ==
  ASSUME IInv, TypeOK', CommitBlock \/ Increment
  PROVE  IInv'
<1> USE ThreadsApart, HeightFileAssumption DEF IInv, Goto, io
<1>1. server = "serving" /\ Serving
  BY DEF CommitBlock, Listening, Increment, IncrementRead, IncrementReadFails,
         Truncate, Write, WriteFails, CommitReturns, Off, Booting, TypeOK
<1>2. CASE CommitBlock
  BY <1>1, <1>2 DEF CommitBlock, Serving, Committing, Reports, Level, TypeOK
<1>3. CASE IncrementRead
  BY <1>1, <1>3 DEF IncrementRead, Serving, Committing, Reports, Level, TypeOK
<1>4. CASE IncrementReadFails
  BY <1>1, <1>4 DEF IncrementReadFails, Serving, Committing, Reports, Level, TypeOK
<1>5. CASE Truncate(Committer)
  BY <1>1, <1>5 DEF Truncate, Serving, Committing, Reports, Level, TypeOK
<1>6. CASE Write(Committer)
  BY <1>1, <1>6 DEF Write, Serving, Committing, Reports, Level, TypeOK
<1>7. CASE WriteFails(Committer)
  BY <1>1, <1>7 DEF WriteFails, Ends, Serving, Committing, Reports, Level, TypeOK
<1>8. CASE CommitReturns
  BY <1>1, <1>8 DEF CommitReturns, Serving, Committing, Reports, Level, TypeOK
<1> QED BY <1>2, <1>3, <1>4, <1>5, <1>6, <1>7, <1>8 DEF Increment

(* The invariant of every reachable state.                                  *)
THEOREM Inductive == Spec => []IInv
<1>1. IInv /\ [Next]_vars => IInv'
  <2> SUFFICES ASSUME IInv, [Next]_vars PROVE IInv'
    OBVIOUS
  <2>1. TypeOK'
    BY TypeStep DEF IInv
  <2>2. CASE UNCHANGED vars
    BY <2>2 DEF vars, io, IInv, TypeOK, Off, Booting, Counted, Serving, Committing, Reports,
                Level
  <2> QED BY <2>1, <2>2, StartIInv, ServeIInv, CrashIInv, BootIInv, InfoIInv, CommitIInv
      DEF Next, Readers
<1> QED BY InitIInv, <1>1, PTL DEF Spec

(***************************************************************************)
(* Types.                                                                  *)
(***************************************************************************)
THEOREM TypeCorrect == Spec => []TypeOK
BY Inductive, PTL DEF IInv

(***************************************************************************)
(* increment reads a height, unless another thread has taken the file for  *)
(* a missing one: not over crashes, nor over any other failing call.       *)
(***************************************************************************)
THEOREM CommitReadsAHeight == Spec => []CommitFindsAHeight
<1>1. IInv => CommitFindsAHeight
  BY ThreadsApart
  DEF IInv, TypeOK, Off, Booting, Serving, Committing, CommitFindsAHeight
<1> QED BY Inductive, <1>1, PTL

(***************************************************************************)
(* No block is counted twice, over any number of crashes and failing       *)
(* calls, and none is lost but where a file was taken for a missing one.   *)
(***************************************************************************)
THEOREM CountsOnce == Spec => []EveryBlockCountsOnce
<1>1. IInv => EveryBlockCountsOnce
  <2> SUFFICES ASSUME IInv PROVE EveryBlockCountsOnce
    OBVIOUS
  <2> USE ThreadsApart, HeightFileAssumption DEF IInv, TypeOK
  <2>1. CASE server = "serving"
    BY <2>1 DEF Serving, Committing, Level, EveryBlockCountsOnce
  <2>2. CASE server # "serving"
    BY <2>2 DEF Off, Booting, Counted, EveryBlockCountsOnce
  <2> QED BY <2>1, <2>2
<1> QED BY Inductive, <1>1, PTL

(***************************************************************************)
(* A file that an earlier process has torn stops the boot of the next.     *)
(***************************************************************************)
THEOREM TornFileStopsBoot == Spec => []TornFileNeverServed
<1>1. IInv => TornFileNeverServed
  BY DEF IInv, Serving, TornFileNeverServed
<1> QED BY Inductive, <1>1, PTL

(***************************************************************************)
(* The heights an engine is told in one thread never go back.              *)
(***************************************************************************)
THEOREM ReportsAreMonotone == Spec => ReportsNeverGoBack
<1>1. ASSUME IInv, [Next]_vars
      PROVE  [~reset' => \A t \in InfoThreads : reported'[t] >= reported[t]]_vars
  <2>1. ASSUME NEW t \in InfoThreads, InfoReturns(t), ~reset'
        PROVE  \A u \in InfoThreads : reported'[u] >= reported[u]
    <3>1. server = "serving"
      BY <1>1, <2>1, ThreadsApart DEF InfoReturns, IInv, TypeOK, Off, Booting
    <3>2. reported[t] <= height[t]
      BY <1>1, <2>1, <3>1 DEF InfoReturns, IInv, Reports, io
    <3> QED BY <1>1, <2>1, <3>2, ThreadsApart DEF InfoReturns, IInv, TypeOK
  <2>2. ASSUME UNCHANGED reported
        PROVE  \A u \in InfoThreads : reported'[u] >= reported[u]
    BY <1>1, <2>2 DEF IInv, TypeOK
  <2> QED BY <1>1, <2>1, <2>2
      DEF Next, Start, Serve, CommitBlock, Increment, IncrementRead, IncrementReadFails,
          CommitReturns, Crash, ReadHeight, ReadIsError, ReadUnreadable, Truncate, Write,
          WriteFails, Info
<1> QED BY <1>1, Inductive, PTL DEF Spec, ReportsNeverGoBack

-----------------------------------------------------------------------------
Summing ==
  /\ txs = request
  /\ Len(sums) \in 1..Len(request) + 1
  /\ total = IF sums[Len(sums)] > UsizeMax THEN UsizeMax ELSE sums[Len(sums)]

Trimming ==
  LET k == Len(txs)
  IN  /\ Len(sums) = Len(request) + 1
      /\ k <= Len(request)
      /\ \A i \in 1..k : txs[i] = request[i]
      /\ Fits => /\ total = sums[k + 1]
                 /\ k < Len(request) => sums[k + 2] > Bound

TrimIInv ==
  /\ TrimTypeOK
  /\ sums # << >>
  /\ sums[1] = 0
  /\ \A i \in 1..Len(sums) - 1 : sums[i + 1] = sums[i] + request[i]
  /\ loop = "sum" => Summing
  /\ loop # "sum" => Trimming
  /\ loop = "done" => (Fits => total <= Bound)

LEMMA BoundIsLimit ==
  ASSUME max \in Limits PROVE AsUsize(max) = Bound /\ Bound \in 0..UsizeMax
BY TrimAssumption DEF AsUsize, Bound

LEMMA TrimInitIInv == TrimInit => TrimIInv
<1> SUFFICES ASSUME TrimInit PROVE TrimIInv
  OBVIOUS
<1>1. request \in Seq(Nat)
  <2>1. PICK k \in 0..MaxCount : request \in [1..k -> Sizes]
    BY DEF TrimInit, Requests
  <2>2. k \in Nat /\ Sizes \subseteq Nat
    BY TrimAssumption
  <2>3. request \in [1..k -> Nat]
    BY <2>1, <2>2
  <2> QED BY <2>2, <2>3
<1>2. sums = <<0>> /\ sums \in Seq(Nat) /\ Len(sums) = 1 /\ sums[1] = 0
  BY DEF TrimInit
<1> QED BY <1>1, <1>2, TrimAssumption DEF TrimInit, TrimIInv, TrimTypeOK, Summing

LEMMA AddIInv == ASSUME TrimIInv, Add PROVE TrimIInv'
<1> USE DEF TrimIInv, TrimTypeOK
<1> DEFINE k == Len(sums)
           next == sums[k] + request[k]
<1>1. /\ k \in 1..Len(request) /\ request[k] \in Nat /\ sums[k] \in Nat
      /\ Summing /\ Len(request) \in Nat
  BY SMTT(30) DEF Add, Summing
<1>2. sums' = Append(sums, next) /\ next \in Nat
  BY <1>1 DEF Add
<1>3. /\ sums' \in Seq(Nat) /\ Len(sums') = k + 1 /\ sums'[k + 1] = next
      /\ \A i \in 1..k : sums'[i] = sums[i]
  BY <1>1, <1>2
<1>4. total' = SaturatingAdd(total, request[k]) /\ UNCHANGED <<request, max, txs, loop>>
  BY DEF Add
<1>5. total' = IF next > UsizeMax THEN UsizeMax ELSE next
  BY <1>1, <1>4, TrimAssumption, SMTT(30) DEF Summing, SaturatingAdd
<1>6. Summing'
  BY <1>1, <1>3, <1>4, <1>5 DEF Summing
<1>7. total' \in 0..UsizeMax
  BY <1>2, <1>5, TrimAssumption
<1>8. ASSUME NEW i \in 1..Len(sums') - 1 PROVE sums'[i + 1] = sums'[i] + request'[i]
  <2>1. CASE i = k
    BY <1>1, <1>3, <1>4, <2>1
  <2>2. CASE i # k
    <3>1. i \in 1..k - 1 /\ i \in 1..k /\ i + 1 \in 1..k
      BY <1>1, <1>3, <2>2
    <3> QED BY <1>3, <1>4, <3>1
  <2> QED BY <2>1, <2>2
<1>9. loop' = "sum"
  BY <1>4 DEF Add
<1>10. TrimTypeOK'
  BY <1>3, <1>4, <1>7
<1>11. sums' # << >> /\ sums'[1] = 0
  BY <1>1, <1>3, SMTT(30)
<1> QED BY <1>6, <1>8, <1>9, <1>10, <1>11

LEMMA AddedIInv == ASSUME TrimIInv, Added PROVE TrimIInv'
<1> USE DEF TrimIInv, TrimTypeOK
<1>1. Summing /\ Len(sums) = Len(request) + 1
  BY DEF Added
<1>2. Trimming'
  BY <1>1 DEF Added, Summing, Trimming, Fits
<1> QED BY <1>2 DEF Added

LEMMA PopIInv == ASSUME TrimIInv, Pop PROVE TrimIInv'
<1> USE DEF TrimIInv, TrimTypeOK
<1> DEFINE k == Len(txs)
<1>1. Trimming /\ k \in Nat /\ k > 0 /\ k <= Len(request) /\ Len(request) \in Nat
  BY SMTT(30) DEF Pop, Trimming
<1>2. UNCHANGED <<request, max, sums, loop>> /\ loop = "trim"
  BY DEF Pop
<1>3. /\ txs' \in Seq(Nat) /\ Len(txs') = k - 1
      /\ \A i \in 1..k - 1 : txs'[i] = txs[i]
  <2>1. txs' = SubSeq(txs, 1, k - 1)
    BY DEF Pop
  <2>2. k - 1 \in Int /\ \A i \in 1..k - 1 : txs[i] \in Nat
    <3>1. \A i \in 1..k - 1 : i \in 1..k
      BY <1>1
    <3>2. \A i \in 1..k : txs[i] \in Nat
      OBVIOUS
    <3> QED BY <1>1, <3>1, <3>2
  <2>3. /\ SubSeq(txs, 1, k - 1) \in Seq(Nat)
        /\ Len(SubSeq(txs, 1, k - 1)) = IF 1 <= k - 1 THEN (k - 1) - 1 + 1 ELSE 0
        /\ \A i \in 1..(k - 1) - 1 + 1 : SubSeq(txs, 1, k - 1)[i] = txs[1 + i - 1]
    BY <2>2, SubSeqProperties
  <2>4. Len(txs') = k - 1
    <3>1. \A n \in Nat : n > 0 => (IF 1 <= n - 1 THEN (n - 1) - 1 + 1 ELSE 0) = n - 1
      OBVIOUS
    <3>2. Len(txs') = IF 1 <= k - 1 THEN (k - 1) - 1 + 1 ELSE 0
      BY <2>1, <2>3
    <3> QED BY <1>1, <3>1, <3>2
  <2>5. \A i \in 1..k - 1 : i \in 1..(k - 1) - 1 + 1 /\ 1 + i - 1 = i
    BY <1>1
  <2>6. \A i \in 1..k - 1 : txs'[i] = txs[i]
    BY <2>1, <2>3, <2>5
  <2> QED BY <2>1, <2>3, <2>4, <2>6
<1>4. txs[k] = request[k] /\ request[k] \in Nat
  <2>1. k \in 1..k /\ k \in 1..Len(request)
    BY <1>1
  <2>2. \A i \in 1..k : txs[i] = request[i]
    BY <1>1 DEF Trimming
  <2>3. request[k] \in Nat
    BY <2>1
  <2> QED BY <2>1, <2>2, <2>3
<1>5. total' = SaturatingSub(total, txs[k]) /\ total > Bound
  BY BoundIsLimit DEF Pop, TooLarge
<1>6. total' \in 0..UsizeMax
  <2>1. ASSUME NEW a \in 0..UsizeMax, NEW b \in Nat
        PROVE  SaturatingSub(a, b) \in 0..UsizeMax
    BY <2>1, TrimAssumption DEF SaturatingSub
  <2>2. total \in 0..UsizeMax /\ txs[k] \in Nat
    BY <1>1, <1>4 DEF TrimTypeOK
  <2> QED BY <1>5, <2>1, <2>2
<1>7. sums[k + 1] = sums[k] + request[k] /\ sums[k] \in Nat
  <2>1. k \in 1..Len(sums) - 1 /\ k \in 1..Len(sums)
    BY <1>1 DEF Trimming
  <2> QED BY <2>1
<1>8. ASSUME Fits PROVE total' = sums[k] /\ sums[k + 1] > Bound
  <2>1. total = sums[k + 1]
    BY <1>1, <1>8 DEF Trimming
  <2>2. ASSUME NEW a \in Nat, NEW b \in Nat PROVE SaturatingSub(a + b, b) = a
    BY DEF SaturatingSub
  <2>3. total' = SaturatingSub(sums[k] + request[k], request[k])
    BY <1>4, <1>5, <1>7, <2>1
  <2>4. total' = sums[k]
    BY <1>4, <1>7, <2>2, <2>3
  <2> QED BY <1>5, <2>1, <2>4
<1>9. Fits' = Fits /\ Bound' = Bound
  BY <1>2 DEF Fits, Bound
<1>10. Trimming'
  <2>1. /\ Len(txs') = k - 1 /\ Len(txs') + 1 = k /\ Len(txs') + 2 = k + 1
        /\ Len(txs') <= Len(request)
    BY <1>1, <1>3
  <2>2. \A i \in 1..k - 1 : txs'[i] = request[i]
    BY <1>1, <1>3 DEF Trimming
  <2>3. Fits' => total' = sums[k] /\ sums[k + 1] > Bound'
    BY <1>8, <1>9
  <2>4. Len(sums) = Len(request) + 1
    BY <1>1 DEF Trimming
  <2> QED BY <1>2, <2>1, <2>2, <2>3, <2>4 DEF Trimming
<1> QED BY <1>2, <1>3, <1>6, <1>10

LEMMA TrimmedIInv == ASSUME TrimIInv, Trimmed PROVE TrimIInv'
<1> USE DEF TrimIInv, TrimTypeOK
<1>1. Trimming /\ UNCHANGED <<request, max, txs, total, sums>> /\ loop = "trim" /\ loop' = "done"
  BY DEF Trimmed
<1>2. Fits' = Fits /\ Bound' = Bound
  BY <1>1 DEF Fits, Bound
<1>3. Fits => total <= Bound
  <2>1. CASE ~TooLarge
    BY <2>1, BoundIsLimit DEF TooLarge
  <2>2. CASE txs = << >>
    BY <1>1, <2>2, BoundIsLimit DEF Trimming
  <2> QED BY <2>1, <2>2 DEF Trimmed
<1> QED BY <1>1, <1>2, <1>3 DEF Trimming

(* The history variable says what total is, in every reachable state.       *)
THEOREM TrimInductive == TrimSpec => []TrimIInv
<1>1. TrimIInv /\ [TrimNext]_trim_vars => TrimIInv'
  <2>1. CASE UNCHANGED trim_vars
    BY <2>1 DEF trim_vars, TrimIInv, TrimTypeOK, Summing, Trimming, Fits, Bound
  <2> QED BY <2>1, AddIInv, AddedIInv, PopIInv, TrimmedIInv DEF TrimNext
<1> QED BY TrimInitIInv, <1>1, PTL DEF TrimSpec

(***************************************************************************)
(* Every variable keeps its type; above all, total is never outside usize, *)
(* which is what the saturating operations of both loops are for.          *)
(***************************************************************************)
THEOREM TrimTypeCorrect == TrimSpec => []TrimTypeOK
<1>1. TrimIInv => TrimTypeOK
  BY DEF TrimIInv
<1> QED BY TrimInductive, <1>1, PTL

(***************************************************************************)
(* What prepare_proposal returns is the longest prefix within the limit.   *)
(***************************************************************************)
THEOREM TrimIsLongestPrefix == TrimSpec => []LongestPrefix
<1>1. TrimIInv => LongestPrefix
  BY DEF TrimIInv, TrimTypeOK, Trimming, LongestPrefix
<1> QED BY TrimInductive, <1>1, PTL
=============================================================================
