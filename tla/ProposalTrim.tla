---------------------------- MODULE ProposalTrim ----------------------------
(***************************************************************************)
(* prepare_proposal (sequencer/src/abci/application.rs:357-381), one step  *)
(* of its loops at a time: the sizes of the transactions are added up, and *)
(* transactions are popped from the end while the sum is too large.  A     *)
(* transaction is represented by its size in bytes.                        *)
(*                                                                         *)
(* usize has a largest value, and both loops saturate.  max_tx_bytes is an *)
(* i64, and one that is no usize becomes 0.                                *)
(***************************************************************************)
EXTENDS Integers, Sequences

CONSTANTS
  Sizes,       \* the sizes a transaction may have
  Limits,      \* the values of max_tx_bytes, an i64
  MaxCount,    \* bound: transactions in a request
  UsizeMax     \* usize::MAX

ASSUME TrimAssumption ==
  /\ Sizes \subseteq Nat /\ Limits \subseteq Int
  /\ MaxCount \in Nat /\ UsizeMax \in Nat
  /\ \A n \in Limits : n <= UsizeMax   \* a target of 64 bits

Requests == UNION {[1..k -> Sizes] : k \in 0..MaxCount}

VARIABLES
  request,   \* RequestPrepareProposal.txs
  max,       \* RequestPrepareProposal.max_tx_bytes
  txs,       \* what is left of the request
  total,     \* total_tx_bytes
  sums,      \* history: sums[i+1] is the exact size of the first i of them
  loop       \* "sum", "trim" or "done"

trim_vars == <<request, max, txs, total, sums, loop>>

(* max_tx_bytes.try_into().unwrap_or(0)                                     *)
AsUsize(n) == IF n \in 0..UsizeMax THEN n ELSE 0

SaturatingAdd(a, b) == IF a + b > UsizeMax THEN UsizeMax ELSE a + b

(* Mutant: the subtraction does not saturate.                               *)
M_SaturatingSub(a, b) == a - b

SaturatingSub(a, b) == IF a < b THEN 0 ELSE a - b

TrimTypeOK ==
  /\ request \in Seq(Nat)
  /\ txs \in Seq(Nat)
  /\ sums \in Seq(Nat)
  /\ max \in Limits
  /\ total \in 0..UsizeMax
  /\ loop \in {"sum", "trim", "done"}

TrimInit ==
  /\ request \in Requests
  /\ max \in Limits
  /\ txs = request
  /\ total = 0
  /\ sums = <<0>>
  /\ loop = "sum"

(* The fold over the sizes.                                                 *)
Add ==
  /\ loop = "sum"
  /\ Len(sums) <= Len(request)
  /\ total' = SaturatingAdd(total, request[Len(sums)])
  /\ sums' = Append(sums, sums[Len(sums)] + request[Len(sums)])
  /\ UNCHANGED <<request, max, txs, loop>>

Added ==
  /\ loop = "sum"
  /\ Len(sums) = Len(request) + 1
  /\ loop' = "trim"
  /\ UNCHANGED <<request, max, txs, total, sums>>

(* Mutant: the loop goes on until the sum is below the limit.               *)
M_TooLarge == total >= AsUsize(max)

(* The condition of the while loop.                                         *)
TooLarge == total > AsUsize(max)

Pop ==
  /\ loop = "trim"
  /\ TooLarge
  /\ txs # << >>
  /\ total' = SaturatingSub(total, txs[Len(txs)])
  /\ txs' = SubSeq(txs, 1, Len(txs) - 1)
  /\ UNCHANGED <<request, max, sums, loop>>

Trimmed ==
  /\ loop = "trim"
  /\ ~TooLarge \/ txs = << >>
  /\ loop' = "done"
  /\ UNCHANGED <<request, max, txs, total, sums>>

TrimNext == Add \/ Added \/ Pop \/ Trimmed

TrimSpec == TrimInit /\ [][TrimNext]_trim_vars

-----------------------------------------------------------------------------
(***************************************************************************)
(* A request that memory can hold: its size is a usize.                    *)
(***************************************************************************)
Fits == loop # "sum" => sums[Len(request) + 1] <= UsizeMax

(***************************************************************************)
(* "the Application MUST remove transactions to ensure that the            *)
(* RequestPrepareProposal.max_tx_bytes limit is respected" (lines 359-362) *)
(* and no more than that: what is returned is the longest prefix of the    *)
(* request whose exact size is within the limit.  A negative limit leaves  *)
(* nothing but transactions of no size.                                    *)
(***************************************************************************)
Bound == IF max < 0 THEN 0 ELSE max

LongestPrefix ==
  loop = "done" /\ Fits =>
    LET k == Len(txs)
    IN  /\ k <= Len(request)
        /\ \A i \in 1..k : txs[i] = request[i]
        /\ sums[k + 1] <= Bound
        /\ k < Len(request) => sums[k + 2] > Bound
=============================================================================
