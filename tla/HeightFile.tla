----------------------------- MODULE HeightFile -----------------------------
(***************************************************************************)
(* struct HeightFile (sequencer/src/abci/application.rs:481-505), one file *)
(* system call at a time, in the threads that call it:                     *)
(*   Boot        StarknetApp::new, before the server listens               *)
(*   InfoThreads info, on the query connection, whenever it is asked       *)
(*   Committer   commit, on the consensus connection, one at a time        *)
(* fs::write truncates the file and then writes it, so there is an instant *)
(* with an empty file.  fs::read is one step: the eight bytes are read and *)
(* written by single calls, and nobody deletes the file of a running app.  *)
(*                                                                         *)
(* A system call may fail whatever the file holds (no space, no file       *)
(* handle, an I/O error).  A read that fails in read_or_create is taken    *)
(* for a missing file; every other failure runs into an unwrap.  A panic   *)
(* in Boot ends the process; one in another thread ends the thread and its *)
(* connection until the process restarts (a query connection made anew is  *)
(* one more of the InfoThreads).  A crash ends the process at any point    *)
(* and leaves the file as it is.  The engine is modelled by acked, the     *)
(* number of commits it knows of; on connecting it learns of at most one   *)
(* more.                                                                   *)
(***************************************************************************)
EXTENDS Naturals

CONSTANTS
  InfoThreads, Boot, Committer,
  Missing, Empty,   \* contents of the file that are no height
  MaxHeight,        \* bound: commits
  MaxCrashes,       \* bound: crashes
  MaxFailures       \* bound: system calls that fail

ASSUME HeightFileAssumption ==
  /\ Boot \notin InfoThreads /\ Committer \notin InfoThreads /\ Boot # Committer
  /\ Missing \notin Nat /\ Empty \notin Nat /\ Missing # Empty
  /\ MaxHeight \in Nat /\ MaxCrashes \in Nat /\ MaxFailures \in Nat

Readers == InfoThreads \cup {Boot}
Threads == Readers \cup {Committer}

VARIABLES
  file,      \* the contents of abci.height
  server,    \* "off", "boot" (in StarknetApp::new) or "serving"
  pc,        \* pc[t]: the next call of thread t
  height,    \* height[t]: the local variable of that name
  reported,  \* reported[t]: what info last answered in thread t
  acked,     \* commits the engine has an answer for
  crashes,
  failures,  \* system calls that have failed
  reset      \* whether read_or_create has taken a file for a missing one

io == <<failures, reset>>
vars == <<file, server, pc, height, reported, acked, crashes, failures, reset>>

(* "panicked": on contents that are no height; "failed": on a failed call.  *)
Steps == {"idle", "read", "truncate", "write", "return", "panicked", "failed"}

TypeOK ==
  /\ file \in Nat \cup {Missing, Empty}
  /\ server \in {"off", "boot", "serving"}
  /\ pc \in [Threads -> Steps]
  /\ height \in [Threads -> Nat]
  /\ reported \in [InfoThreads -> Nat]
  /\ acked \in Nat
  /\ crashes \in Nat
  /\ failures \in Nat
  /\ reset \in BOOLEAN

Init ==
  /\ file = Missing
  /\ server = "off"
  /\ pc = [t \in Threads |-> "idle"]
  /\ height = [t \in Threads |-> 0]
  /\ reported = [t \in InfoThreads |-> 0]
  /\ acked = 0
  /\ crashes = 0
  /\ failures = 0
  /\ reset = FALSE

Goto(t, step) == pc' = [pc EXCEPT ![t] = step]

(* Thread t panics: in Boot that is the end of the process.                 *)
Ends(t, step) ==
  IF t = Boot
    THEN server' = "off" /\ Goto(t, "idle")
    ELSE server' = server /\ Goto(t, step)

Fails ==
  /\ failures < MaxFailures
  /\ failures' = failures + 1

-----------------------------------------------------------------------------
(* main: StarknetApp::new(), then bind and listen.                          *)
Start ==
  /\ server = "off"
  /\ server' = "boot"
  /\ Goto(Boot, "read")
  /\ UNCHANGED <<file, height, reported, acked, crashes, io>>

(* The engine connects and asks for the height before anything else.        *)
Serve ==
  /\ pc[Boot] = "return"
  /\ server' = "serving"
  /\ acked' = height[Boot]
  /\ Goto(Boot, "idle")
  /\ UNCHANGED <<file, height, reported, crashes, io>>

(* Mutant: main listens before it has made the height file.                 *)
M_Listening == server # "off"

Listening == server = "serving"

Info(t) ==
  /\ Listening
  /\ pc[t] = "idle"
  /\ Goto(t, "read")
  /\ UNCHANGED <<file, server, height, reported, acked, crashes, io>>

CommitBlock ==
  /\ Listening
  /\ pc[Committer] = "idle"
  /\ acked < MaxHeight
  /\ Goto(Committer, "read")
  /\ UNCHANGED <<file, server, height, reported, acked, crashes, io>>

(***************************************************************************)
(* read_or_create, up to its first system call: a height is returned, the  *)
(* file is made when reading it is an error, and contents that are no      *)
(* height panic.  The error may be another than a missing file: the else   *)
(* branch does not look.                                                   *)
(***************************************************************************)
ReadHeight(t) ==
  /\ pc[t] = "read"
  /\ file \in Nat
  /\ height' = [height EXCEPT ![t] = file]
  /\ Goto(t, "return")
  /\ UNCHANGED <<file, server, reported, acked, crashes, io>>

(* Mutant: contents that are no height are replaced like a missing file.    *)
M_ReadIsError(t) ==
  /\ pc[t] = "read"
  /\ file \in {Missing, Empty}
  /\ height' = [height EXCEPT ![t] = 0]
  /\ Goto(t, "truncate")
  /\ UNCHANGED <<file, server, reported, acked, crashes, io>>

ReadIsError(t) ==
  /\ pc[t] = "read"
  /\ \/ file = Missing /\ UNCHANGED io
     \/ file # Missing /\ Fails /\ reset' = TRUE
  /\ height' = [height EXCEPT ![t] = 0]
  /\ Goto(t, "truncate")
  /\ UNCHANGED <<file, server, reported, acked, crashes>>

ReadUnreadable(t) ==
  /\ pc[t] = "read"
  /\ file = Empty
  /\ Ends(t, "panicked")
  /\ UNCHANGED <<file, height, reported, acked, crashes, io>>

(* Mutant: the new height is computed and the old one written back.         *)
M_IncrementRead ==
  /\ pc[Committer] = "read"
  /\ height' = [height EXCEPT ![Committer] = IF file \in Nat THEN file ELSE @]
  /\ Goto(Committer, IF file \in Nat THEN "truncate" ELSE "panicked")
  /\ UNCHANGED <<file, server, reported, acked, crashes, io>>

(* Mutant: the height goes down instead of up.                              *)
M_IncrementReadDown ==
  /\ pc[Committer] = "read"
  /\ height' = [height EXCEPT ![Committer] = IF file \in Nat THEN file - 1 ELSE @]
  /\ Goto(Committer, IF file \in Nat THEN "truncate" ELSE "panicked")
  /\ UNCHANGED <<file, server, reported, acked, crashes, io>>

(* Mutant: increment takes a lock that a panicked reader never gives back.  *)
M_IncrementReadLocked ==
  /\ pc[Committer] = "read"
  /\ \A t \in InfoThreads : pc[t] # "panicked"
  /\ height' = [height EXCEPT ![Committer] = IF file \in Nat THEN file + 1 ELSE @]
  /\ Goto(Committer, IF file \in Nat THEN "truncate" ELSE "panicked")
  /\ UNCHANGED <<file, server, reported, acked, crashes, io>>

(***************************************************************************)
(* increment, up to its first system call: an unwrap for the call and one  *)
(* for the contents.                                                       *)
(***************************************************************************)
IncrementRead ==
  /\ pc[Committer] = "read"
  /\ height' = [height EXCEPT ![Committer] = IF file \in Nat THEN file + 1 ELSE @]
  /\ Goto(Committer, IF file \in Nat THEN "truncate" ELSE "panicked")
  /\ UNCHANGED <<file, server, reported, acked, crashes, io>>

IncrementReadFails ==
  /\ pc[Committer] = "read"
  /\ Fails
  /\ Goto(Committer, "failed")
  /\ UNCHANGED <<file, server, height, reported, acked, crashes, reset>>

(***************************************************************************)
(* fs::write, in either: open and truncate, then write.                    *)
(***************************************************************************)
Truncate(t) ==
  /\ pc[t] = "truncate"
  /\ file' = Empty
  /\ Goto(t, "write")
  /\ UNCHANGED <<server, height, reported, acked, crashes, io>>

Write(t) ==
  /\ pc[t] = "write"
  /\ file' = height[t]
  /\ Goto(t, "return")
  /\ UNCHANGED <<server, height, reported, acked, crashes, io>>

(* Either call fails and the unwrap of fs::write panics.                    *)
WriteFails(t) ==
  /\ pc[t] \in {"truncate", "write"}
  /\ Fails
  /\ Ends(t, "failed")
  /\ UNCHANGED <<file, height, reported, acked, crashes, reset>>

InfoReturns(t) ==
  /\ pc[t] = "return"
  /\ reported' = [reported EXCEPT ![t] = height[t]]
  /\ Goto(t, "idle")
  /\ UNCHANGED <<file, server, height, acked, crashes, io>>

CommitReturns ==
  /\ pc[Committer] = "return"
  /\ acked' = acked + 1
  /\ Goto(Committer, "idle")
  /\ UNCHANGED <<file, server, height, reported, crashes, io>>

(* The process is killed; nothing but the file outlives it.                 *)
Crash ==
  /\ server # "off"
  /\ crashes < MaxCrashes
  /\ crashes' = crashes + 1
  /\ server' = "off"
  /\ pc' = [t \in Threads |-> "idle"]
  /\ UNCHANGED <<file, height, reported, acked, io>>

Increment ==
  \/ IncrementRead \/ IncrementReadFails
  \/ Truncate(Committer) \/ Write(Committer) \/ WriteFails(Committer)
  \/ CommitReturns

Next ==
  \/ Start \/ Serve \/ CommitBlock \/ Increment \/ Crash
  \/ \E t \in Readers :
       \/ ReadHeight(t) \/ ReadIsError(t) \/ ReadUnreadable(t)
       \/ Truncate(t) \/ Write(t) \/ WriteFails(t)
  \/ \E t \in InfoThreads : Info(t) \/ InfoReturns(t)

Spec == Init /\ [][Next]_vars

(* A thread inside increment is scheduled.  Nobody has to call anything.    *)
FairSpec == Spec /\ WF_vars(Increment)

-----------------------------------------------------------------------------
(***************************************************************************)
(* The contents that increment reads are a height: whoever else reads the  *)
(* file, crashes or fails while writing it, the second unwrap of line 500  *)
(* panics only after read_or_create, on another thread, has taken a file   *)
(* that it could not read for a missing one.  (A system call of commit     *)
(* that fails panics too; that is "failed".)                               *)
(***************************************************************************)
CommitFindsAHeight == pc[Committer] = "panicked" => reset

(***************************************************************************)
(* No block is counted twice, over any number of restarts and failures:    *)
(* the height in the file is never ahead of the commits the engine knows   *)
(* of by more than the one whose answer is under way or was lost.  And     *)
(* none is lost, unless a file was taken for a missing one: then the two   *)
(* are equal in a process that serves and has no commit under way.         *)
(***************************************************************************)
EveryBlockCountsOnce ==
  /\ file \in Nat => file <= acked + 1
  /\ ~reset /\ file \in Nat => file >= acked
  /\ ~reset /\ server = "serving" /\ pc[Committer] \in {"idle", "read"} => file = acked

(***************************************************************************)
(* An engine that asks twice on one connection never sees the height go    *)
(* back, although commits, restarts and failures come in between, unless a *)
(* file was taken for a missing one.                                       *)
(***************************************************************************)
ReportsNeverGoBack ==
  [][~reset' => \A t \in InfoThreads : reported'[t] >= reported[t]]_vars

(***************************************************************************)
(* A torn file is never served after a restart: an empty one is the doing  *)
(* of a thread of this very process, which is about to write it or failed. *)
(***************************************************************************)
TornFileNeverServed ==
  server = "serving" /\ file = Empty => \E t \in Threads : pc[t] \in {"write", "failed"}

(***************************************************************************)
(* LIVENESS.  A commit under way is answered, or its thread or the process *)
(* ends: a reader's panic, for one, does not block it.                     *)
(***************************************************************************)
CommitUnderWay == pc[Committer] \in {"read", "truncate", "write", "return"}

CommitEnds == CommitUnderWay ~> ~CommitUnderWay

(***************************************************************************)
(* What `expect("Contents of height file are not readable")` takes to mean *)
(* a damaged file (line 491): in a process that has read the file once, at *)
(* boot, no later info finds it unreadable.                                *)
(***************************************************************************)
InfoFindsHeight == \A t \in InfoThreads : pc[t] # "panicked"
=============================================================================
