---------------------------- MODULE AppHashLog -----------------------------
(***************************************************************************)
(* What the comment on commit promises of the application hashes           *)
(* (sequencer/src/abci/application.rs:312-317), without the application:   *)
(* every node puts out a log of hashes, one for each height, and a node    *)
(* that gets to a height some other node has been at puts out the same     *)
(* hash.  A "blockchain fork" is a step this module does not allow.        *)
(***************************************************************************)
EXTENDS Naturals, Sequences

CONSTANT Nodes

VARIABLE out   \* out[n]: the hashes node n has put out, in order of height

Init == out = [n \in Nodes |-> << >>]

(* The hash that a step adds for node n; any value will do.                 *)
Published(n) == out'[n][Len(out[n]) + 1]

Publish(n) ==
  /\ Len(out'[n]) = Len(out[n]) + 1
  /\ out' = [out EXCEPT ![n] = Append(@, Published(n))]
  /\ \A m \in Nodes :
       Len(out[n]) < Len(out[m]) => out[m][Len(out[n]) + 1] = Published(n)

Next == \E n \in Nodes : Publish(n)

Spec == Init /\ [][Next]_out
=============================================================================
