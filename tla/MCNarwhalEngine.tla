-------------------------- MODULE MCNarwhalEngine ---------------------------
(***************************************************************************)
(* Narwhal engines on small instances: an empty payload, one of two        *)
(* batches, and one with a batch that does not deserialize.                *)
(***************************************************************************)
EXTENDS NarwhalEngine

CONSTANTS n1, n2, c1, c2, x, y, z

(* Both clients at the first node, whose channel has room for one of them.  *)
MCNodeOf == [c \in {c1, c2} \cap Clients |-> n1]

MCPayloads ==
  {<< >>, << <<x, y>>, <<z>> >>, << <<z>>, Malformed >>}

(* No batch at all, for the claim about certificates that can be executed.  *)
MCEmptyPayloads == {<< >>}
=============================================================================
