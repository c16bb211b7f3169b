--------------------------- MODULE MCProposalTrim ---------------------------
(***************************************************************************)
(* Limits below, at and above the sizes that occur, up to usize::MAX.      *)
(***************************************************************************)
EXTENDS ProposalTrim

MCLimits == {-3, 0, 3, 5, 12}
=============================================================================
