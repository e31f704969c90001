----------------------------- MODULE MCComments -----------------------------
(***************************************************************************)
(* An instance of Comments for TLC.                                        *)
(***************************************************************************)
EXTENDS Comments, TLC

MCLimits == {-1, 5, Absent, Invalid}

\* Posts are alike.
MCSymmetry == Permutations(Posts)
=============================================================================
