----------------------------- MODULE MCReactions -----------------------------
(***************************************************************************)
(* An instance of Reactions for TLC: one user with two tabs, one with one. *)
(***************************************************************************)
EXTENDS Reactions, TLC

CONSTANTS u1, u2, t1, t2, t3

MCUserOf == [t \in Tabs |-> IF t = t3 THEN u2 ELSE u1]

\* The tabs of one user are alike.
MCSymmetry == Permutations({t1, t2})
=============================================================================
