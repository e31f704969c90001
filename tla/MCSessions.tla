----------------------------- MODULE MCSessions -----------------------------
(***************************************************************************)
(* An instance of Sessions for TLC.                                        *)
(***************************************************************************)
EXTENDS Sessions, TLC

\* The members of each set are alike.
MCSymmetry ==
    UNION {Permutations(S) : S \in {Identities, Ids, Emails, Requests}}
=============================================================================
