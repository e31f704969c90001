------------------------------ MODULE MCIngest ------------------------------
(***************************************************************************)
(* An instance of Ingest for TLC: two sources that share a story.          *)
(***************************************************************************)
EXTENDS Ingest

CONSTANTS s1, s2, u1, u2

MCCarries == [s \in Sources |-> IF s = s1 THEN {u1, u2} ELSE {u1}]
=============================================================================
