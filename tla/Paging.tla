-------------------------------- MODULE Paging --------------------------------
(***************************************************************************)
(* The query parameters of the paged listings of internal/api.  A          *)
(* parameter is an integer, Absent, or Invalid: text that is no integer,   *)
(* which the handlers answer with a 400.                                   *)
(***************************************************************************)
EXTENDS Integers, FiniteSets

CONSTANTS Absent, Invalid

ASSUME ParameterAssumption == Absent # Invalid

\* parseIntParam of a parameter that is not Invalid.
IntParam(raw, default) == IF raw = Absent THEN default ELSE raw

\* A limit outside [1, most] is clamped, not rejected.
ClampLimit(n, most) == IF n < 1 THEN 1 ELSE IF n > most THEN most ELSE n

\* How many of the positions first, first + 1, ..., first + n - 1 lie on the
\* page of limit rows after the first skip ones.
Overlap(first, n, limit, skip) ==
    Cardinality({i \in first .. first + n - 1 : i >= skip /\ i < skip + limit})
=============================================================================
