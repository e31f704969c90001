---------------------------- MODULE MCRosterSync ----------------------------
(***************************************************************************)
(* Instances of RosterSync for TLC: Spurs has an alias and a lower-case    *)
(* variant, Leeds is promoted, Burnley is in the old roster only, Real in  *)
(* none.                                                                   *)
(***************************************************************************)
EXTENDS RosterSync

CONSTANTS old, new

MCNames == {"Tottenham", "tottenham", "Spurs", "THFC", "Leeds", "Burnley", "Real"}

MCKey == [n \in Names |-> IF n = "tottenham" THEN "Tottenham" ELSE n]

MCRoster ==
    [v \in Versions |->
        IF v = old
        THEN [c \in {"Tottenham", "Burnley", "Leeds"} |->
                 IF c = "Leeds" THEN "L1" ELSE "PL"]
        ELSE [c \in {"Tottenham", "Leeds"} |-> "PL"]]

\* The old roster does not know the alias THFC.
MCLookup ==
    [v \in Versions |-> [n \in Names |->
        IF n \in {"Tottenham", "tottenham", "Spurs"} \/ (n = "THFC" /\ v = new)
        THEN "Tottenham"
        ELSE IF n = "Leeds" \/ (n = "Burnley" /\ v = old) THEN n ELSE NULL]]

Loose(n) == [name |-> n, league |-> NULL]

In(league, n) == [name |-> n, league |-> league]

\* Tables with aliases in either order, a case variant, the roster name
\* itself, and clubs that left the roster.
MCExisting ==
    { << >>,
      <<Loose("Spurs"), Loose("THFC"), In("L1", "Leeds")>>,
      <<Loose("THFC"), Loose("tottenham"), Loose("Spurs")>>,
      <<In("PL", "tottenham"), Loose("Burnley"), Loose("Real")>>,
      <<In("PL", "Burnley"), Loose("Spurs"), In("PL", "Tottenham")>> }
=============================================================================
