------------------------------- MODULE MCFeed -------------------------------
(***************************************************************************)
(* An instance of Feed for TLC: one player's rumours with two clubs and    *)
(* another player's with the second club, which is in a league.            *)
(***************************************************************************)
EXTENDS Feed

CONSTANTS r1, r2, r3, c1, c2, p1, p2

MCPlayerOf == [r \in Rumours |-> IF r = r3 THEN p2 ELSE p1]

MCToOf == [r \in Rumours |-> IF r = r1 THEN c1 ELSE c2]

MCLeagueOf == [c \in Clubs |-> IF c = c2 THEN "PL" ELSE NULL]

All == [club |-> NULL, player |-> NULL, league |-> NULL,
        following |-> FALSE, anonymous |-> TRUE]

\* Everything, one player with one club in one league, and the followed
\* clubs of a viewer and of an anonymous one.
MCFilters ==
    { All,
      [All EXCEPT !.club = c2, !.player = p1, !.league = "PL"],
      [All EXCEPT !.following = TRUE, !.anonymous = FALSE],
      [All EXCEPT !.following = TRUE] }

\* Below the least limit, above the greatest, none, and none that is a number.
MCLimits == {0, 5, Absent, Invalid}
=============================================================================
