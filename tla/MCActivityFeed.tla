---------------------------- MODULE MCActivityFeed ----------------------------
(* ActivityFeed on small instances. *)
EXTENDS ActivityFeed
Way(initial, interval) == [emitInitial |-> initial, fallback |-> interval]
Ways == {Way(FALSE, TRUE), Way(TRUE, FALSE)}
History(shows, waits) == [relevant |-> shows, late |-> waits]
\* All of them activities, or two with others between them, one fetched early.
HistoriesTried == {History({1, 2, 3, 4}, {}), History({1, 4}, {4})}
=============================================================================
