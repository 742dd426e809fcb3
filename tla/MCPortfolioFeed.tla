--------------------------- MODULE MCPortfolioFeed ---------------------------
(* PortfolioFeed on small instances. *)
EXTENDS PortfolioFeed
CONSTANTS c1
OneCaller == {c1}
Way(early, emitInitial, debounce, fallback) ==
  [early |-> early, emitInitial |-> emitInitial,
   debounce |-> debounce, fallback |-> fallback]
\* Each option on and off, with and without the others that matter to it.
Ways == {Way(FALSE, TRUE, TRUE, TRUE), Way(FALSE, TRUE, FALSE, FALSE),
         Way(FALSE, FALSE, FALSE, TRUE), Way(TRUE, TRUE, FALSE, TRUE)}
=============================================================================
