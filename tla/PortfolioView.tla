---------------------------- MODULE PortfolioView ----------------------------
(***************************************************************************)
(* What subscribePortfolio promises a subscriber (packages/solana-wallet/  *)
(* src/client.ts), without caches, loaders, timers and notices: while it   *)
(* is subscribed it is shown versions the wallet has gone through, each    *)
(* no older than the one before.                                           *)
(***************************************************************************)
EXTENDS Naturals

VARIABLES
  options,  \* of the subscription
  world,    \* the wallet's version on chain
  shown,    \* the version shown last, 0 for none
  status    \* of the subscription

vars == <<options, world, shown, status>>

Init == world = 1 /\ shown = 0 /\ status = "none"

Changes == world' = world + 1 /\ UNCHANGED <<options, shown, status>>

\* A provider that notifies before it has subscribed forfeits the order.
Show ==
  /\ shown' \in 1 .. world
  /\ options.early \/ shown' >= shown
  /\ UNCHANGED <<options, world>>

Begins ==
  status = "none" /\ status' = "opening" /\ UNCHANGED <<options, world, shown>>

\* The first portfolio may be there at once.
Opens ==
  /\ status = "opening" /\ status' = "open"
  /\ Show \/ UNCHANGED <<options, world, shown>>

Shows == status \in {"opening", "open"} /\ Show /\ UNCHANGED status

Closes == status = "open" /\ status' = "closed" /\ UNCHANGED <<options, world, shown>>

Next == Changes \/ Begins \/ Opens \/ Shows \/ Closes

Spec == Init /\ [][Next]_vars
=============================================================================
