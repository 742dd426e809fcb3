--------------------------- MODULE WalletDataHook ---------------------------
(***************************************************************************)
(* The React hook useWalletData (packages/wallet-core/src/hooks/use-       *)
(* wallet-data.ts) over the client of packages/solana-wallet.  Its effects *)
(* run again when the wallet changes; every run loads the portfolio and    *)
(* the history and subscribes to both, and the answers come in any order,  *)
(* also after its cleanup.                                                 *)
(*                                                                         *)
(* The client is known here by what PortfolioFeed and ActivityFeed show of *)
(* it: a subscription is given portfolios that do not go back, and every   *)
(* activity once.  Activities of a wallet are numbered as they land, and   *)
(* the version of its portfolio is their number.                           *)
(***************************************************************************)
EXTENDS Naturals, FiniteSets

CONSTANTS
  Wallets,
  None,
  MaxRuns,     \* bound: runs of the effects
  MaxLanded,   \* bound: activities of each wallet
  MaxFaults    \* bound: loads that fail

ASSUME HookAssumption ==
  /\ None \notin Wallets
  /\ MaxRuns \in Nat \ {0} /\ MaxLanded \in Nat /\ MaxFaults \in Nat

Runs == 1 .. MaxRuns
Versions == 0 .. MaxLanded
Activities == [of : Wallets, number : 1 .. MaxLanded]

VARIABLES
  world,       \* activities of every wallet that have landed
  faults,
  wallet,      \* publicKey while connected, or None
  run,         \* the last run of the effects
  mount,       \* the first one of this instance of the component
  effect,      \* what every run closes over
  portfolio,   \* portfolioSnapshot: whose, and its version
  activities,  \* how often every activity is listed, 2 for more
  isLoading,
  localRows,
  store,       \* localActivityStore
  chart,       \* balanceHistoryKeyRef, and whose data balanceHistoryRef shows
  added,       \* local activities callers have added
  mixed        \* a wallet followed another one at once, or a callback of an
               \* earlier wallet was called

shown == <<portfolio, activities, isLoading>>
vars == <<world, faults, wallet, run, mount, effect, shown, localRows, store, chart, added, mixed>>

NoPortfolio == [of |-> None, version |-> 0]
NoActivities == [a \in Activities |-> 0]
NoChart == [key |-> None, of |-> {}]

\* emitted, seen: what the subscriptions have given.
NewEffect(w) ==
  [of |-> w, load |-> IF w = None THEN "none" ELSE "pending", cancelled |-> FALSE,
   closed |-> w = None, emitted |-> 0, seen |-> {}]

Init ==
  /\ world = [w \in Wallets |-> 0] /\ faults = 0
  /\ wallet \in Wallets \cup {None} /\ run = 1 /\ mount = 1
  /\ effect = [e \in Runs |-> NewEffect(IF e = 1 THEN wallet ELSE None)]
  /\ portfolio = NoPortfolio /\ activities = NoActivities /\ isLoading = (wallet # None)
  /\ localRows = {} /\ store = [w \in Wallets |-> {}]
  /\ chart = NoChart /\ added = {} /\ mixed = FALSE
-----------------------------------------------------------------------------
(* What a render derives from the state.                                   *)

Listed(list) == {a \in Activities : list[a] > 0}
Page(w, n) == [a \in Activities |-> IF a.of = w /\ a.number <= n THEN 1 ELSE 0]

\* balanceHistory is computed when the wallet is another one than last time,
\* from what the first render that has data shows.
Chart(w, p, list) ==
  IF Listed(list) = {} \/ p.version = 0 \/ (chart.key = w /\ chart.of # {}) THEN chart
  ELSE [key |-> w, of |-> {p.of} \cup {a.of : a \in Listed(list)}]

\* mergedActivityData.
Displayed(list, rows) == Listed(list) \cup rows
-----------------------------------------------------------------------------
(* The wallet changes: a render with the data of before, then the cleanups *)
(* and the effects of one commit.                                          *)

\* Mutant: the cleanup of the subscribing effect is forgotten.
CleanupLoad(e) == [e EXCEPT !.cancelled = TRUE]

\* A subscription that has opened is closed; one that is opening has no
\* unsubscribe yet and goes on.  Here any may go on.
Cleanup(e) == [e EXCEPT !.cancelled = TRUE, !.closed = TRUE]

\* Mutant: the subscribing effect runs once.
RerunWithoutSubscribing(w) ==
  /\ run < MaxRuns /\ run' = run + 1
  /\ effect' = [effect EXCEPT ![run] = Cleanup(@), ![run + 1] = [NewEffect(w) EXCEPT !.closed = TRUE]]

Rerun(w) ==
  /\ run < MaxRuns /\ run' = run + 1
  /\ effect' = [effect EXCEPT ![run] = Cleanup(@), ![run + 1] = NewEffect(w)]

\* Rows stay when nothing is stored for the wallet.
Local(w, rows) == IF store[w] = {} THEN rows ELSE store[w]

Connect(w) ==
  /\ wallet # w /\ wallet' = w /\ Rerun(w)
  /\ isLoading' = TRUE /\ UNCHANGED <<portfolio, activities>>
  /\ localRows' = Local(w, localRows)
  /\ chart' = Chart(w, portfolio, activities)
  /\ mixed' = (mixed \/ wallet # None)
  /\ UNCHANGED <<world, faults, mount, store, added>>

Disconnect ==
  /\ wallet # None /\ wallet' = None /\ Rerun(None)
  /\ portfolio' = NoPortfolio /\ activities' = NoActivities /\ isLoading' = FALSE
  /\ localRows' = {} /\ chart' = Chart(None, portfolio, activities)
  /\ UNCHANGED <<world, faults, mount, store, added, mixed>>

\* The component is unmounted, and mounted again.
Remount(w) ==
  /\ wallet' = w /\ Rerun(w) /\ mount' = run'
  /\ portfolio' = NoPortfolio /\ activities' = NoActivities /\ isLoading' = TRUE
  /\ localRows' = Local(w, {}) /\ chart' = NoChart
  /\ UNCHANGED <<world, faults, store, added, mixed>>
-----------------------------------------------------------------------------
(* The load: both answers are there.  Each shows the wallet as it was at   *)
(* some time; a cache may have given it.                                   *)

\* Mutant: a run is told by its wallet.
SameWallet(e) == e >= mount /\ effect[e].of = wallet

\* React drops what an unmounted instance sets.
NotCancelled(e) == e >= mount /\ ~effect[e].cancelled

LoadAnswers(e) ==
  /\ effect[e].load = "pending"
  /\ effect' = [effect EXCEPT ![e].load = "loaded"]
  /\ \E v, n \in 0 .. world[effect[e].of] :
       IF NotCancelled(e)
       THEN /\ portfolio' = [of |-> effect[e].of, version |-> v]
            /\ activities' = Page(effect[e].of, n)
            /\ isLoading' = FALSE
            /\ chart' = Chart(wallet, portfolio', activities')
       ELSE UNCHANGED <<shown, chart>>
  /\ UNCHANGED <<world, faults, wallet, run, mount, localRows, store, added, mixed>>

\* Promise.all rejects with the first of the two.
LoadFails(e) ==
  /\ effect[e].load = "pending" /\ faults < MaxFaults
  /\ faults' = faults + 1
  /\ effect' = [effect EXCEPT ![e].load = "failed"]
  /\ isLoading' = IF NotCancelled(e) THEN FALSE ELSE isLoading
  /\ UNCHANGED <<world, wallet, run, mount, portfolio, activities, localRows, store, chart,
                 added, mixed>>
-----------------------------------------------------------------------------
(* The subscriptions.                                                      *)

NotClosed(e) == e >= mount /\ ~effect[e].closed

PortfolioEmits(e, v) ==
  /\ effect[e].of # None /\ v \in effect[e].emitted .. world[effect[e].of]
  /\ NotClosed(e)
  /\ effect' = [effect EXCEPT ![e].emitted = v]
  /\ portfolio' = [of |-> effect[e].of, version |-> v]
  /\ chart' = Chart(wallet, portfolio', activities)
  /\ UNCHANGED <<world, faults, wallet, run, mount, activities, isLoading, localRows, store,
                 added, mixed>>

\* An activity listed already is replaced.
Merge(list, a) == [list EXCEPT ![a] = IF @ = 0 THEN 1 ELSE @]

ActivityEmits(e) ==
  /\ effect[e].of # None /\ NotClosed(e)
  /\ \E n \in (1 .. world[effect[e].of]) \ effect[e].seen :
       /\ effect' = [effect EXCEPT ![e].seen = @ \cup {n}]
       /\ activities' = Merge(activities, [of |-> effect[e].of, number |-> n])
  /\ chart' = Chart(wallet, portfolio, activities')
  /\ UNCHANGED <<world, faults, wallet, run, mount, portfolio, isLoading, localRows, store,
                 added, mixed>>
-----------------------------------------------------------------------------
(* Callers and the chain.                                                  *)

Add(row) ==
  /\ localRows' = localRows \cup {row}
  /\ store' = [store EXCEPT ![row.of] = localRows']

\* A caller reports a transaction it has sent, with the callback of the render
\* it began in.  One that nobody is mounted for any more does nothing.
AddLocalActivity(row) ==
  /\ row \notin added /\ row.number <= world[row.of]
  /\ \E e \in mount .. run : effect[e].of = row.of
  /\ Add(row) /\ added' = added \cup {row}
  /\ mixed' = (mixed \/ row.of # wallet)
  /\ UNCHANGED <<world, faults, wallet, run, mount, effect, shown, chart>>

Lands(w) ==
  /\ world[w] < MaxLanded
  /\ world' = [world EXCEPT ![w] = @ + 1]
  /\ UNCHANGED <<faults, wallet, run, mount, effect, shown, localRows, store, chart, added, mixed>>

EffectStep(e) ==
  \/ LoadAnswers(e) \/ LoadFails(e)
  \/ (\E v \in Versions : PortfolioEmits(e, v)) \/ ActivityEmits(e)

Next ==
  \/ \E w \in Wallets : Connect(w) \/ Remount(w) \/ Lands(w)
  \/ Disconnect
  \/ \E e \in 1 .. run : EffectStep(e)
  \/ \E row \in Activities : AddLocalActivity(row)

Spec == Init /\ [][Next]_vars

\* Requests are answered.  A portfolio subscription shows the last version in
\* the end, and again after every interval (Converges of PortfolioFeed); each
\* activity is given in the end (NothingMissed of ActivityFeed).
Fairness ==
  \A e \in Runs :
    /\ WF_vars(e <= run /\ LoadAnswers(e))
    /\ WF_vars(e <= run /\ effect[e].of # None /\ PortfolioEmits(e, world[effect[e].of]))
FairSpec == Spec /\ Fairness
-----------------------------------------------------------------------------
(* Properties.                                                             *)

TypeOK ==
  /\ world \in [Wallets -> Versions] /\ faults \in 0 .. MaxFaults
  /\ wallet \in Wallets \cup {None} /\ run \in Runs /\ mount \in 1 .. run
  /\ effect \in [Runs -> [of : Wallets \cup {None}, load : {"none", "pending", "loaded", "failed"},
                          cancelled : BOOLEAN, closed : BOOLEAN,
                          emitted : Versions, seen : SUBSET (1 .. MaxLanded)]]
  /\ portfolio \in [of : Wallets \cup {None}, version : Versions]
  /\ activities \in [Activities -> 0 .. 2] /\ isLoading \in BOOLEAN
  /\ localRows \subseteq Activities /\ store \in [Wallets -> SUBSET Activities]
  /\ chart \in [key : Wallets \cup {None}, of : SUBSET (Wallets \cup {None})]
  /\ added \subseteq Activities /\ mixed \in BOOLEAN

\* Whatever answers late, the wallet that is connected is the one whose
\* portfolio and activities are shown, once it has been loaded, and at once
\* where wallets do not follow each other without a disconnect.  There also the
\* chart is its own, and the local rows are those added for it, all of them and
\* no others, through disconnects and remounts.  No activity is listed twice.
ShowsItsWallet ==
  /\ wallet = None => portfolio = NoPortfolio /\ Listed(activities) = {}
  /\ effect[run].load = "loaded" \/ ~mixed
     => /\ portfolio.of \in {wallet, None}
        /\ \A a \in Listed(activities) : a.of = wallet
  /\ ~mixed => /\ wallet # None /\ chart.key = wallet => chart.of \subseteq {wallet}
               /\ localRows = {row \in added : row.of = wallet}
  /\ \A a \in Activities : activities[a] <= 1

\* Once a wallet is loaded, no row disappears while it stays connected: no
\* answer of an earlier run, of the same wallet even, replaces the list.
NothingVanishes ==
  [][~isLoading /\ run' = run
     => Displayed(activities, localRows) \subseteq Displayed(activities', localRows')]_vars

\* The portfolio shown in the end is the newest one of the wallet connected,
\* also when the load answers with an older one after the subscription has shown it.
Converges ==
  \A w \in Wallets :
    <>[](wallet = w) => <>[](portfolio = [of |-> w, version |-> world[w]])
=============================================================================
