-------------------------- MODULE WalletDataProofs --------------------------
(***************************************************************************)
(* The wallet hook shows the wallet that is connected and loses no row, for *)
(* every number of wallets, activities and runs of its effects; then the    *)
(* activity feed: nothing is given after the close, and nothing twice.      *)
(***************************************************************************)
EXTENDS WalletDataHook, ActivityFeed, FiniteSetTheorems, WellFoundedInduction, TLAPS

Effects == [of : Wallets \cup {None}, load : {"none", "pending", "loaded", "failed"},
            cancelled : BOOLEAN, closed : BOOLEAN, emitted : Versions,
            seen : SUBSET (1 .. MaxLanded)]

\* What the last run of the effects is for; only it is neither cancelled nor
\* closed, so that nothing an earlier one answers is shown.
RunInv ==
  /\ effect[run].of = wallet /\ ~effect[run].cancelled
  /\ effect[run].load = "pending" => isLoading /\ wallet # None
  /\ \A e \in 1 .. run : e # run => effect[e].cancelled /\ effect[e].closed

\* Nothing is shown without a wallet; a portfolio of nobody has no data.
EmptyInv ==
  /\ wallet = None => portfolio = NoPortfolio /\ Listed(activities) = {}
  /\ portfolio.of = None => portfolio.version = 0

Own(w) ==
  /\ portfolio.of \in {w, None}
  /\ \A a \in Listed(activities) : a.of = w

OwnInv == effect[run].load = "loaded" \/ ~mixed => Own(wallet)

AddedFor(w) == {row \in added : row.of = w}

\* The store holds what was added for each wallet.
LocalInv ==
  ~mixed => /\ localRows = AddedFor(wallet)
            /\ \A w \in Wallets : store[w] = AddedFor(w)

ChartInv == ~mixed => (chart.key # None => chart.of \subseteq {chart.key})

OnceInv == \A a \in Activities : activities[a] <= 1

Inv == TypeOK /\ RunInv /\ EmptyInv /\ OwnInv /\ LocalInv /\ ChartInv /\ OnceInv
-----------------------------------------------------------------------------
LEMMA TypeOfEffects == TypeOK => effect \in [Runs -> Effects]
BY DEF TypeOK, Effects

LEMMA ListedOfNothing == Listed(NoActivities) = {}
BY DEF Listed, NoActivities

LEMMA PageIsOwn ==
  ASSUME NEW w, NEW n PROVE  /\ Page(w, n) \in [Activities -> 0 .. 1]
                             /\ \A a \in Listed(Page(w, n)) : a.of = w
BY DEF Page, Listed

\* A chart comes from what is shown.
LEMMA ChartType ==
  ASSUME TypeOK, NEW w \in Wallets \cup {None}, NEW p \in [of : Wallets \cup {None}, version : Versions],
         NEW list
  PROVE  Chart(w, p, list) \in [key : Wallets \cup {None}, of : SUBSET (Wallets \cup {None})]
<1>1. \A a \in Listed(list) : a.of \in Wallets
  BY DEF Listed, Activities
<1>2. {a.of : a \in Listed(list)} \subseteq Wallets
  BY <1>1
<1>3. {p.of} \cup {a.of : a \in Listed(list)} \subseteq Wallets \cup {None}
  BY <1>2
<1>4. chart \in [key : Wallets \cup {None}, of : SUBSET (Wallets \cup {None})]
  BY DEF TypeOK
<1> HIDE DEF Listed
<1> QED BY <1>3, <1>4 DEF Chart

LEMMA ChartIsOwn ==
  ASSUME NEW w, NEW p, NEW list,
         chart.key # None => chart.of \subseteq {chart.key},
         w # None => /\ p.of = w \/ p.version = 0
                     /\ \A a \in Listed(list) : a.of = w
  PROVE  Chart(w, p, list).key # None => Chart(w, p, list).of \subseteq {Chart(w, p, list).key}
<1>1. CASE Listed(list) = {} \/ p.version = 0 \/ (chart.key = w /\ chart.of # {})
  <2>1. Chart(w, p, list) = chart
    BY <1>1 DEF Chart
  <2> QED BY <2>1
<1>2. CASE ~(Listed(list) = {} \/ p.version = 0 \/ (chart.key = w /\ chart.of # {}))
  <2>1. Chart(w, p, list) = [key |-> w, of |-> {p.of} \cup {a.of : a \in Listed(list)}]
    BY <1>2, Zenon DEF Chart
  <2>2. w # None => {p.of} \cup {a.of : a \in Listed(list)} \subseteq {w}
    BY <1>2
  <2> QED BY <2>1, <2>2
<1> QED BY <1>1, <1>2
-----------------------------------------------------------------------------
LEMMA InitInv == Init => Inv
<1> SUFFICES ASSUME Init PROVE Inv
  OBVIOUS
<1> USE HookAssumption
<1>1. 1 \in Runs /\ 0 \in Versions
  BY DEF Runs, Versions
<1>2. effect[1] = NewEffect(wallet)
  BY <1>1 DEF Init
<1>3. TypeOK
  <2>1. effect \in [Runs -> Effects]
    BY <1>1 DEF Init, NewEffect, Effects
  <2>2. activities \in [Activities -> 0 .. 2]
    BY DEF Init, NoActivities
  <2>3. run \in Runs /\ mount \in 1 .. run /\ world \in [Wallets -> Versions] /\ faults \in 0 .. MaxFaults
    BY <1>1 DEF Init
  <2>4. isLoading \in BOOLEAN
    BY DEF Init
  <2>5. portfolio \in [of : Wallets \cup {None}, version : Versions]
    BY <1>1 DEF Init, NoPortfolio
  <2>6. chart \in [key : Wallets \cup {None}, of : SUBSET (Wallets \cup {None})]
    BY DEF Init, NoChart
  <2> QED BY <2>1, <2>2, <2>3, <2>4, <2>5, <2>6 DEF Init, TypeOK, Effects
<1>4. RunInv
  <2>1. run = 1 /\ effect[run].of = wallet /\ ~effect[run].cancelled
    BY <1>2 DEF Init, NewEffect
  <2>2. effect[run].load = "pending" => isLoading /\ wallet # None
    <3>1. effect[run].load = IF wallet = None THEN "none" ELSE "pending"
      BY <1>2, <2>1 DEF NewEffect
    <3>2. isLoading = (wallet # None)
      BY DEF Init
    <3> QED BY <3>1, <3>2
  <2> QED BY <2>1, <2>2 DEF RunInv
<1>5. EmptyInv /\ OwnInv
  BY ListedOfNothing DEF Init, EmptyInv, OwnInv, Own, NoPortfolio
<1>6. LocalInv /\ ChartInv
  BY DEF Init, LocalInv, ChartInv, AddedFor, NoChart
<1>7. OnceInv
  BY DEF Init, OnceInv, NoActivities
<1> QED BY <1>3, <1>4, <1>5, <1>6, <1>7 DEF Inv

\* What running the effects again leaves.
LEMMA RerunLeaves ==
  ASSUME Inv, NEW w \in Wallets \cup {None}, Rerun(w)
  PROVE  /\ run' \in Runs /\ run' = run + 1
         /\ effect' \in [Runs -> Effects]
         /\ effect'[run'] = NewEffect(w)
         /\ \A e \in 1 .. run' : e # run' => effect'[e].cancelled /\ effect'[e].closed
<1> USE HookAssumption DEF Inv, TypeOK
<1>1. run \in Runs /\ run + 1 \in Runs /\ run' = run + 1
  BY DEF Rerun, Runs
<1>2. effect \in [Runs -> Effects]
  BY TypeOfEffects
<1>3. Cleanup(effect[run]) \in Effects /\ NewEffect(w) \in Effects
  <2>1. effect[run] \in Effects
    BY <1>1, <1>2
  <2>2. Cleanup(effect[run]) \in Effects
    BY <2>1 DEF Cleanup, Effects
  <2>3. 0 \in Versions /\ (w = None) \in BOOLEAN
    BY DEF Versions
  <2>4. (IF w = None THEN "none" ELSE "pending") \in {"none", "pending", "loaded", "failed"}
    OBVIOUS
  <2>5. NewEffect(w) \in Effects
    BY <2>3, <2>4 DEF NewEffect, Effects
  <2> QED BY <2>2, <2>5
<1>4. effect' = [effect EXCEPT ![run] = Cleanup(effect[run]), ![run + 1] = NewEffect(w)]
  BY DEF Rerun
<1>5. effect' \in [Runs -> Effects]
  BY <1>1, <1>2, <1>3, <1>4
<1>6. effect'[run + 1] = NewEffect(w)
  BY <1>1, <1>2, <1>4
<1>7. effect'[run] = Cleanup(effect[run])
  BY <1>1, <1>2, <1>4 DEF Runs
<1>8. ASSUME NEW e \in 1 .. run', e # run' PROVE effect'[e].cancelled /\ effect'[e].closed
  <2>1. CASE e = run
    <3>1. effect[run] \in Effects
      BY <1>1, <1>2
    <3> QED BY <2>1, <1>7, <3>1 DEF Cleanup, Effects
  <2>2. CASE e # run
    <3>1. e \in 1 .. run /\ e \in Runs
      BY <1>1, <1>8, <2>2 DEF Runs
    <3>2. effect'[e] = effect[e]
      BY <3>1, <2>2, <1>8, <1>1, <1>2, <1>4
    <3> QED BY <3>1, <3>2, <2>2 DEF RunInv
  <2> QED BY <2>1, <2>2
<1> QED BY <1>1, <1>5, <1>6, <1>8

\* What is stored for a wallet is what was added for it.
LEMMA LocalOfStore ==
  ASSUME Inv, ~mixed, NEW w \in Wallets, NEW rows, rows = {}
  PROVE  Local(w, rows) = AddedFor(w)
BY DEF Inv, LocalInv, Local

LEMMA LocalType ==
  ASSUME Inv, NEW w \in Wallets, NEW rows \in SUBSET Activities
  PROVE  Local(w, rows) \subseteq Activities
BY DEF Inv, TypeOK, Local

LEMMA ConnectStep == ASSUME Inv, NEW w \in Wallets, Connect(w) PROVE Inv'
<1> USE HookAssumption
<1>1. w \in Wallets \cup {None} /\ Rerun(w) /\ wallet' = w /\ w # None
  BY DEF Connect
<1>2. /\ run' \in Runs /\ run' = run + 1 /\ effect' \in [Runs -> Effects]
      /\ effect'[run'] = NewEffect(w)
      /\ \A e \in 1 .. run' : e # run' => effect'[e].cancelled /\ effect'[e].closed
  BY <1>1, RerunLeaves
<1>3. chart' = Chart(w, portfolio, activities)
  BY DEF Connect
<1>4. ~mixed' => ~mixed /\ wallet = None
  BY DEF Connect
<1>5. TypeOK'
  <2>1. chart' \in [key : Wallets \cup {None}, of : SUBSET (Wallets \cup {None})]
    BY <1>1, <1>3, ChartType DEF Inv, TypeOK
  <2>2. localRows' \subseteq Activities
    BY LocalType DEF Connect, Inv, TypeOK
  <2>3. mount' \in 1 .. run'
    BY <1>2 DEF Connect, Inv, TypeOK, Runs
  <2>4. mixed' \in BOOLEAN
    BY DEF Connect, Inv, TypeOK
  <2> QED BY <1>1, <1>2, <2>1, <2>2, <2>3, <2>4 DEF Connect, Inv, TypeOK, Effects
<1>6. RunInv'
  BY <1>1, <1>2 DEF Connect, RunInv, NewEffect
<1>7. EmptyInv'
  BY <1>1 DEF Connect, Inv, EmptyInv
<1>8. OwnInv'
  <2>1. effect'[run'].load # "loaded"
    BY <1>2 DEF NewEffect
  <2>2. ASSUME ~mixed' PROVE Own(w)'
    BY <2>2, <1>4 DEF Connect, Inv, EmptyInv, Own, NoPortfolio, Listed
  <2> QED BY <2>1, <2>2, <1>1 DEF OwnInv, Own
<1>9. LocalInv'
  <2> SUFFICES ASSUME ~mixed' PROVE localRows' = AddedFor(w) /\ \A x \in Wallets : store[x] = AddedFor(x)
    BY <1>1 DEF LocalInv, Connect, AddedFor
  <2>1. localRows = {}
    <3>1. localRows = AddedFor(None)
      BY <1>4 DEF Inv, LocalInv
    <3> QED BY <3>1 DEF AddedFor, Inv, TypeOK, Activities
  <2>2. localRows' = Local(w, localRows)
    BY DEF Connect
  <2> QED BY <1>4, <2>1, <2>2, LocalOfStore DEF Inv, LocalInv
<1>10. ChartInv'
  <2> SUFFICES ASSUME ~mixed' PROVE chart'.key # None => chart'.of \subseteq {chart'.key}
    BY DEF ChartInv
  <2>1. portfolio.version = 0 /\ Listed(activities) = {}
    BY <1>4 DEF Inv, EmptyInv, NoPortfolio
  <2>2. chart' = chart
    BY <2>1, <1>3 DEF Chart
  <2> QED BY <2>2, <1>4 DEF Inv, ChartInv
<1>11. OnceInv'
  BY DEF Connect, Inv, OnceInv
<1> QED BY <1>5, <1>6, <1>7, <1>8, <1>9, <1>10, <1>11 DEF Inv

LEMMA DisconnectStep == ASSUME Inv, Disconnect PROVE Inv'
<1> USE HookAssumption
<1>1. Rerun(None) /\ wallet' = None
  BY DEF Disconnect
<1>2. /\ run' \in Runs /\ run' = run + 1 /\ effect' \in [Runs -> Effects]
      /\ effect'[run'] = NewEffect(None)
      /\ \A e \in 1 .. run' : e # run' => effect'[e].cancelled /\ effect'[e].closed
  BY <1>1, RerunLeaves
<1>3. chart' = Chart(None, portfolio, activities)
  BY DEF Disconnect
<1>4. portfolio' = NoPortfolio /\ Listed(activities)' = {} /\ activities' = NoActivities
  BY ListedOfNothing DEF Disconnect
<1>5. TypeOK'
  <2>1. chart' \in [key : Wallets \cup {None}, of : SUBSET (Wallets \cup {None})]
    BY <1>3, ChartType DEF Inv, TypeOK
  <2>2. mount' \in 1 .. run'
    BY <1>2 DEF Disconnect, Inv, TypeOK, Runs
  <2>3. activities' \in [Activities -> 0 .. 2]
    BY <1>4 DEF NoActivities
  <2>4. portfolio' \in [of : Wallets \cup {None}, version : Versions]
    BY <1>4 DEF NoPortfolio, Versions
  <2> QED BY <1>1, <1>2, <2>1, <2>2, <2>3, <2>4 DEF Disconnect, Inv, TypeOK, Effects
<1>6. RunInv'
  BY <1>1, <1>2 DEF RunInv, NewEffect
<1>7. EmptyInv'
  BY <1>4 DEF EmptyInv, NoPortfolio
<1>8. OwnInv'
  BY <1>1, <1>4 DEF OwnInv, Own, NoPortfolio
<1>9. LocalInv'
  BY <1>1 DEF Disconnect, LocalInv, AddedFor, Inv, TypeOK, Activities
<1>10. ChartInv'
  <2> SUFFICES ASSUME ~mixed PROVE chart'.key # None => chart'.of \subseteq {chart'.key}
    BY DEF ChartInv, Disconnect
  <2> QED BY <1>3, ChartIsOwn DEF Inv, ChartInv
<1>11. OnceInv'
  BY <1>4 DEF OnceInv, NoActivities
<1> QED BY <1>5, <1>6, <1>7, <1>8, <1>9, <1>10, <1>11 DEF Inv

LEMMA RemountStep == ASSUME Inv, NEW w \in Wallets, Remount(w) PROVE Inv'
<1> USE HookAssumption
<1>1. w \in Wallets \cup {None} /\ Rerun(w) /\ wallet' = w /\ w # None
  BY DEF Remount
<1>2. /\ run' \in Runs /\ run' = run + 1 /\ effect' \in [Runs -> Effects]
      /\ effect'[run'] = NewEffect(w)
      /\ \A e \in 1 .. run' : e # run' => effect'[e].cancelled /\ effect'[e].closed
  BY <1>1, RerunLeaves
<1>3. portfolio' = NoPortfolio /\ Listed(activities)' = {} /\ activities' = NoActivities
  BY ListedOfNothing DEF Remount
<1>4. TypeOK'
  <2>1. localRows' \subseteq Activities
    BY LocalType DEF Remount
  <2>2. mount' \in 1 .. run'
    BY <1>2 DEF Remount, Runs
  <2>3. activities' \in [Activities -> 0 .. 2]
    BY <1>3 DEF NoActivities
  <2>4. portfolio' \in [of : Wallets \cup {None}, version : Versions]
    BY <1>3 DEF NoPortfolio, Versions
  <2>5. chart' \in [key : Wallets \cup {None}, of : SUBSET (Wallets \cup {None})]
    BY DEF Remount, NoChart
  <2> QED BY <1>1, <1>2, <2>1, <2>2, <2>3, <2>4, <2>5 DEF Remount, Inv, TypeOK, Effects
<1>5. RunInv'
  BY <1>1, <1>2 DEF Remount, RunInv, NewEffect
<1>6. EmptyInv'
  BY <1>3 DEF EmptyInv, NoPortfolio
<1>7. OwnInv'
  BY <1>1, <1>3 DEF OwnInv, Own, NoPortfolio
<1>8. LocalInv'
  <2> SUFFICES ASSUME ~mixed PROVE localRows' = AddedFor(w) /\ \A x \in Wallets : store[x] = AddedFor(x)
    BY <1>1 DEF LocalInv, Remount, AddedFor
  <2>1. localRows' = Local(w, {})
    BY DEF Remount
  <2> QED BY <2>1, LocalOfStore DEF Inv, LocalInv
<1>9. ChartInv'
  BY DEF ChartInv, Remount, NoChart
<1>10. OnceInv'
  BY <1>3 DEF OnceInv, NoActivities
<1> QED BY <1>4, <1>5, <1>6, <1>7, <1>8, <1>9, <1>10 DEF Inv
-----------------------------------------------------------------------------
(* Steps within a run.                                                     *)

\* An effect keeps its wallet and its flags.
Keeps(e) ==
  /\ effect' \in [Runs -> Effects]
  /\ \A x \in Runs : /\ effect'[x].of = effect[x].of
                     /\ effect'[x].cancelled = effect[x].cancelled
                     /\ effect'[x].closed = effect[x].closed
                     /\ x # e => effect'[x] = effect[x]

LEMMA RunIsEffect ==
  Inv => /\ run \in Runs /\ run \in Nat /\ 1 .. run \subseteq Runs
         /\ effect \in [Runs -> Effects] /\ mount \in 1 .. run
<1> SUFFICES ASSUME Inv PROVE /\ run \in Runs /\ run \in Nat /\ 1 .. run \subseteq Runs
                              /\ effect \in [Runs -> Effects] /\ mount \in 1 .. run
  OBVIOUS
<1>1. run \in Runs /\ effect \in [Runs -> Effects] /\ mount \in 1 .. run
  BY TypeOfEffects DEF Inv, TypeOK
<1> QED BY <1>1, HookAssumption DEF Runs

\* What an earlier run sets is dropped; the last load is not cancelled.
LEMMA OnlyTheLastRun ==
  ASSUME Inv, NEW e \in 1 .. run
  PROVE  NotCancelled(e) <=> e = run
<1>1. effect[run] \in Effects /\ mount \in 1 .. run /\ run \in Nat
  BY RunIsEffect
<1>2. e = run => NotCancelled(e)
  BY <1>1 DEF NotCancelled, Inv, RunInv
<1> QED BY <1>2 DEF NotCancelled, Inv, RunInv

LEMMA OnlyTheLastRunEmits ==
  ASSUME Inv, NEW e \in 1 .. run, NotClosed(e)
  PROVE  e = run
BY DEF NotClosed, Inv, RunInv

LEMMA StepOfRun ==
  ASSUME Inv, NEW e \in 1 .. run, Keeps(e),
         UNCHANGED <<wallet, run, localRows, store, added, mixed>>,
         TypeOK', EmptyInv', OwnInv', ChartInv', OnceInv',
         effect'[run].load = "pending" => isLoading' /\ effect[run].load = "pending"
  PROVE  Inv'
<1>1. run \in Runs /\ 1 .. run \subseteq Runs
  BY RunIsEffect
<1>2. RunInv'
  BY <1>1 DEF RunInv, Keeps, Inv
<1>3. LocalInv'
  BY DEF LocalInv, AddedFor, Inv
<1> QED BY <1>2, <1>3 DEF Inv

\* Type correctness, when only what is shown and one effect change.
LEMMA TypeOfStep ==
  ASSUME Inv, NEW e \in 1 .. run, Keeps(e), faults' \in 0 .. MaxFaults,
         UNCHANGED <<world, wallet, run, mount, localRows, store, added, mixed>>,
         portfolio' \in [of : Wallets \cup {None}, version : Versions],
         activities' \in [Activities -> 0 .. 2], isLoading' \in BOOLEAN,
         chart' = chart \/ chart' = Chart(wallet, portfolio', activities')
  PROVE  TypeOK'
<1>1. wallet \in Wallets \cup {None} /\ TypeOK
  BY DEF Inv, TypeOK
<1>2. chart' \in [key : Wallets \cup {None}, of : SUBSET (Wallets \cup {None})]
  <2>1. CASE chart' = chart
    BY <2>1, <1>1 DEF TypeOK
  <2>2. CASE chart' = Chart(wallet, portfolio', activities')
    BY <2>2, <1>1, ChartType
  <2> QED BY <2>1, <2>2
<1> QED BY <1>1, <1>2 DEF TypeOK, Keeps, Effects

LEMMA LoadAnswersStep == ASSUME Inv, NEW e \in 1 .. run, LoadAnswers(e) PROVE Inv'
<1> USE HookAssumption
<1>1. /\ run \in Runs /\ e \in Runs /\ effect \in [Runs -> Effects]
      /\ effect[e] \in Effects /\ effect[e].load = "pending"
      /\ effect' = [effect EXCEPT ![e].load = "loaded"]
  BY RunIsEffect DEF LoadAnswers
<1>2. Keeps(e) /\ effect'[e].load = "loaded"
  BY <1>1 DEF Keeps, Effects
<1>3. UNCHANGED <<world, faults, wallet, run, mount, localRows, store, added, mixed>>
  BY DEF LoadAnswers
<1>4. CASE e # run
  <2>1. UNCHANGED <<portfolio, activities, isLoading, chart>>
    BY <1>4, OnlyTheLastRun DEF LoadAnswers, shown
  <2>2. effect'[run] = effect[run]
    BY <1>1, <1>2, <1>4 DEF Keeps
  <2>3. TypeOK'
    BY <1>2, <1>3, <2>1, TypeOfStep DEF Inv, TypeOK
  <2>4. EmptyInv' /\ OwnInv' /\ ChartInv' /\ OnceInv'
    BY <1>3, <2>1, <2>2 DEF Inv, EmptyInv, OwnInv, Own, ChartInv, OnceInv, Listed
  <2> QED BY <1>2, <1>3, <2>1, <2>2, <2>3, <2>4, StepOfRun DEF Inv, RunInv
<1>5. CASE e = run
  <2>1. PICK v \in 0 .. world[effect[e].of], n \in 0 .. world[effect[e].of] :
          /\ portfolio' = [of |-> effect[e].of, version |-> v]
          /\ activities' = Page(effect[e].of, n)
          /\ isLoading' = FALSE
          /\ chart' = Chart(wallet, portfolio', activities')
    BY <1>5, OnlyTheLastRun DEF LoadAnswers
  <2>2. effect[e].of = wallet
    BY <1>5 DEF Inv, RunInv
  <2>3. wallet \in Wallets
    BY <1>1, <1>5 DEF Inv, RunInv, TypeOK
  <2>4. v \in Versions /\ n \in Versions
    <3>1. world[wallet] \in Versions
      BY <2>3 DEF Inv, TypeOK
    <3> QED BY <3>1, <2>2 DEF Versions
  <2>5. /\ portfolio' \in [of : Wallets \cup {None}, version : Versions]
        /\ activities' \in [Activities -> 0 .. 2] /\ OnceInv'
    BY <2>1, <2>2, <2>3, <2>4, PageIsOwn DEF OnceInv
  <2>6. Own(wallet)'
    BY <1>3, <2>1, <2>2, PageIsOwn DEF Own
  <2>7. EmptyInv' /\ OwnInv'
    BY <1>3, <2>1, <2>2, <2>3, <2>6 DEF EmptyInv, OwnInv, Own
  <2>8. ChartInv'
    <3> SUFFICES ASSUME ~mixed PROVE chart'.key # None => chart'.of \subseteq {chart'.key}
      BY <1>3 DEF ChartInv
    <3>1. portfolio'.of = wallet /\ \A a \in Listed(activities') : a.of = wallet
      BY <2>1, <2>2, PageIsOwn
    <3> QED BY <2>1, <3>1, ChartIsOwn DEF Inv, ChartInv
  <2>9. TypeOK'
    BY <1>2, <1>3, <2>1, <2>5, TypeOfStep DEF Inv, TypeOK
  <2> QED BY <1>2, <1>3, <1>5, <2>5, <2>7, <2>8, <2>9, StepOfRun
<1> QED BY <1>4, <1>5

LEMMA LoadFailsStep == ASSUME Inv, NEW e \in 1 .. run, LoadFails(e) PROVE Inv'
<1> USE HookAssumption
<1>1. /\ run \in Runs /\ e \in Runs /\ effect \in [Runs -> Effects]
      /\ effect[e] \in Effects /\ effect[e].load = "pending"
      /\ effect' = [effect EXCEPT ![e].load = "failed"]
  BY RunIsEffect DEF LoadFails
<1>2. Keeps(e) /\ effect'[e].load = "failed"
  BY <1>1 DEF Keeps, Effects
<1>3. UNCHANGED <<world, wallet, run, mount, portfolio, activities, localRows, store, chart,
                  added, mixed>>
  BY DEF LoadFails
<1>4. isLoading' = IF e = run THEN FALSE ELSE isLoading
  BY OnlyTheLastRun DEF LoadFails
<1>5. faults' \in 0 .. MaxFaults /\ isLoading' \in BOOLEAN
  <2>1. faults' \in 0 .. MaxFaults
    BY DEF LoadFails, Inv, TypeOK
  <2>2. isLoading \in BOOLEAN
    BY DEF Inv, TypeOK
  <2>3. isLoading' \in BOOLEAN
    BY <1>4, <2>2
  <2> QED BY <2>1, <2>3
<1>6. TypeOK'
  BY <1>2, <1>3, <1>5, TypeOfStep DEF Inv, TypeOK
<1>7. e # run => effect'[run] = effect[run]
  BY <1>1, <1>2 DEF Keeps
<1>8. EmptyInv' /\ ChartInv' /\ OnceInv'
  BY <1>3 DEF Inv, EmptyInv, ChartInv, OnceInv, Listed
<1>9. OwnInv'
  <2>1. effect'[run].load = "loaded" => effect[run].load = "loaded"
    BY <1>2, <1>7
  <2> QED BY <1>3, <2>1 DEF Inv, OwnInv, Own, Listed
<1>10. effect'[run].load = "pending" => isLoading' /\ effect[run].load = "pending"
  BY <1>2, <1>4, <1>7 DEF Inv, RunInv
<1> QED BY <1>2, <1>3, <1>6, <1>8, <1>9, <1>10, StepOfRun

LEMMA PortfolioEmitsStep ==
  ASSUME Inv, NEW e \in 1 .. run, NEW v \in Versions, PortfolioEmits(e, v) PROVE Inv'
<1> USE HookAssumption
<1>1. e = run
  BY OnlyTheLastRunEmits DEF PortfolioEmits
<1>2. /\ run \in Runs /\ effect \in [Runs -> Effects] /\ effect[e] \in Effects
      /\ effect' = [effect EXCEPT ![e].emitted = v]
  BY <1>1, RunIsEffect DEF PortfolioEmits
<1>3. Keeps(e) /\ effect'[run].load = effect[run].load
  BY <1>1, <1>2 DEF Keeps, Effects
<1>4. UNCHANGED <<world, faults, wallet, run, mount, activities, isLoading, localRows, store,
                  added, mixed>>
  BY DEF PortfolioEmits
<1>5. wallet # None /\ portfolio' = [of |-> wallet, version |-> v]
  BY <1>1 DEF PortfolioEmits, Inv, RunInv
<1>6. chart' = Chart(wallet, portfolio', activities')
  BY <1>4 DEF PortfolioEmits
<1>7. TypeOK'
  <2>1. portfolio' \in [of : Wallets \cup {None}, version : Versions]
    BY <1>5 DEF Inv, TypeOK
  <2> QED BY <2>1, <1>3, <1>4, <1>6, TypeOfStep DEF Inv, TypeOK
<1>8. EmptyInv' /\ OnceInv'
  BY <1>4, <1>5 DEF Inv, EmptyInv, OnceInv
<1>9. OwnInv'
  BY <1>3, <1>4, <1>5 DEF Inv, OwnInv, Own, Listed
<1>10. ChartInv'
  <2> SUFFICES ASSUME ~mixed PROVE chart'.key # None => chart'.of \subseteq {chart'.key}
    BY <1>4 DEF ChartInv
  <2>1. portfolio'.of = wallet /\ \A a \in Listed(activities') : a.of = wallet
    BY <1>4, <1>5 DEF Inv, OwnInv, Own, Listed
  <2> QED BY <1>6, <2>1, ChartIsOwn DEF Inv, ChartInv
<1> QED BY <1>3, <1>4, <1>7, <1>8, <1>9, <1>10, StepOfRun DEF Inv, RunInv

LEMMA ActivityEmitsStep ==
  ASSUME Inv, NEW e \in 1 .. run, ActivityEmits(e) PROVE Inv'
<1> USE HookAssumption
<1>1. e = run /\ effect[e].of = wallet /\ wallet # None
  BY OnlyTheLastRunEmits DEF ActivityEmits, Inv, RunInv
<1>2. PICK n \in (1 .. world[wallet]) \ effect[e].seen :
        /\ effect' = [effect EXCEPT ![e].seen = @ \cup {n}]
        /\ activities' = Merge(activities, [of |-> wallet, number |-> n])
  BY <1>1 DEF ActivityEmits
<1>3. wallet \in Wallets /\ world[wallet] \in Versions
  BY <1>1 DEF Inv, TypeOK
<1>4. n \in 1 .. MaxLanded
  BY <1>2, <1>3 DEF Versions
<1>5. Keeps(e) /\ effect'[run].load = effect[run].load
  <2>1. run \in Runs /\ effect \in [Runs -> Effects] /\ effect[e] \in Effects
    BY <1>1, RunIsEffect
  <2>2. effect[e].seen \cup {n} \subseteq 1 .. MaxLanded
    BY <1>4, <2>1 DEF Effects
  <2> QED BY <1>1, <1>2, <2>1, <2>2 DEF Keeps, Effects
<1>6. UNCHANGED <<world, faults, wallet, run, mount, portfolio, isLoading, localRows, store,
                  added, mixed>>
  BY DEF ActivityEmits
<1>7. chart' = Chart(wallet, portfolio', activities')
  BY <1>6 DEF ActivityEmits
<1> DEFINE a == [of |-> wallet, number |-> n]
<1>8. a \in Activities /\ a.of = wallet
  BY <1>3, <1>4 DEF Activities
<1>9. activities' = [activities EXCEPT ![a] = IF @ = 0 THEN 1 ELSE @]
  BY <1>2 DEF Merge
<1>10. activities \in [Activities -> 0 .. 2]
  BY DEF Inv, TypeOK
<1> HIDE DEF a
<1>11. activities' \in [Activities -> 0 .. 2] /\ OnceInv'
  BY <1>8, <1>9, <1>10 DEF Inv, OnceInv
<1>12. \A b \in Listed(activities') : b \in Listed(activities) \/ b = a
  BY <1>8, <1>9, <1>10 DEF Listed
<1>13. TypeOK'
  BY <1>5, <1>6, <1>7, <1>11, TypeOfStep DEF Inv, TypeOK
<1>14. EmptyInv'
  BY <1>1, <1>6 DEF Inv, EmptyInv
<1>15. OwnInv'
  BY <1>5, <1>6, <1>8, <1>12 DEF Inv, OwnInv, Own
<1>16. ChartInv'
  <2> SUFFICES ASSUME ~mixed PROVE chart'.key # None => chart'.of \subseteq {chart'.key}
    BY <1>6 DEF ChartInv
  <2>1. portfolio'.of = wallet \/ portfolio'.version = 0
    BY <1>6 DEF Inv, OwnInv, Own, EmptyInv
  <2>2. \A b \in Listed(activities') : b.of = wallet
    BY <1>6, <1>8, <1>12 DEF Inv, OwnInv, Own
  <2> QED BY <1>7, <2>1, <2>2, ChartIsOwn DEF Inv, ChartInv
<1> QED BY <1>5, <1>6, <1>11, <1>13, <1>14, <1>15, <1>16, StepOfRun DEF Inv, RunInv

LEMMA AddStep == ASSUME Inv, NEW row \in Activities, AddLocalActivity(row) PROVE Inv'
<1> USE HookAssumption
<1>1. UNCHANGED <<world, faults, wallet, run, mount, effect, portfolio, activities, isLoading,
                  chart>>
  BY DEF AddLocalActivity, shown
<1>2. /\ localRows' = localRows \cup {row} /\ added' = added \cup {row}
      /\ store' = [store EXCEPT ![row.of] = localRows']
      /\ mixed' = (mixed \/ row.of # wallet)
  BY DEF AddLocalActivity, Add
<1>3. row.of \in Wallets
  BY DEF Activities
<1>4. TypeOK'
  <2>1. mixed' \in BOOLEAN
    BY <1>2
  <2>2. localRows' \subseteq Activities /\ added' \subseteq Activities
        /\ store' \in [Wallets -> SUBSET Activities]
    BY <1>2, <1>3 DEF Inv, TypeOK
  <2> QED BY <1>1, <2>1, <2>2 DEF Inv, TypeOK
<1>5. RunInv' /\ EmptyInv' /\ OnceInv'
  BY <1>1 DEF Inv, RunInv, EmptyInv, OnceInv, Listed
<1>6. OwnInv' /\ ChartInv'
  BY <1>1, <1>2 DEF Inv, OwnInv, Own, ChartInv, Listed
<1>7. LocalInv'
  <2> SUFFICES ASSUME ~mixed, row.of = wallet
               PROVE  /\ localRows' = AddedFor(wallet)'
                      /\ \A w \in Wallets : store'[w] = AddedFor(w)'
    BY <1>1, <1>2 DEF LocalInv, AddedFor
  <2>1. localRows' = AddedFor(wallet)'
    BY <1>1, <1>2 DEF Inv, LocalInv, AddedFor
  <2>2. ASSUME NEW w \in Wallets PROVE store'[w] = AddedFor(w)'
    <3>1. CASE w = wallet
      BY <2>1, <3>1, <1>1, <1>2 DEF Inv, TypeOK, AddedFor
    <3>2. CASE w # wallet
      <4>1. store'[w] = store[w]
        BY <3>2, <1>2 DEF Inv, TypeOK
      <4> QED BY <3>2, <4>1, <1>2 DEF Inv, LocalInv, AddedFor
    <3> QED BY <3>1, <3>2
  <2> QED BY <2>1, <2>2
<1> QED BY <1>4, <1>5, <1>6, <1>7 DEF Inv

LEMMA LandsStep == ASSUME Inv, NEW w \in Wallets, Lands(w) PROVE Inv'
<1>1. UNCHANGED <<faults, wallet, run, mount, effect, portfolio, activities, isLoading, localRows,
                  store, chart, added, mixed>>
  BY DEF Lands, shown
<1>2. world' \in [Wallets -> Versions]
  BY HookAssumption DEF Lands, Inv, TypeOK, Versions
<1>3. TypeOK'
  BY <1>1, <1>2 DEF Inv, TypeOK
<1> QED BY <1>1, <1>3 DEF Inv, RunInv, EmptyInv, OwnInv, Own, LocalInv, AddedFor, ChartInv,
                          OnceInv, Listed

LEMMA Inductive == Inv /\ [Next]_vars => Inv'
<1> SUFFICES ASSUME Inv, [Next]_vars PROVE Inv'
  OBVIOUS
<1>1. CASE \E w \in Wallets : Connect(w) \/ Remount(w) \/ Lands(w)
  BY <1>1, ConnectStep, RemountStep, LandsStep
<1>2. CASE Disconnect
  BY <1>2, DisconnectStep
<1>3. CASE \E e \in 1 .. run : EffectStep(e)
  BY <1>3, LoadAnswersStep, LoadFailsStep, PortfolioEmitsStep, ActivityEmitsStep DEF EffectStep
<1>4. CASE \E row \in Activities : AddLocalActivity(row)
  BY <1>4, AddStep
<1>5. CASE UNCHANGED vars
  BY <1>5 DEF vars, shown, Inv, TypeOK, RunInv, EmptyInv, OwnInv, Own, LocalInv, AddedFor,
              ChartInv, OnceInv, Listed
<1> QED BY <1>1, <1>2, <1>3, <1>4, <1>5 DEF Next

\* Every step of the hook preserves what its effects rely on.
LEMMA InvHolds == Spec => []Inv
BY InitInv, Inductive, PTL DEF Spec

\* Every variable of the hook stays in its range.
THEOREM HookTypeCorrect == Spec => []TypeOK
<1>1. Inv => TypeOK
  BY DEF Inv
<1> QED BY <1>1, InvHolds, PTL

\* Late answers, switches, disconnects and remounts never show another wallet's
\* data once the wallet is loaded, nor an activity twice, nor lose a local row.
THEOREM WalletIsShown == Spec => []ShowsItsWallet
<1>1. Inv => ShowsItsWallet
  <2> SUFFICES ASSUME Inv PROVE ShowsItsWallet
    OBVIOUS
  <2>1. wallet = None => portfolio = NoPortfolio /\ Listed(activities) = {}
    BY DEF Inv, EmptyInv
  <2>2. effect[run].load = "loaded" \/ ~mixed
          => portfolio.of \in {wallet, None} /\ \A a \in Listed(activities) : a.of = wallet
    BY DEF Inv, OwnInv, Own
  <2>3. ~mixed => /\ wallet # None /\ chart.key = wallet => chart.of \subseteq {wallet}
                  /\ localRows = {row \in added : row.of = wallet}
    BY DEF Inv, LocalInv, ChartInv, AddedFor
  <2>4. \A a \in Activities : activities[a] <= 1
    BY DEF Inv, OnceInv
  <2> QED BY <2>1, <2>2, <2>3, <2>4 DEF ShowsItsWallet
<1> QED BY <1>1, InvHolds, PTL

\* Once a wallet is loaded its rows only grow, until the effects run again.
THEOREM RowsStay == Spec => NothingVanishes
<1> DEFINE Grows == ~isLoading /\ run' = run
                      => Displayed(activities, localRows) \subseteq Displayed(activities', localRows')
<1>1. Inv /\ [Next]_vars => [Grows]_vars
  <2> SUFFICES ASSUME Inv, Next, ~isLoading, run' = run
               PROVE  Displayed(activities, localRows) \subseteq Displayed(activities', localRows')
    OBVIOUS
  <2>1. run \in Nat
    BY RunIsEffect
  <2>2. ~(\E w \in Wallets : Connect(w) \/ Remount(w)) /\ ~Disconnect
    BY <2>1 DEF Connect, Remount, Disconnect, Rerun
  <2>3. CASE \E w \in Wallets : Lands(w)
    BY <2>3 DEF Lands, shown, Displayed, Listed
  <2>4. CASE \E e \in 1 .. run : EffectStep(e)
    <3>1. PICK e \in 1 .. run : EffectStep(e)
      BY <2>4
    <3>2. CASE LoadAnswers(e)
      <4>1. e # run
        BY <3>2 DEF LoadAnswers, Inv, RunInv
      <4> QED BY <3>2, <4>1, OnlyTheLastRun DEF LoadAnswers, shown, Displayed, Listed
    <3>3. CASE LoadFails(e)
      BY <3>3 DEF LoadFails, Displayed, Listed
    <3>4. CASE \E v \in Versions : PortfolioEmits(e, v)
      BY <3>4 DEF PortfolioEmits, Displayed, Listed
    <3>5. CASE ActivityEmits(e)
      <4>1. PICK a : activities' = Merge(activities, a)
        BY <3>5 DEF ActivityEmits
      <4>2. localRows' = localRows /\ activities \in [Activities -> 0 .. 2]
        BY <3>5 DEF ActivityEmits, Inv, TypeOK
      <4> QED BY <4>1, <4>2 DEF Merge, Displayed, Listed
    <3> QED BY <3>1, <3>2, <3>3, <3>4, <3>5 DEF EffectStep
  <2>5. CASE \E row \in Activities : AddLocalActivity(row)
    BY <2>5 DEF AddLocalActivity, Add, shown, Displayed, Listed
  <2> QED BY <2>2, <2>3, <2>4, <2>5 DEF Next
<1> QED BY <1>1, InvHolds, PTL DEF Spec, NothingVanishes

-----------------------------------------------------------------------------
(* The activity feed.  An activity is only ever given from a page or a     *)
(* notice that is not far behind the chain, and forgotten only when so     *)
(* many newer ones have been given that none such shows it any more.       *)

Between(s, n) == {t \in history.relevant : s < t /\ t <= n}
Behind(s, n) == Cardinality(Between(s, n))

\* An activity given is one of so many newest: those of a page, those that were
\* late when it was read and those that have landed since.
Reach == Limit + 2 * MaxBehind

ActivityType == ActivityTypeOK /\ \A l \in Loads : load[l].asks < MaxPages

NearInv ==
  /\ \A s \in late : landed <= s + MaxBehind
  /\ \A s \in fetching : s <= landed /\ landed <= s + MaxBehind

\* Of the relevant signatures behind its cursor, a loader has found all but such as
\* were late.
LoadInv ==
  \A l \in Loads :
    LET x == load[l] IN
    /\ x.asks = 0 => x.found = {}
    /\ x.asks > 0 =>
         /\ landed <= x.top + MaxBehind /\ x.cursor <= x.top + 1
         /\ \A s \in x.found : s \in history.relevant /\ x.cursor <= s /\ s <= x.top
         /\ \A t \in history.relevant :
              x.cursor <= t /\ t <= x.top => t \in x.found \/ x.top <= t + MaxBehind

CacheInv ==
  cache.valid =>
    /\ landed <= cache.top + MaxBehind
    /\ \A s \in cache.page : s \in history.relevant /\ s <= cache.top
                             /\ Behind(s, cache.top) <= Limit + MaxBehind

EmitInv ==
  \A s \in emitting : s \in history.relevant /\ s <= landed /\ Behind(s, landed) <= Reach

\* What is remembered, and in which order, of the sequence q; who comes behind a
\* newer one was in reach when that one had landed.
Remembers(q, g) ==
  /\ \A i \in DOMAIN q : q[i] \in history.relevant /\ q[i] <= landed /\ g[q[i]] = 1
  /\ \A i, j \in DOMAIN q : q[i] = q[j] => i = j
  /\ \A i, j \in DOMAIN q : i < j /\ q[j] < q[i] => Behind(q[j], q[i]) <= Reach

\* What has been given is remembered, or out of reach.
Forgets(q, g) ==
  \A s \in Signatures :
    /\ g[s] <= 1
    /\ g[s] = 1 => (\E i \in DOMAIN q : q[i] = s) \/ Behind(s, landed) > Reach

ReachInv == ActivityType /\ NearInv /\ LoadInv /\ CacheInv /\ EmitInv

GivenInv == Remembers(seen, given) /\ Forgets(seen, given)

-----------------------------------------------------------------------------
LEMMA FeedNumbers ==
  /\ Limit \in Nat /\ Limit > 0 /\ BatchSize \in Nat /\ BatchSize > 0
  /\ MaxPages \in Nat /\ MaxPages > 0 /\ SignatureCap \in Nat /\ SignatureCap > 0
  /\ MaxSignature \in Nat /\ MaxBehind \in Nat /\ MaxFailures \in Nat /\ Reach \in Nat
BY ActivityAssumption DEF Reach

LEMMA RelevantSignatures ==
  ASSUME ActivityTypeOK PROVE history.relevant \subseteq Signatures /\ landed \in Nat
BY ActivityAssumption, FeedNumbers DEF ActivityTypeOK, AllHistories

LEMMA SignaturesFinite == IsFiniteSet(Signatures) /\ Signatures \subseteq Nat \ {0}
<1>1. IsFiniteSet(1 .. MaxSignature)
  BY FeedNumbers, FS_Interval
<1> QED BY <1>1, FeedNumbers DEF Signatures

LEMMA Counts ==
  ASSUME ActivityTypeOK, NEW s, NEW n
  PROVE  IsFiniteSet(Between(s, n)) /\ Between(s, n) \subseteq Signatures /\ Behind(s, n) \in Nat
<1>1. Between(s, n) \in SUBSET Signatures
  BY RelevantSignatures DEF Between
<1>2. IsFiniteSet(Between(s, n))
  BY <1>1, SignaturesFinite, FS_Subset
<1> QED BY <1>1, <1>2, FS_CardinalityType DEF Behind

\* A set of signatures counts no more than one that holds it.
LEMMA Holds ==
  ASSUME NEW S, NEW T, IsFiniteSet(T), S \subseteq T
  PROVE  IsFiniteSet(S) /\ Cardinality(S) <= Cardinality(T)
         /\ Cardinality(S) \in Nat /\ Cardinality(T) \in Nat
<1>1. IsFiniteSet(S) /\ Cardinality(S) <= Cardinality(T)
  BY FS_Subset
<1> QED BY <1>1, FS_CardinalityType

LEMMA Together ==
  ASSUME NEW S, NEW T, NEW U, IsFiniteSet(S), IsFiniteSet(T), U \subseteq S \cup T
  PROVE  /\ Cardinality(U) <= Cardinality(S) + Cardinality(T)
         /\ Cardinality(U) \in Nat /\ Cardinality(S) \in Nat /\ Cardinality(T) \in Nat
<1>1. /\ IsFiniteSet(S \cup T)
      /\ Cardinality(S \cup T) = Cardinality(S) + Cardinality(T) - Cardinality(S \cap T)
  BY FS_Union
<1>2. IsFiniteSet(S \cap T) /\ Cardinality(S \cap T) \in Nat
  BY FS_Intersection, FS_CardinalityType
<1>3. Cardinality(U) <= Cardinality(S \cup T) /\ Cardinality(U) \in Nat
  BY <1>1, Holds
<1>4. Cardinality(S) \in Nat /\ Cardinality(T) \in Nat
  BY FS_CardinalityType
<1> QED BY <1>1, <1>2, <1>3, <1>4

\* What is behind n is behind m, and at most m - n more are.
LEMMA BehindLater ==
  ASSUME ActivityTypeOK, NEW s \in Nat, NEW n \in Nat, NEW m \in Nat, n <= m
  PROVE  /\ Behind(s, n) <= Behind(s, m) /\ Behind(s, m) <= Behind(s, n) + (m - n)
         /\ Behind(s, n) \in Nat /\ Behind(s, m) \in Nat
<1>1. IsFiniteSet(Between(s, n)) /\ IsFiniteSet(Between(s, m))
      /\ Behind(s, n) \in Nat /\ Behind(s, m) \in Nat
  BY Counts
<1>2. history.relevant \subseteq Nat
  BY RelevantSignatures, SignaturesFinite
<1>3. Between(s, n) \subseteq Between(s, m)
  BY <1>2 DEF Between
<1>4. Behind(s, n) <= Behind(s, m)
  BY <1>1, <1>3, Holds DEF Behind
<1>5. Between(s, m) \subseteq Between(s, n) \cup ((n + 1) .. m)
  BY <1>2 DEF Between
<1>6. IsFiniteSet((n + 1) .. m) /\ Cardinality((n + 1) .. m) = m - n
  <2>1. n + 1 \in Int /\ m \in Int /\ (IF n + 1 > m THEN 0 ELSE m - (n + 1) + 1) = m - n
    OBVIOUS
  <2>2. IsFiniteSet((n + 1) .. m)
        /\ Cardinality((n + 1) .. m) = IF n + 1 > m THEN 0 ELSE m - (n + 1) + 1
    BY <2>1, FS_Interval
  <2> QED BY <2>1, <2>2
<1>7. Behind(s, m) <= Behind(s, n) + (m - n)
  BY <1>1, <1>5, <1>6, Together DEF Behind
<1> QED BY <1>1, <1>4, <1>7

-----------------------------------------------------------------------------
(* What a request finds.                                                   *)

\* What ReadBatch computes.
Asks(l) == load[l].asks + 1
Top(l) == IF Asks(l) = 1 THEN landed ELSE load[l].top
Cursor(l) == IF Asks(l) = 1 THEN landed + 1 ELSE load[l].cursor
Found(l) == load[l].found \cup ((Batch(Cursor(l)) \cap history.relevant) \ late)
NextCursor(l) == IF Cursor(l) > BatchSize THEN Cursor(l) - BatchSize ELSE 1

\* The signatures before a cursor are those of the batch or before the next one.
LEMMA BatchFound ==
  ASSUME ReachInv, NEW l \in Loads, load[l].runs
  PROVE  LET asks == Asks(l) top == Top(l) found == Found(l) next == NextCursor(l) IN
         /\ asks \in 1 .. MaxPages /\ top \in 0 .. landed /\ landed <= top + MaxBehind
         /\ next \in 0 .. landed + 1 /\ next <= top + 1 /\ found \in Pages
         /\ \A s \in found : s \in history.relevant /\ next <= s /\ s <= top
         /\ \A t \in history.relevant :
              next <= t /\ t <= top => t \in found \/ top <= t + MaxBehind
<1> DEFINE asks == Asks(l)
           top == Top(l)
           cursor == Cursor(l)
           found == Found(l)
           next == NextCursor(l)
<1> USE FeedNumbers DEF Asks, Top, Cursor, Found, NextCursor
<1>1. /\ load[l].asks \in Nat /\ load[l].asks < MaxPages /\ load[l].top \in 0 .. landed
      /\ load[l].cursor \in 0 .. landed + 1 /\ load[l].found \in Pages /\ landed \in Nat
      /\ history.relevant \subseteq Signatures
  <2>1. ActivityTypeOK /\ load[l].asks < MaxPages
    BY DEF ReachInv, ActivityType
  <2>2. load[l] \in [runs : BOOLEAN, top : 0 .. landed, cursor : 0 .. landed + 1,
                     asks : 0 .. MaxPages, found : Pages]
    BY <2>1 DEF ActivityTypeOK
  <2> QED BY <2>1, <2>2, RelevantSignatures
<1>2. Signatures \subseteq Nat \ {0}
  BY SignaturesFinite
<1>3. /\ load[l].asks = 0 => load[l].found = {}
      /\ load[l].asks > 0 =>
         /\ landed <= load[l].top + MaxBehind /\ load[l].cursor <= load[l].top + 1
         /\ \A s \in load[l].found : s \in history.relevant /\ load[l].cursor <= s /\ s <= load[l].top
         /\ \A t \in history.relevant : load[l].cursor <= t /\ t <= load[l].top
              => t \in load[l].found \/ load[l].top <= t + MaxBehind
  BY DEF ReachInv, LoadInv
<1>4. asks \in 1 .. MaxPages /\ top \in 0 .. landed /\ landed <= top + MaxBehind
      /\ cursor \in 0 .. landed + 1
  BY <1>1, <1>3
<1>5. next \in 0 .. landed + 1 /\ found \in Pages
  BY <1>1, <1>4 DEF Pages, Batch
<1>6. \A s \in late : landed <= s + MaxBehind /\ s \in Nat
  BY <1>1 DEF ReachInv, NearInv, ActivityType, ActivityTypeOK
<1>7. cursor <= top + 1
  <2>1. CASE asks = 1
    BY <2>1, <1>1
  <2>2. CASE asks # 1
    BY <2>2, <1>1, <1>3
  <2> QED BY <2>1, <2>2
<1>8. ASSUME NEW s \in found PROVE s \in history.relevant /\ next <= s /\ s <= top
  <2>1. CASE s \in load[l].found
    <3>1. load[l].asks > 0 /\ asks # 1
      BY <2>1, <1>1, <1>3
    <3>2. s \in history.relevant /\ cursor <= s /\ s <= top
      BY <3>1, <2>1, <1>3
    <3>3. s \in Nat \ {0}
      BY <3>2, <1>1, <1>2
    <3>4. next <= s
      BY <3>2, <3>3, <1>4
    <3> QED BY <3>2, <3>4
  <2>2. CASE s \in Batch(cursor) /\ s \in history.relevant
    BY <2>2, <1>1, <1>2, <1>4, <1>7 DEF Batch
  <2> QED BY <2>1, <2>2
<1>9. ASSUME NEW t \in history.relevant, next <= t, t <= top, t \notin found
      PROVE  top <= t + MaxBehind
  <2>1. t \in Signatures /\ t \in Nat
    BY <1>1, <1>2
  <2>2. CASE t < cursor
    <3>1. t \in Batch(cursor)
      BY <2>1, <2>2, <1>9, <1>4 DEF Batch
    <3>2. t \in late
      BY <3>1, <1>9
    <3>3. landed <= t + MaxBehind /\ top \in Nat /\ top <= landed /\ landed \in Nat
      BY <3>2, <1>6, <1>4, <1>1
    <3> QED BY <3>3, <2>1
  <2>3. CASE cursor <= t
    <3>1. asks # 1
      BY <2>3, <2>1, <1>9, <1>4, <1>1
    <3> QED BY <3>1, <2>3, <2>1, <1>9, <1>1, <1>3
  <2> QED BY <2>1, <2>2, <2>3, <1>4
<1>10. next <= top + 1
  BY <1>4, <1>7
<1> QED BY <1>4, <1>5, <1>8, <1>9, <1>10

\* An activity of a page is behind at most Limit - 1 others of the page, and those
\* that were late.
LEMMA PageInReach ==
  ASSUME ActivityTypeOK, NEW top \in Nat, NEW found \in Pages, NEW next \in Nat,
         \A s \in found : s \in history.relevant /\ next <= s /\ s <= top,
         \A t \in history.relevant :
           next <= t /\ t <= top => t \in found \/ top <= t + MaxBehind,
         NEW s \in NewestOf(found)
  PROVE  s \in history.relevant /\ s <= top /\ Behind(s, top) <= Limit + MaxBehind
<1> USE FeedNumbers
<1> DEFINE Newer == {t \in found : t > s}
           Lately == (top - MaxBehind) .. top
<1>1. s \in found /\ Cardinality(Newer) < Limit
  BY DEF NewestOf
<1>2. history.relevant \subseteq Nat /\ s \in Nat
  BY <1>1, RelevantSignatures, SignaturesFinite
<1>3. IsFiniteSet(Newer)
  <2>1. Newer \subseteq Signatures
    BY DEF Pages
  <2> QED BY <2>1, SignaturesFinite, Holds
<1>4. IsFiniteSet(Lately) /\ Cardinality(Lately) = MaxBehind + 1
  <2>1. top - MaxBehind \in Int /\ top \in Int /\ ~(top - MaxBehind > top)
    OBVIOUS
  <2>2. top - (top - MaxBehind) + 1 = MaxBehind + 1
    OBVIOUS
  <2> HIDE FeedNumbers
  <2> QED BY <2>1, <2>2, FS_Interval
<1>5. Between(s, top) \subseteq Newer \cup Lately
  <2>1. ASSUME NEW t \in Between(s, top), t \notin found PROVE t \in Lately
    <3>1. t \in history.relevant /\ t \in Nat /\ s < t /\ t <= top /\ next <= s
      BY <1>1, <1>2 DEF Between
    <3>2. next <= t
      BY <3>1, <1>2
    <3>3. top <= t + MaxBehind
      BY <3>1, <3>2, <2>1
    <3> QED BY <3>1, <3>3
  <2>2. ASSUME NEW t \in Between(s, top), t \in found PROVE t \in Newer
    BY <2>2, <1>2 DEF Between
  <2> QED BY <2>1, <2>2
<1>6. Behind(s, top) <= Cardinality(Newer) + Cardinality(Lately) /\ Cardinality(Newer) \in Nat
      /\ Behind(s, top) \in Nat
  BY <1>3, <1>4, <1>5, Together DEF Behind
<1>7. Behind(s, top) <= Limit + MaxBehind
  <2> HIDE DEF Newer, Lately
  <2> QED BY <1>1, <1>4, <1>6
<1> QED BY <1>1, <1>7

-----------------------------------------------------------------------------
LEMMA SameBehind ==
  ASSUME history' = history
  PROVE  \A s, n : Behind(s, n)' = Behind(s, n)
BY DEF Behind, Between

LEMMA PageReaches ==
  ASSUME ActivityTypeOK, NEW top \in 0 .. landed, landed <= top + MaxBehind,
         NEW s \in history.relevant, s <= top, Behind(s, top) <= Limit + MaxBehind
  PROVE  s <= landed /\ Behind(s, landed) <= Reach
<1>1. landed \in Nat /\ s \in Nat
  BY RelevantSignatures, SignaturesFinite
<1>a. top \in Nat /\ top <= landed
  BY <1>1
<1>2. /\ Behind(s, landed) <= Behind(s, top) + (landed - top)
      /\ Behind(s, landed) \in Nat /\ Behind(s, top) \in Nat
  BY <1>1, <1>a, BehindLater
<1> QED BY <1>1, <1>a, <1>2, FeedNumbers DEF Reach

LEMMA RememberType ==
  ASSUME NEW q \in Seq(Signatures), Len(q) <= SignatureCap, NEW s \in Signatures
  PROVE  Remember(q, s) \in Seq(Signatures) /\ Len(Remember(q, s)) <= SignatureCap
BY FeedNumbers DEF Remember

LEMMA ReachInit == ActivityInit => ReachInv
<1> SUFFICES ASSUME ActivityInit PROVE ReachInv
  OBVIOUS
<1> USE FeedNumbers DEF ActivityInit
<1>1. load \in [Loads -> [runs : BOOLEAN, top : 0 .. landed, cursor : 0 .. landed + 1,
                          asks : 0 .. MaxPages, found : Pages]]
      /\ \A l \in Loads : load[l].asks = 0 /\ load[l].found = {}
  BY DEF NoLoad, Pages
<1>2. cache \in [valid : BOOLEAN, page : Pages, top : 0 .. landed] /\ ~cache.valid
  BY DEF NoPage, Pages
<1>3. seen \in Seq(Signatures) /\ Len(seen) <= SignatureCap
  OBVIOUS
<1>4. given \in [Signatures -> 0 .. 2]
  OBVIOUS
<1>a. /\ options \in Options /\ history \in Histories /\ landed \in 0 .. MaxSignature
      /\ late \subseteq 1 .. landed /\ failures \in 0 .. MaxFailures
      /\ inflight \in Loads \cup {NoLoader} /\ status \in {"none", "initial", "open", "closed"}
      /\ listening \in BOOLEAN /\ waiting \subseteq Loads /\ emitting \in Pages
      /\ processed \in Pages /\ fetching \in Pages
  <2>1. options \in Options /\ history \in Histories
    OBVIOUS
  <2>2. landed = 0 /\ late = {} /\ failures = 0 /\ inflight = NoLoader /\ status = "none"
        /\ listening = FALSE /\ waiting = {} /\ emitting = {} /\ processed = {} /\ fetching = {}
    OBVIOUS
  <2> HIDE DEF ActivityInit
  <2>3. landed \in 0 .. MaxSignature /\ failures \in 0 .. MaxFailures
    BY <2>2
  <2> QED BY <2>1, <2>2, <2>3, Zenon DEF Pages
<1>5. ActivityTypeOK
  <2> HIDE DEF ActivityInit
  <2> QED BY <1>1, <1>2, <1>3, <1>4, <1>a DEF ActivityTypeOK
<1>6. ActivityType
  BY <1>1, <1>5 DEF ActivityType
<1>7. NearInv /\ LoadInv /\ CacheInv /\ EmitInv
  BY <1>1, <1>2 DEF NearInv, LoadInv, CacheInv, EmitInv
<1> QED BY <1>6, <1>7 DEF ReachInv

\* A loader that starts has asked for nothing.
LEMMA StartLoadStep ==
  ASSUME ReachInv, NEW l \in Loads, StartLoad(l), UNCHANGED <<history, landed>>
  PROVE  /\ load' \in [Loads -> [runs : BOOLEAN, top : 0 .. landed, cursor : 0 .. landed + 1,
                                 asks : 0 .. MaxPages, found : Pages]]
         /\ \A k \in Loads : load'[k].asks < MaxPages
         /\ inflight' \in Loads \cup {NoLoader}
         /\ LoadInv'
<1> USE FeedNumbers
<1> DEFINE x == [NoLoad EXCEPT !.runs = TRUE]
<1>1. load' = [load EXCEPT ![l] = x] /\ inflight' = l
  BY DEF StartLoad
<1>2. ActivityTypeOK /\ landed \in Nat /\ \A k \in Loads : load[k].asks < MaxPages
  BY RelevantSignatures DEF ReachInv, ActivityType
<1>3. x \in [runs : BOOLEAN, top : 0 .. landed, cursor : 0 .. landed + 1,
             asks : 0 .. MaxPages, found : Pages] /\ x.asks = 0 /\ x.found = {}
  <2> DEFINE T == [runs : BOOLEAN, top : 0 .. landed, cursor : 0 .. landed + 1,
                   asks : 0 .. MaxPages, found : Pages]
  <2>1. NoLoad \in T /\ NoLoad.asks = 0 /\ NoLoad.found = {}
    BY <1>2 DEF NoLoad, Pages
  <2> QED BY <2>1
<1>4. load \in [Loads -> [runs : BOOLEAN, top : 0 .. landed, cursor : 0 .. landed + 1,
                          asks : 0 .. MaxPages, found : Pages]]
  BY <1>2 DEF ActivityTypeOK
<1> HIDE DEF x
<1>5. load' \in [Loads -> [runs : BOOLEAN, top : 0 .. landed, cursor : 0 .. landed + 1,
                          asks : 0 .. MaxPages, found : Pages]]
  BY <1>1, <1>3, <1>4
<1>6. \A k \in Loads : load'[k] = load[k] \/ load'[k] = x
  BY <1>1, <1>4
<1>7. LoadInv'
  BY <1>3, <1>6 DEF ReachInv, LoadInv
<1> QED BY <1>1, <1>2, <1>3, <1>5, <1>6, <1>7

LEMMA RefreshStep ==
  ASSUME ReachInv, RefreshLatest, emitting = {}, UNCHANGED <<history, landed>>
  PROVE  /\ load' \in [Loads -> [runs : BOOLEAN, top : 0 .. landed, cursor : 0 .. landed + 1,
                                 asks : 0 .. MaxPages, found : Pages]]
         /\ \A k \in Loads : load'[k].asks < MaxPages
         /\ inflight' \in Loads \cup {NoLoader}
         /\ waiting' \subseteq Loads /\ emitting' \in Pages
         /\ LoadInv' /\ EmitInv'
<1>1. ActivityTypeOK /\ landed \in Nat /\ \A k \in Loads : load[k].asks < MaxPages
      /\ LoadInv /\ CacheInv
  BY RelevantSignatures DEF ReachInv, ActivityType
<1>2. load \in [Loads -> [runs : BOOLEAN, top : 0 .. landed, cursor : 0 .. landed + 1,
                          asks : 0 .. MaxPages, found : Pages]]
      /\ inflight \in Loads \cup {NoLoader} /\ waiting \subseteq Loads
      /\ cache \in [valid : BOOLEAN, page : Pages, top : 0 .. landed]
  BY <1>1 DEF ActivityTypeOK
<1>3. UNCHANGED <<load, history, landed>> => LoadInv'
  BY <1>1 DEF LoadInv
<1>4. CASE cache.valid /\ emitting' = cache.page /\ UNCHANGED <<load, inflight, waiting>>
  <2>1. ASSUME NEW s \in emitting'
        PROVE  s \in history.relevant /\ s <= landed /\ Behind(s, landed) <= Reach
    <3>a. s \in cache.page
      BY <1>4, <2>1
    <3>b. cache.top \in 0 .. landed
      BY <1>2
    <3>e. cache.valid /\ CacheInv
      BY <1>4, Zenon DEF ReachInv
    <3>c. \A u \in cache.page : u \in history.relevant /\ u <= cache.top
                                /\ Behind(u, cache.top) <= Limit + MaxBehind
      BY <3>e, Zenon DEF CacheInv
    <3>d. landed <= cache.top + MaxBehind
      BY <3>e, Zenon DEF CacheInv
    <3>1. /\ landed <= cache.top + MaxBehind /\ s \in history.relevant /\ s <= cache.top
          /\ Behind(s, cache.top) <= Limit + MaxBehind /\ cache.top \in 0 .. landed
      BY <3>a, <3>b, <3>c, <3>d
    <3> QED BY <1>1, <3>1, PageReaches
  <2>2. EmitInv'
    BY <2>1, SameBehind DEF EmitInv, Reach
  <2> QED BY <1>1, <1>2, <1>3, <1>4, <2>2
<1>5. CASE /\ inflight # NoLoader /\ waiting' = waiting \cup {inflight}
           /\ UNCHANGED <<load, inflight, emitting>>
  BY <1>1, <1>2, <1>3, <1>5 DEF EmitInv, Pages
<1>6. CASE \E l \in Loads : StartLoad(l) /\ waiting' = waiting \cup {l} /\ UNCHANGED emitting
  <2>1. PICK l \in Loads : StartLoad(l) /\ waiting' = waiting \cup {l} /\ UNCHANGED emitting
    BY <1>6
  <2>2. waiting' \subseteq Loads /\ emitting' = {}
    BY <1>2, <2>1
  <2> QED BY <2>1, <2>2, StartLoadStep DEF EmitInv, Pages
<1> QED BY <1>4, <1>5, <1>6 DEF RefreshLatest

LEMMA EndsStep ==
  ASSUME ReachInv, NEW l \in Loads, NEW page \in Pages, NEW entry, Ends(l, page, entry),
         entry \in [valid : BOOLEAN, page : Pages, top : 0 .. landed],
         entry.valid =>
           /\ landed <= entry.top + MaxBehind
           /\ \A s \in entry.page : s \in history.relevant /\ s <= entry.top
                                    /\ Behind(s, entry.top) <= Limit + MaxBehind,
         page = {} \/ (entry.valid /\ page = entry.page),
         failures' \in 0 .. MaxFailures
  PROVE  ReachInv'
<1> USE FeedNumbers
<1>1. ActivityTypeOK /\ landed \in Nat /\ \A k \in Loads : load[k].asks < MaxPages
      /\ LoadInv /\ NearInv
  BY RelevantSignatures DEF ReachInv, ActivityType
<1>2. /\ cache' = entry /\ load' = [load EXCEPT ![l] = NoLoad]
      /\ inflight' = IF inflight = l THEN NoLoader ELSE inflight
      /\ waiting' = waiting \ {l} /\ emitting' = IF l \in waiting THEN page ELSE {}
      /\ UNCHANGED <<options, history, landed, late, status, listening, seen, processed,
                     fetching, given>>
  BY DEF Ends, chainVars
<1>3. NoLoad \in [runs : BOOLEAN, top : 0 .. landed, cursor : 0 .. landed + 1,
                  asks : 0 .. MaxPages, found : Pages] /\ NoLoad.asks = 0 /\ NoLoad.found = {}
  BY <1>1 DEF NoLoad, Pages
<1>4. load \in [Loads -> [runs : BOOLEAN, top : 0 .. landed, cursor : 0 .. landed + 1,
                          asks : 0 .. MaxPages, found : Pages]]
  BY <1>1 DEF ActivityTypeOK
<1>5. load' \in [Loads -> [runs : BOOLEAN, top : 0 .. landed, cursor : 0 .. landed + 1,
                           asks : 0 .. MaxPages, found : Pages]]
      /\ \A k \in Loads : load'[k] = load[k] \/ load'[k] = NoLoad
  BY <1>2, <1>3, <1>4
<1>6. emitting' \in Pages /\ (emitting' = {} \/ (entry.valid /\ emitting' = entry.page))
  BY <1>2 DEF Pages
<1>7. inflight' \in Loads \cup {NoLoader} /\ waiting' \subseteq Loads
  BY <1>1, <1>2 DEF ActivityTypeOK
<1>8. ActivityTypeOK'
  BY <1>1, <1>2, <1>5, <1>6, <1>7 DEF ActivityTypeOK
<1>9. ActivityType'
  BY <1>1, <1>3, <1>5, <1>8 DEF ActivityType
<1>10. NearInv'
  BY <1>1, <1>2 DEF NearInv
<1>11. LoadInv'
  BY <1>1, <1>2, <1>3, <1>5 DEF LoadInv
<1>12. CacheInv'
  BY <1>2, SameBehind DEF CacheInv
<1>13. EmitInv'
  <2>1. ASSUME NEW s \in emitting'
        PROVE  s \in history.relevant /\ s <= landed /\ Behind(s, landed) <= Reach
    <3>1. entry.valid /\ s \in entry.page /\ entry.top \in 0 .. landed
      BY <1>6, <2>1
    <3> QED BY <1>1, <3>1, PageReaches
  <2> QED BY <1>2, <2>1, SameBehind DEF EmitInv, Reach
<1> QED BY <1>9, <1>10, <1>11, <1>12, <1>13 DEF ReachInv

LEMMA ReadBatchStep == ASSUME ReachInv, NEW l \in Loads, ReadBatch(l) PROVE ReachInv'
<1> USE FeedNumbers
<1> DEFINE asks == Asks(l)
           top == Top(l)
           found == Found(l)
           next == NextCursor(l)
           batch == Batch(Cursor(l))
           ends == batch = {} \/ Cardinality(found) >= Limit \/ asks = MaxPages
           x == [runs |-> TRUE, top |-> top, asks |-> asks, found |-> found, cursor |-> next]
<1>1. ActivityTypeOK /\ landed \in Nat /\ (\A k \in Loads : load[k].asks < MaxPages)
      /\ LoadInv /\ NearInv /\ CacheInv /\ EmitInv
  BY RelevantSignatures DEF ReachInv, ActivityType
<1>2. load[l].runs /\ UNCHANGED failures
  BY DEF ReadBatch
<1>3. /\ asks \in 1 .. MaxPages /\ top \in 0 .. landed /\ landed <= top + MaxBehind
      /\ next \in 0 .. landed + 1 /\ next <= top + 1 /\ found \in Pages
      /\ \A s \in found : s \in history.relevant /\ next <= s /\ s <= top
      /\ \A t \in history.relevant :
           next <= t /\ t <= top => t \in found \/ top <= t + MaxBehind
  BY <1>2, BatchFound
<1>4. CASE ends /\ Ends(l, NewestOf(found), [valid |-> TRUE, page |-> NewestOf(found), top |-> top])
  <2> DEFINE page == NewestOf(found)
             entry == [valid |-> TRUE, page |-> page, top |-> top]
  <2>1. page \in Pages
    BY <1>3 DEF NewestOf, Pages
  <2>2. \A s \in page : s \in history.relevant /\ s <= top /\ Behind(s, top) <= Limit + MaxBehind
    <3>1. top \in Nat /\ next \in Nat
      BY <1>1, <1>3
    <3> HIDE DEF top, found, next
    <3> QED BY <1>1, <1>3, <3>1, PageInReach
  <2>3. Ends(l, page, entry) /\ failures' \in 0 .. MaxFailures
    BY <1>4, <1>1, <1>2 DEF ActivityTypeOK
  <2> HIDE DEF page, top, found, next
  <2>4. entry \in [valid : BOOLEAN, page : Pages, top : 0 .. landed] /\ entry.valid
        /\ entry.page = page /\ entry.top = top
    BY <2>1, <1>3
  <2> HIDE DEF entry
  <2> QED BY <1>3, <2>1, <2>2, <2>3, <2>4, EndsStep
<1>5. CASE ~ends /\ load' = [load EXCEPT ![l] = x] /\ UNCHANGED <<options, chainVars, cache, inflight, subVars>>
  <2>1. asks < MaxPages /\ asks > 0
    BY <1>3, <1>5
  <2> HIDE DEF asks, top, found, next
  <2>2. x \in [runs : BOOLEAN, top : 0 .. landed, cursor : 0 .. landed + 1,
               asks : 0 .. MaxPages, found : Pages]
    BY <1>3
  <2>3. x.asks = asks /\ x.top = top /\ x.cursor = next /\ x.found = found
    OBVIOUS
  <2> HIDE DEF x
  <2>4. load \in [Loads -> [runs : BOOLEAN, top : 0 .. landed, cursor : 0 .. landed + 1,
                            asks : 0 .. MaxPages, found : Pages]]
    BY <1>1 DEF ActivityTypeOK
  <2>5. load' \in [Loads -> [runs : BOOLEAN, top : 0 .. landed, cursor : 0 .. landed + 1,
                             asks : 0 .. MaxPages, found : Pages]]
        /\ \A k \in Loads : load'[k] = load[k] \/ load'[k] = x
    BY <1>5, <2>2, <2>4
  <2>6. UNCHANGED <<options, history, landed, late, cache, inflight, status, listening, waiting,
                    emitting, seen, processed, fetching, given, failures>>
    BY <1>2, <1>5 DEF chainVars, subVars
  <2>7. ActivityTypeOK'
    BY <1>1, <2>5, <2>6 DEF ActivityTypeOK
  <2>8. ActivityType'
    BY <1>1, <2>1, <2>3, <2>5, <2>7 DEF ActivityType
  <2>9. LoadInv'
    BY <1>1, <1>3, <2>1, <2>3, <2>5, <2>6 DEF LoadInv
  <2>10. NearInv' /\ CacheInv' /\ EmitInv'
    BY <1>1, <2>6, SameBehind DEF NearInv, CacheInv, EmitInv, Reach
  <2> QED BY <2>8, <2>9, <2>10 DEF ReachInv
<1> QED BY <1>4, <1>5 DEF ReadBatch, Asks, Top, Found, Cursor, NextCursor

LEMMA LandStepFeed == ASSUME ReachInv, Land, emitting = {} PROVE ReachInv'
<1> USE FeedNumbers
<1>1. ActivityTypeOK /\ landed \in Nat /\ (\A k \in Loads : load[k].asks < MaxPages)
      /\ LoadInv /\ NearInv /\ CacheInv
  BY RelevantSignatures DEF ReachInv, ActivityType
<1>2. /\ landed < MaxSignature /\ landed' = landed + 1
      /\ late' = late \cup (history.late \cap {landed + 1})
      /\ processed' = processed \cap Recent(landed')
      /\ UNCHANGED <<options, history, failures, cache, load, inflight, status, listening,
                     waiting, emitting, seen, fetching, given>>
  BY DEF Land, clientVars
<1>3. /\ \A l \in Loads : load[l].asks > 0 => landed < load[l].top + MaxBehind
      /\ \A s \in fetching \cup late : landed < s + MaxBehind
  BY DEF Land, StaysNear
<1>4. ActivityTypeOK'
  <2>1. load' \in [Loads -> [runs : BOOLEAN, top : 0 .. landed', cursor : 0 .. landed' + 1,
                             asks : 0 .. MaxPages, found : Pages]]
    BY <1>1, <1>2 DEF ActivityTypeOK
  <2>2. cache' \in [valid : BOOLEAN, page : Pages, top : 0 .. landed']
    <3>1. cache \in [valid : BOOLEAN, page : Pages, top : 0 .. landed]
      BY <1>1 DEF ActivityTypeOK
    <3>2. 0 .. landed \subseteq 0 .. landed'
      BY <1>1, <1>2
    <3>3. cache' = cache
      BY <1>2
    <3> QED BY <3>1, <3>2, <3>3
  <2>3. landed' \in 0 .. MaxSignature /\ late' \subseteq 1 .. landed'
    <3>1. late \subseteq 1 .. landed
      BY <1>1 DEF ActivityTypeOK
    <3>2. 1 .. landed \subseteq 1 .. landed + 1 /\ landed + 1 \in 1 .. landed + 1
          /\ landed + 1 \in 0 .. MaxSignature
      BY <1>1, <1>2
    <3>3. late' \subseteq late \cup {landed + 1} /\ landed' = landed + 1
      BY <1>2
    <3> QED BY <3>1, <3>2, <3>3, Zenon
  <2>4. processed' \in Pages /\ fetching' \in Pages /\ emitting' \in Pages
    BY <1>1, <1>2 DEF ActivityTypeOK, Pages
  <2>5. /\ options' \in Options /\ history' \in Histories /\ failures' \in 0 .. MaxFailures
        /\ inflight' \in Loads \cup {NoLoader} /\ waiting' \subseteq Loads
        /\ status' \in {"none", "initial", "open", "closed"} /\ listening' \in BOOLEAN
        /\ seen' \in Seq(Signatures) /\ Len(seen') <= SignatureCap
        /\ given' \in [Signatures -> 0 .. 2]
    BY <1>1, <1>2 DEF ActivityTypeOK
  <2> QED BY <2>1, <2>2, <2>3, <2>4, <2>5 DEF ActivityTypeOK
<1>5. ActivityType'
  BY <1>1, <1>2, <1>4 DEF ActivityType
<1>6. NearInv'
  <2>1. ASSUME NEW s \in late' PROVE landed' <= s + MaxBehind
    <3>1. CASE s \in late
      <4>1. s \in Nat
        BY <1>1, <3>1 DEF ActivityTypeOK
      <4> QED BY <1>1, <1>2, <1>3, <3>1, <4>1
    <3>2. CASE s = landed + 1
      BY <1>1, <1>2, <3>2
    <3> QED BY <1>2, <2>1, <3>1, <3>2
  <2>2. ASSUME NEW s \in fetching' PROVE s <= landed' /\ landed' <= s + MaxBehind
    <3>1. s \in fetching /\ s \in Nat
      BY <1>1, <1>2, <2>2, SignaturesFinite DEF ActivityTypeOK, Pages
    <3>2. s <= landed /\ landed < s + MaxBehind
      BY <1>1, <1>3, <3>1 DEF NearInv
    <3> QED BY <1>1, <1>2, <3>1, <3>2
  <2> QED BY <2>1, <2>2 DEF NearInv
<1>7. LoadInv'
  <2> SUFFICES ASSUME NEW l \in Loads, load[l].asks > 0 PROVE landed' <= load[l].top + MaxBehind
    BY <1>1, <1>2 DEF LoadInv
  <2>1. load[l].top \in Nat
    BY <1>1 DEF ActivityTypeOK
  <2> QED BY <1>1, <1>2, <1>3, <2>1
<1>8. CacheInv'
  <2>1. ASSUME cache.valid PROVE landed' <= cache.top + MaxBehind
    <3>1. landed < cache.top + MaxBehind
      BY <2>1, Zenon DEF Land, StaysNear
    <3>2. cache.top \in Nat
      BY <1>1 DEF ActivityTypeOK
    <3> QED BY <1>1, <1>2, <3>1, <3>2
  <2>2. ASSUME cache.valid
        PROVE  \A s \in cache.page : s \in history.relevant /\ s <= cache.top
                                     /\ Behind(s, cache.top) <= Limit + MaxBehind
    <3>1. CacheInv
      BY <1>1, Zenon
    <3> QED BY <2>2, <3>1, Zenon DEF CacheInv
  <2>3. cache' = cache /\ history' = history
    BY <1>2
  <2>4. \A s, n : Behind(s, n)' = Behind(s, n)
    BY <2>3, SameBehind
  <2>5. \A s : Behind(s, cache.top)' = Behind(s, cache.top)
    BY <2>3 DEF Behind, Between
  <2> QED BY <2>1, <2>2, <2>3, <2>5 DEF CacheInv
<1>9. EmitInv'
  BY <1>2 DEF EmitInv
<1> QED BY <1>5, <1>6, <1>7, <1>8, <1>9 DEF ReachInv

\* A notice is of one of the newest transactions.
LEMMA FetchStep == ASSUME ReachInv, NEW s \in Signatures, FetchAnswers(s) PROVE ReachInv'
<1> USE FeedNumbers
<1>1. ActivityTypeOK /\ landed \in Nat /\ NearInv /\ history.relevant \subseteq Signatures
  BY RelevantSignatures DEF ReachInv, ActivityType
<1>2. /\ s \in fetching /\ fetching' = fetching \ {s}
      /\ emitting' = {s} \cap (history.relevant \ late)
      /\ UNCHANGED <<options, history, landed, late, failures, cache, load, inflight, status,
                     listening, waiting, seen, processed, given>>
  BY DEF FetchAnswers, chainVars, clientVars
<1>3. ActivityTypeOK'
  <2>1. emitting' \in Pages /\ fetching' \in Pages
    BY <1>1, <1>2 DEF ActivityTypeOK, Pages
  <2> QED BY <1>1, <1>2, <2>1 DEF ActivityTypeOK
<1>4. ActivityType' /\ NearInv' /\ LoadInv'
  BY <1>1, <1>2, <1>3 DEF ReachInv, ActivityType, NearInv, LoadInv
<1>5. CacheInv'
  BY <1>2, SameBehind DEF ReachInv, CacheInv
<1>6. s \in history.relevant => s <= landed /\ Behind(s, landed) <= Reach
  <2>1. s \in Nat /\ s <= landed /\ landed <= s + MaxBehind
    BY <1>1, <1>2, SignaturesFinite DEF NearInv
  <2>2. Behind(s, s) = 0
    <3>1. Between(s, s) = {}
      <4>1. \A t \in history.relevant : t \in Nat
        BY <1>1, SignaturesFinite
      <4>2. \A t \in history.relevant : ~(s < t /\ t <= s)
        BY <2>1, <4>1
      <4> QED BY <4>2 DEF Between
    <3> QED BY <3>1, FS_EmptySet DEF Behind
  <2>3. Behind(s, landed) <= Behind(s, s) + (landed - s) /\ Behind(s, landed) \in Nat
    BY <1>1, <2>1, BehindLater
  <2> QED BY <1>1, <2>1, <2>2, <2>3 DEF Reach
<1>7. EmitInv'
  <2>1. \A t \in emitting' : t = s /\ t \in history.relevant
    BY <1>2
  <2> QED BY <1>2, <1>6, <2>1, SameBehind DEF EmitInv, Reach
<1> QED BY <1>4, <1>5, <1>7 DEF ReachInv

LEMMA EmitType ==
  ASSUME ReachInv, Emit PROVE ReachInv'
<1> USE FeedNumbers
<1>1. ActivityTypeOK
  BY DEF ReachInv, ActivityType
<1>2. PICK s \in emitting : emitting' = emitting \ {s}
                            /\ IF Emits THEN EmitIfNew(s) ELSE UNCHANGED <<seen, given>>
  BY DEF Emit
<1>3. UNCHANGED <<options, history, landed, late, failures, cache, load, inflight, status,
                  listening, waiting, processed, fetching>>
  BY DEF Emit, chainVars, clientVars
<1>4. s \in Signatures /\ emitting' \in Pages
  BY <1>1, <1>2 DEF ActivityTypeOK, Pages
<1>5. seen \in Seq(Signatures) /\ Len(seen) <= SignatureCap /\ given \in [Signatures -> 0 .. 2]
  BY <1>1 DEF ActivityTypeOK
<1>6. seen' \in Seq(Signatures) /\ Len(seen') <= SignatureCap
  <2>1. seen' = seen \/ seen' = Remember(seen, s)
    BY <1>2 DEF EmitIfNew
  <2> QED BY <1>4, <1>5, <2>1, RememberType
<1>7. given' \in [Signatures -> 0 .. 2]
  BY <1>2, <1>5 DEF EmitIfNew
<1>8. ActivityTypeOK'
  BY <1>1, <1>3, <1>4, <1>6, <1>7 DEF ActivityTypeOK
<1>9. ActivityType' /\ NearInv' /\ LoadInv'
  BY <1>3, <1>8 DEF ReachInv, ActivityType, NearInv, LoadInv
<1>10. CacheInv' /\ EmitInv'
  BY <1>2, <1>3, SameBehind DEF ReachInv, CacheInv, EmitInv, Reach
<1> QED BY <1>9, <1>10 DEF ReachInv

LEMMA ReachStep == ReachInv /\ [ActivityNext]_activityVars => ReachInv'
<1> SUFFICES ASSUME ReachInv, [ActivityNext]_activityVars PROVE ReachInv'
  OBVIOUS
<1> USE FeedNumbers
<1>1. ActivityTypeOK /\ landed \in Nat /\ (\A k \in Loads : load[k].asks < MaxPages)
      /\ LoadInv /\ NearInv /\ CacheInv /\ EmitInv
  BY RelevantSignatures DEF ReachInv, ActivityType
<1> DEFINE Chain == UNCHANGED <<options, history, landed, late, failures, seen, processed, given>>
           Fetches == UNCHANGED <<cache, fetching>>
<1>2. ASSUME UNCHANGED <<history, landed, cache>> PROVE CacheInv'
  BY <1>1, <1>2, SameBehind DEF CacheInv
<1>3. ASSUME UNCHANGED <<history, landed, emitting>> PROVE EmitInv'
  BY <1>1, <1>3, SameBehind DEF EmitInv, Reach
<1>4. ASSUME UNCHANGED <<history, landed, load>> PROVE LoadInv'
  BY <1>1, <1>4 DEF LoadInv
<1>5. CASE UNCHANGED activityVars
  <2>1. UNCHANGED <<options, history, landed, late, failures, cache, load, inflight, status,
                    listening, waiting, emitting, seen, processed, fetching, given>>
    BY <1>5 DEF activityVars, chainVars, clientVars, subVars
  <2> QED BY <1>1, <1>2, <1>3, <1>4, <2>1 DEF ReachInv, ActivityType, ActivityTypeOK, NearInv
<1>6. CASE Emit
  BY <1>6, EmitType
<1>7. CASE Close
  <2>1. UNCHANGED <<options, history, landed, late, failures, cache, load, inflight,
                    listening, waiting, emitting, seen, processed, fetching, given>>
        /\ status' = "closed"
    BY <1>7 DEF Close, chainVars, clientVars
  <2> QED BY <1>1, <1>2, <1>3, <1>4, <2>1 DEF ReachInv, ActivityType, ActivityTypeOK, NearInv
<1>8. CASE Expire
  <2>1. UNCHANGED <<options, history, landed, late, failures, load, inflight, status,
                    listening, waiting, emitting, seen, processed, fetching, given>>
        /\ cache' = NoPage
    BY <1>8 DEF Expire, chainVars, subVars
  <2>2. NoPage \in [valid : BOOLEAN, page : Pages, top : 0 .. landed] /\ ~NoPage.valid
    BY <1>1 DEF NoPage, Pages
  <2>3. CacheInv'
    BY <2>1, <2>2 DEF CacheInv
  <2> QED BY <1>1, <1>3, <1>4, <2>1, <2>2, <2>3 DEF ReachInv, ActivityType, ActivityTypeOK, NearInv
<1>9. CASE \E s \in Signatures : Arrive(s)
  <2>1. UNCHANGED <<options, history, landed, failures, cache, load, inflight, status,
                    listening, waiting, emitting, seen, processed, fetching, given>>
        /\ late' \subseteq late
    BY <1>9 DEF Arrive, clientVars, subVars
  <2> QED BY <1>1, <1>2, <1>3, <1>4, <2>1 DEF ReachInv, ActivityType, ActivityTypeOK, NearInv
<1>10. CASE emitting = {} /\ BetweenLoops
  <2>1. ASSUME NEW force \in BOOLEAN, Call(force) PROVE ReachInv'
    <3>1. UNCHANGED <<options, history, landed, late, failures, cache, status,
                      listening, waiting, emitting, seen, processed, fetching, given>>
      BY <2>1 DEF Call, chainVars, subVars
    <3>2. PICK l \in Loads : StartLoad(l)
      BY <2>1 DEF Call
    <3>3. /\ load' \in [Loads -> [runs : BOOLEAN, top : 0 .. landed, cursor : 0 .. landed + 1,
                                  asks : 0 .. MaxPages, found : Pages]]
          /\ \A k \in Loads : load'[k].asks < MaxPages
          /\ inflight' \in Loads \cup {NoLoader} /\ LoadInv'
      BY <3>1, <3>2, StartLoadStep
    <3> QED BY <1>1, <1>2, <1>3, <3>1, <3>3 DEF ReachInv, ActivityType, ActivityTypeOK, NearInv
  <2>2. ASSUME RefreshLatest, UNCHANGED <<options, history, landed, late, failures, cache,
                                          listening, seen, processed, fetching, given>>,
               status' \in {"none", "initial", "open", "closed"}
        PROVE  ReachInv'
    BY <1>1, <1>2, <1>10, <2>2, RefreshStep DEF ReachInv, ActivityType, ActivityTypeOK, NearInv
  <2>3. CASE Subscribe
    <3>1. UNCHANGED <<options, history, landed, late, failures, cache, listening, seen,
                      processed, fetching, given>> /\ status' = "initial"
      BY <2>3 DEF Subscribe, chainVars
    <3>2. CASE UNCHANGED <<load, inflight, waiting, emitting>>
      BY <1>1, <1>2, <1>3, <1>4, <3>1, <3>2 DEF ReachInv, ActivityType, ActivityTypeOK, NearInv
    <3> QED BY <2>2, <2>3, <3>1, <3>2 DEF Subscribe
  <2>4. CASE Tick
    BY <1>1, <2>2, <2>4 DEF Tick, chainVars, ActivityTypeOK
  <2>5. CASE Subscribed
    <3>1. UNCHANGED <<options, history, landed, late, failures, cache, load, inflight,
                      waiting, emitting, seen, processed, fetching, given>>
          /\ status' = "open" /\ listening' \in BOOLEAN
      BY <2>5 DEF Subscribed, chainVars, clientVars
    <3> QED BY <1>1, <1>2, <1>3, <1>4, <3>1 DEF ReachInv, ActivityType, ActivityTypeOK, NearInv
  <2>6. CASE Land
    BY <1>10, <2>6, LandStepFeed
  <2>7. ASSUME NEW l \in Loads, ReadBatch(l) PROVE ReachInv'
    BY <2>7, ReadBatchStep
  <2>8. ASSUME NEW l \in Loads, RequestFails(l) PROVE ReachInv'
    <3>1. Ends(l, {}, cache) /\ failures' \in 0 .. MaxFailures /\ {} \in Pages
      BY <1>1, <2>8 DEF RequestFails, ActivityTypeOK, Pages
    <3>2. cache \in [valid : BOOLEAN, page : Pages, top : 0 .. landed]
      BY <1>1 DEF ActivityTypeOK
    <3>3. cache.valid =>
            /\ landed <= cache.top + MaxBehind
            /\ \A s \in cache.page : s \in history.relevant /\ s <= cache.top
                                     /\ Behind(s, cache.top) <= Limit + MaxBehind
      BY <1>1, Zenon DEF CacheInv
    <3> QED BY <3>1, <3>2, <3>3, EndsStep
  <2>9. ASSUME NEW s \in Signatures, LogNotice(s) PROVE ReachInv'
    <3>1. UNCHANGED <<options, history, landed, late, failures, cache, load, inflight, status,
                      listening, waiting, emitting, seen, given>>
          /\ processed' = processed \cup {s} /\ fetching' = fetching \cup {s}
          /\ s \in Recent(landed)
      BY <2>9 DEF LogNotice, chainVars, clientVars
    <3>2. s <= landed /\ landed <= s + MaxBehind
      BY <1>1, <3>1 DEF Recent
    <3>3. NearInv'
      BY <1>1, <3>1, <3>2 DEF NearInv
    <3>4. processed' \in Pages /\ fetching' \in Pages
      BY <1>1, <3>1 DEF ActivityTypeOK, Pages
    <3> QED BY <1>1, <1>2, <1>3, <1>4, <3>1, <3>3, <3>4 DEF ReachInv, ActivityType, ActivityTypeOK
  <2>10. ASSUME NEW s \in Signatures, FetchAnswers(s) PROVE ReachInv'
    BY <2>10, FetchStep
  <2>11. ASSUME NEW s \in Signatures, FetchFails(s) PROVE ReachInv'
    <3>1. UNCHANGED <<options, history, landed, late, cache, load, inflight, status,
                      listening, waiting, emitting, seen, processed, given>>
          /\ failures' \in 0 .. MaxFailures /\ fetching' = fetching \ {s}
      BY <1>1, <2>11 DEF FetchFails, chainVars, clientVars, ActivityTypeOK
    <3>2. fetching' \in Pages
      BY <1>1, <3>1 DEF ActivityTypeOK, Pages
    <3> QED BY <1>1, <1>2, <1>3, <1>4, <3>1, <3>2 DEF ReachInv, ActivityType, ActivityTypeOK, NearInv
  <2> QED BY <1>10, <2>1, <2>3, <2>4, <2>5, <2>6, <2>7, <2>8, <2>9, <2>10, <2>11 DEF BetweenLoops
<1> QED BY <1>5, <1>6, <1>7, <1>8, <1>9, <1>10 DEF ActivityNext

LEMMA ReachHolds == ActivitySpec => []ReachInv
BY ReachInit, ReachStep, PTL DEF ActivitySpec

\* Every variable of the activity feed keeps its range, whatever fails and however
\* pages, notices and calls of others overlap; the set of signatures seen stays
\* within its cap.
THEOREM ActivityTypeCorrect == ActivitySpec => []ActivityTypeOK
<1>1. ReachInv => ActivityTypeOK
  BY DEF ReachInv, ActivityType
<1> QED BY <1>1, ReachHolds, PTL

\* Nothing is given after the close: only the loop over a page gives activities, and
\* it looks at the status in each of its turns, as the log callback does.
THEOREM ClosedIsQuiet == ActivitySpec => NothingAfterClose
<1>1. [ActivityNext]_activityVars => [status = "closed" => given' = given]_activityVars
  BY DEF ActivityNext, BetweenLoops, Emit, Emits, Close, Expire, Arrive, Call, ReadBatch,
         RequestFails, Ends, Subscribe, Subscribed, Tick, Land, LogNotice, FetchAnswers,
         FetchFails, activityVars, subVars
<1> QED BY <1>1, PTL DEF ActivitySpec, NothingAfterClose

-----------------------------------------------------------------------------
(* Nothing is given twice.                                                 *)

\* The smallest of some signatures.
LEMMA Smallest ==
  ASSUME NEW S \in SUBSET Nat, S # {}
  PROVE  \E u \in S : \A v \in S : u <= v
<1>1. PICK u \in S : \A v \in S : <<v, u>> \notin OpToRel(<, Nat)
  BY NatLessThanWellFounded, WFMin
<1>2. \A v \in S : ~(v < u)
  BY <1>1 DEF OpToRel
<1> QED BY <1>2

\* Those remembered behind h that are older than h are in its reach: all of them,
\* and h, are behind the oldest of them.
LEMMA OlderAreFew ==
  ASSUME ActivityTypeOK, NEW h \in history.relevant,
         NEW S \in SUBSET history.relevant,
         \A u \in S : u < h /\ Behind(u, h) <= Reach
  PROVE  IsFiniteSet(S) /\ Cardinality(S) <= Reach
<1>1. IsFiniteSet(S) /\ S \subseteq Nat /\ h \in Nat /\ Cardinality(S) \in Nat
  BY RelevantSignatures, SignaturesFinite, Holds
<1>2. CASE S = {}
  BY <1>2, FS_EmptySet, FeedNumbers
<1>3. CASE S # {}
  <2>1. PICK u \in S : \A v \in S : u <= v
    BY <1>1, <1>3, Smallest
  <2> DEFINE T == (S \ {u}) \cup {h}
  <2>2. Cardinality(S \ {u}) = Cardinality(S) - 1 /\ IsFiniteSet(S \ {u})
    BY <1>1, <2>1, FS_RemoveElement
  <2>3. h \notin S \ {u}
    BY <1>1
  <2>4. Cardinality(T) = Cardinality(S)
    <3> DEFINE R == S \ {u}
    <3> HIDE DEF R
    <3>1. IsFiniteSet(R) /\ h \notin R /\ Cardinality(R) = Cardinality(S) - 1
      BY <2>2, <2>3 DEF R
    <3>2. Cardinality(R \cup {h}) = Cardinality(R) + 1
      BY <3>1, FS_AddElement, Zenon
    <3>3. T = R \cup {h}
      BY DEF R
    <3>4. Cardinality(R) + 1 = Cardinality(S)
      <4> QED BY <1>1, <3>1
    <3> HIDE DEF T
    <3> QED BY <3>2, <3>3, <3>4
  <2>5. T \subseteq Between(u, h)
    BY <1>1, <2>1 DEF Between
  <2>6. IsFiniteSet(Between(u, h)) /\ Behind(u, h) \in Nat
    BY Counts
  <2>7. Cardinality(T) <= Behind(u, h)
    BY <2>5, <2>6, Holds DEF Behind
  <2>8. Behind(u, h) <= Reach
    BY <2>1
  <2> QED BY <1>1, <2>4, <2>6, <2>7, <2>8, FeedNumbers
<1> QED BY <1>2, <1>3

\* What the cap drops is out of reach: of the SignatureCap signatures remembered
\* behind it at most Reach are older.
LEMMA DroppedIsFar ==
  ASSUME SignatureCap > 2 * Reach, ActivityTypeOK,
         NEW q \in Seq(Signatures), NEW g, Remembers(q, g), Len(q) = SignatureCap + 1
  PROVE  Behind(q[1], landed) > Reach
<1> USE FeedNumbers
<1> DEFINE h == q[1]
           I == 2 .. SignatureCap + 1
           S == {q[i] : i \in I}
           Older == {u \in S : u < h}
           Newer == {u \in S : u > h}
<1>1. DOMAIN q = 1 .. SignatureCap + 1
  OBVIOUS
<1>2. /\ \A i \in DOMAIN q : q[i] \in history.relevant /\ q[i] <= landed
      /\ \A i, j \in DOMAIN q : q[i] = q[j] => i = j
      /\ \A i, j \in DOMAIN q : i < j /\ q[j] < q[i] => Behind(q[j], q[i]) <= Reach
  BY DEF Remembers
<1>3. I \subseteq DOMAIN q /\ 1 \in DOMAIN q /\ 1 \notin I /\ \A i \in I : 1 < i
  BY <1>1
<1>4. h \in history.relevant /\ S \subseteq history.relevant /\ \A u \in S : u <= landed /\ u # h
  BY <1>2, <1>3
<1>5. history.relevant \subseteq Nat /\ landed \in Nat
  BY RelevantSignatures, SignaturesFinite
<1>6. IsFiniteSet(I) /\ Cardinality(I) = SignatureCap
  <2> DEFINE b == SignatureCap + 1
  <2>1. 2 \in Int /\ b \in Int /\ ~(2 > b) /\ b - 2 + 1 = SignatureCap
    OBVIOUS
  <2> HIDE DEF b
  <2>2. IsFiniteSet(2 .. b) /\ Cardinality(2 .. b) = IF 2 > b THEN 0 ELSE b - 2 + 1
    BY <2>1, FS_Interval
  <2>3. IsFiniteSet(2 .. b) /\ Cardinality(2 .. b) = SignatureCap
    BY <2>1, <2>2
  <2> QED BY <2>3, Zenon DEF b
<1>7. IsFiniteSet(S) /\ Cardinality(S) = SignatureCap
  <2> DEFINE f == [i \in I |-> q[i]]
  <2>1. f \in Bijection(I, S)
    <3>1. f \in [I -> S] /\ \A i \in I : f[i] = q[i]
      OBVIOUS
    <3>2. \A i, j \in I : f[i] = f[j] => i = j
      BY <1>2, <1>3, <3>1
    <3>3. \A u \in S : \E i \in I : f[i] = u
      BY <3>1
    <3> HIDE DEF f, S, I
    <3> QED BY <3>1, <3>2, <3>3 DEF Bijection, Injection, Surjection, IsInjective
  <2>2. ExistsBijection(I, S)
    BY <2>1 DEF ExistsBijection
  <2> HIDE DEF S, I
  <2> QED BY <1>6, <2>2, FS_Bijection
<1>8. \A u \in Older : u < h /\ Behind(u, h) <= Reach
  BY <1>2, <1>3
<1>9. IsFiniteSet(Older) /\ Cardinality(Older) <= Reach
  <2>1. Older \in SUBSET history.relevant
    BY <1>4
  <2> HIDE DEF Older, h
  <2> QED BY <1>4, <1>8, <2>1, OlderAreFew
<1>10. S \subseteq Older \cup Newer
  <2>1. h \in Nat /\ \A u \in S : u \in Nat /\ u # h
    BY <1>4, <1>5, Zenon
  <2> HIDE DEF S, h
  <2>2. \A u \in S : u < h \/ u > h
    BY <2>1
  <2> QED BY <2>2, Zenon
<1>11. Newer \subseteq Between(h, landed)
  BY <1>4 DEF Between
<1>12. IsFiniteSet(Between(h, landed)) /\ Behind(h, landed) \in Nat
  BY Counts
<1>13. IsFiniteSet(Newer) /\ Cardinality(Newer) <= Behind(h, landed) /\ Cardinality(Newer) \in Nat
  <2> HIDE DEF Newer, h
  <2> QED BY <1>11, <1>12, Holds DEF Behind
<1>14. Cardinality(S) <= Cardinality(Older) + Cardinality(Newer) /\ Cardinality(Older) \in Nat
  <2> HIDE DEF Older, Newer, S
  <2> QED BY <1>9, <1>10, <1>13, Together
<1> HIDE DEF h, S, Older, Newer
<1>15. Behind(h, landed) > Reach
  BY <1>7, <1>9, <1>12, <1>13, <1>14
<1> QED BY <1>15 DEF h

\* What GivenInv says of two values, it says of those the variables get.
LEMMA GivenStays ==
  ASSUME UNCHANGED <<history, landed>>, Remembers(seen', given'), Forgets(seen', given')
  PROVE  GivenInv'
BY DEF GivenInv, Remembers, Forgets, Behind, Between, Reach

\* An activity that is emitted and not remembered is given for the first time.
LEMMA EmitGiven ==
  ASSUME SignatureCap > 2 * Reach, ReachInv, GivenInv, Emit
  PROVE  GivenInv'
<1> USE FeedNumbers
<1>1. ActivityTypeOK /\ landed \in Nat /\ history.relevant \subseteq Signatures /\ EmitInv
  BY RelevantSignatures DEF ReachInv, ActivityType
<1>2. PICK s \in emitting : IF Emits THEN EmitIfNew(s) ELSE UNCHANGED <<seen, given>>
  BY DEF Emit
<1>3. UNCHANGED <<history, landed>>
  BY DEF Emit, chainVars
<1>4. s \in history.relevant /\ s \in Signatures /\ s <= landed /\ Behind(s, landed) <= Reach
  BY <1>1 DEF EmitInv
<1>5. seen \in Seq(Signatures) /\ Len(seen) <= SignatureCap /\ given \in [Signatures -> 0 .. 2]
  BY <1>1 DEF ActivityTypeOK
<1>6. Signatures \subseteq Nat
  BY SignaturesFinite
<1>7. CASE UNCHANGED <<seen, given>>
  BY <1>3, <1>7, SameBehind DEF GivenInv, Remembers, Forgets, Reach
<1>8. CASE /\ \A i \in DOMAIN seen : seen[i] # s
           /\ seen' = Remember(seen, s)
           /\ given' = [given EXCEPT ![s] = IF @ = 0 THEN 1 ELSE 2]
  <2> DEFINE q == Append(seen, s)
             n == Len(seen) + 1
             g == given'
  <2>1. q \in Seq(Signatures) /\ DOMAIN q = 1 .. n /\ Len(q) = n /\ DOMAIN seen = 1 .. Len(seen)
        /\ (\A i \in 1 .. Len(seen) : q[i] = seen[i]) /\ q[n] = s /\ Len(seen) \in Nat
    BY <1>4, <1>5
  <2>2. given[s] = 0
    <3>1. given[s] # 1
      <4>1. Behind(s, landed) \in Nat
        BY <1>1, Counts
      <4> QED BY <1>4, <1>8, <4>1 DEF GivenInv, Forgets
    <3>2. given[s] <= 1 /\ given[s] \in 0 .. 2
      BY <1>4, <1>5 DEF GivenInv, Forgets
    <3> QED BY <3>1, <3>2
  <2>3. g = [given EXCEPT ![s] = 1]
    BY <1>5, <1>8, <2>2
  <2>4. g[s] = 1 /\ \A t \in Signatures \ {s} : g[t] = given[t]
    BY <1>4, <1>5, <2>3
  <2>5. Remembers(q, g)
    <3>1. ASSUME NEW i \in DOMAIN q
          PROVE  q[i] \in history.relevant /\ q[i] <= landed /\ g[q[i]] = 1
      <4>1. CASE i = n
        BY <4>1, <2>1, <2>4, <1>4
      <4>2. CASE i # n
        <5>1. i \in DOMAIN seen /\ q[i] = seen[i] /\ seen[i] \in Signatures
          BY <2>1, <4>2, <1>5
        <5> QED BY <1>8, <5>1, <2>4 DEF GivenInv, Remembers
      <4> QED BY <4>1, <4>2
    <3>2. ASSUME NEW i \in DOMAIN q, NEW j \in DOMAIN q, q[i] = q[j] PROVE i = j
      <4>1. CASE i = n
        BY <4>1, <2>1, <1>8, <3>2
      <4>2. CASE j = n
        BY <4>2, <2>1, <1>8, <3>2
      <4>3. CASE i # n /\ j # n
        <5>1. i \in DOMAIN seen /\ j \in DOMAIN seen /\ q[i] = seen[i] /\ q[j] = seen[j]
          BY <2>1, <4>3
        <5> QED BY <5>1, <3>2 DEF GivenInv, Remembers
      <4> QED BY <4>1, <4>2, <4>3
    <3>3. ASSUME NEW i \in DOMAIN q, NEW j \in DOMAIN q, i < j, q[j] < q[i]
          PROVE  Behind(q[j], q[i]) <= Reach
      <4>1. i \in DOMAIN seen /\ q[i] = seen[i]
        BY <2>1, <3>3
      <4>2. CASE j = n
        <5>1. q[j] = s /\ q[i] \in Nat /\ q[i] <= landed /\ s \in Nat
          BY <4>1, <4>2, <2>1, <1>1, <1>4, <1>6 DEF GivenInv, Remembers
        <5>2. Behind(s, q[i]) <= Behind(s, landed) /\ Behind(s, q[i]) \in Nat
              /\ Behind(s, landed) \in Nat
          BY <1>1, <5>1, BehindLater
        <5> QED BY <1>4, <5>1, <5>2
      <4>3. CASE j # n
        <5>1. j \in DOMAIN seen /\ q[j] = seen[j]
          BY <2>1, <4>3
        <5> QED BY <4>1, <5>1, <3>3 DEF GivenInv, Remembers
      <4> QED BY <4>2, <4>3
    <3> HIDE DEF q, g
    <3> QED BY <3>1, <3>2, <3>3 DEF Remembers
  <2>6. Forgets(q, g)
    <3>1. ASSUME NEW t \in Signatures
          PROVE  g[t] <= 1 /\ (g[t] = 1 => (\E i \in DOMAIN q : q[i] = t) \/ Behind(t, landed) > Reach)
      <4>1. CASE t = s
        <5>1. n \in DOMAIN q /\ q[n] = s
          BY <2>1
        <5> QED BY <4>1, <5>1, <2>4
      <4>2. CASE t # s
        <5>1. g[t] = given[t]
          BY <4>2, <2>4
        <5>2. given[t] <= 1
              /\ (given[t] = 1 => (\E i \in DOMAIN seen : seen[i] = t) \/ Behind(t, landed) > Reach)
          BY DEF GivenInv, Forgets
        <5>3. ASSUME NEW i \in DOMAIN seen, seen[i] = t PROVE \E k \in DOMAIN q : q[k] = t
          BY <5>3, <2>1
        <5> HIDE DEF q, g
        <5> QED BY <5>1, <5>2, <5>3
      <4> QED BY <4>1, <4>2
    <3> HIDE DEF q, g
    <3> QED BY <3>1 DEF Forgets
  <2> HIDE DEF q, g
  <2>7. CASE n <= SignatureCap
    <3>1. seen' = q
      <4>1. Len(q) = n /\ q = Append(seen, s) /\ n \in Nat
        BY <2>1 DEF q
      <4>2. seen' = Remember(seen, s) /\ ~(n > SignatureCap)
        BY <1>8, <2>7, <4>1
      <4> QED BY <4>1, <4>2, Zenon DEF Remember
    <3> QED BY <1>3, <2>5, <2>6, <3>1, GivenStays DEF g
  <2>8. CASE n > SignatureCap
    <3>1. seen' = Tail(q) /\ n = SignatureCap + 1
      BY <1>5, <1>8, <2>1, <2>8 DEF Remember, q
    <3>2. DOMAIN Tail(q) = 1 .. SignatureCap
          /\ \A i \in 1 .. SignatureCap : Tail(q)[i] = q[i + 1] /\ i + 1 \in DOMAIN q
      BY <2>1, <3>1
    <3>3. Remembers(Tail(q), g)
      BY <2>5, <3>2 DEF Remembers
    <3>4. Behind(q[1], landed) > Reach
      BY <1>1, <2>1, <2>5, <3>1, DroppedIsFar
    <3>5. Forgets(Tail(q), g)
      <4>1. ASSUME NEW t \in Signatures, NEW i \in DOMAIN q, q[i] = t
            PROVE  (\E k \in DOMAIN Tail(q) : Tail(q)[k] = t) \/ Behind(t, landed) > Reach
        <5>1. CASE i = 1
          BY <4>1, <5>1, <3>4
        <5>2. CASE i # 1
          <6>1. i - 1 \in 1 .. SignatureCap /\ (i - 1) + 1 = i
            BY <2>1, <3>1, <5>2
          <6> QED BY <4>1, <6>1, <3>2
        <5> QED BY <5>1, <5>2
      <4> QED BY <2>6, <4>1 DEF Forgets
    <3> QED BY <1>3, <3>1, <3>3, <3>5, GivenStays DEF g
  <2> QED BY <2>1, <2>7, <2>8
<1> QED BY <1>2, <1>7, <1>8 DEF EmitIfNew

LEMMA GivenStep ==
  ASSUME SignatureCap > 2 * Reach, ReachInv, GivenInv, [ActivityNext]_activityVars
  PROVE  GivenInv'
<1>1. ActivityTypeOK /\ landed \in Nat /\ history.relevant \subseteq Signatures
  BY RelevantSignatures DEF ReachInv, ActivityType
<1>2. CASE Emit
  BY <1>2, EmitGiven
<1>3. CASE emitting = {} /\ Land
  <2>1. UNCHANGED <<history, seen, given>> /\ landed' = landed + 1
    BY <1>3 DEF Land
  <2>2. \A s, n : Behind(s, n)' = Behind(s, n)
    BY <2>1, SameBehind
  <2>3. Remembers(seen, given)'
    <3>1. seen \in Seq(Signatures)
      BY <1>1 DEF ActivityTypeOK
    <3>2. \A i \in DOMAIN seen : seen[i] \in Nat
      <4>1. \A i \in DOMAIN seen : seen[i] \in Signatures
        BY <3>1
      <4> QED BY <4>1, SignaturesFinite
    <3>3. \A i \in DOMAIN seen : seen[i] <= landed'
      BY <1>1, <2>1, <3>2 DEF GivenInv, Remembers
    <3> QED BY <2>1, <2>2, <3>3 DEF GivenInv, Remembers, Reach
  <2>4. Forgets(seen, given)'
    <3>1. ASSUME NEW s \in Signatures PROVE Behind(s, landed) > Reach => Behind(s, landed + 1) > Reach
      <4>1. s \in Nat /\ landed + 1 \in Nat
        BY <1>1, SignaturesFinite
      <4>2. Behind(s, landed) <= Behind(s, landed + 1) /\ Behind(s, landed) \in Nat
            /\ Behind(s, landed + 1) \in Nat
        <5>1. landed <= landed + 1
          BY <1>1
        <5> QED BY <1>1, <4>1, <5>1, BehindLater
      <4> QED BY <4>2, FeedNumbers
    <3>2. \A s \in Signatures : Behind(s, landed)' = Behind(s, landed + 1)
      BY <2>1 DEF Behind, Between
    <3> QED BY <2>1, <3>1, <3>2 DEF GivenInv, Forgets, Reach
  <2> QED BY <2>3, <2>4 DEF GivenInv
<1>4. CASE ~Emit /\ ~Land
  <2>1. UNCHANGED <<history, landed, seen, given>>
    BY <1>4 DEF ActivityNext, BetweenLoops, Close, Expire, Arrive, Call, ReadBatch,
         RequestFails, Ends, Subscribe, Subscribed, Tick, LogNotice, FetchAnswers,
         FetchFails, activityVars, subVars, chainVars
  <2> QED BY <2>1, SameBehind DEF GivenInv, Remembers, Forgets, Reach
<1>5. Emit \/ (emitting = {} /\ Land) \/ (~Emit /\ ~Land) \/ UNCHANGED activityVars
  BY DEF ActivityNext, BetweenLoops, activityVars, chainVars, Land, Close, Expire, Arrive
<1>6. CASE UNCHANGED activityVars
  <2>1. UNCHANGED <<history, landed, seen, given>>
    BY <1>6 DEF activityVars, chainVars, subVars
  <2> QED BY <2>1, SameBehind DEF GivenInv, Remembers, Forgets, Reach
<1> QED BY <1>2, <1>3, <1>4, <1>5, <1>6

\* The subscriber is given no activity twice, although the log callback, the interval
\* and the pages other callers leave in the cache report the same ones: as long as
\* seenSignatures holds more than twice what a page and what lands meanwhile make.
THEOREM NothingGivenTwice ==
  SignatureCap > 2 * (Limit + 2 * MaxBehind) => (ActivitySpec => []ShownOnce)
<1> SUFFICES ASSUME SignatureCap > 2 * Reach PROVE ActivitySpec => []ShownOnce
  BY DEF Reach
<1>1. ActivityInit => GivenInv
  BY FeedNumbers DEF ActivityInit, GivenInv, Remembers, Forgets
<1>2. ReachInv /\ GivenInv /\ [ActivityNext]_activityVars => GivenInv'
  BY GivenStep
<1>3. GivenInv => ShownOnce
  BY DEF GivenInv, Forgets, ShownOnce
<1> QED BY <1>1, <1>2, <1>3, ReachHolds, PTL DEF ActivitySpec
=============================================================================
