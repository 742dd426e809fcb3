-------------------------- MODULE EarnPositionProofs --------------------------
(***************************************************************************)
(* An exit leaves nothing behind without a policy, its sweep never         *)
(* overdraws and a partial withdrawal spares the idle balance, for every   *)
(* number of devices, reserves and mints and all amounts and rates.        *)
(***************************************************************************)
EXTENDS EarnPosition, FiniteSetTheorems, SequenceTheorems, WellFoundedInduction, TLAPS

Kinds == {"deposit", "partial", "exit", "idle", "cleanup", "refund"}

Transactions ==
  [by : Devices, op : Kinds, takes : [Reserves -> Nat], puts : [Reserves -> Nat],
   opens : SUBSET Reserves, mints : SUBSET Mints, pay : [Mints -> Nat],
   closes : SUBSET Mints, sweep : Nat, tops : Nat, removes : SUBSET Nat,
   creates : BOOLEAN, last : BOOLEAN, since : SUBSET Places, late : BOOLEAN]

Jobs == [op : Kinds \cup {"none"}, reserves : SUBSET Reserves, mint : Mints, amount : Nat, closing : BOOLEAN]
Snapshots == [idle : [Mints -> Nat], sol : Nat, accounts : SUBSET Mints]

\* Only a deposit puts anything into the vault; it takes nothing and ends nothing.
Shape(t) ==
  /\ \A r \in Reserves : t.takes[r] > 0 => MintOf[r] \in t.mints
  /\ IF t.op = "deposit" THEN t.takes = Nothing /\ ~t.last /\ t.removes = {}
     ELSE t.puts = Nothing /\ t.opens = {} /\ t.tops = 0

\* What TypeOK says of the chain.
ChainOK ==
  /\ shares \in [Reserves -> 0 .. MaxShares] /\ rate \in [Reserves -> StartRate .. MaxRate]
  /\ open \subseteq Reserves /\ accounts \subseteq Mints /\ sol \in Nat
  /\ idle \in [Mints -> Nat] /\ \A m \in Mints : idle[m] > 0 => m \in accounts
  /\ \A r \in Reserves : shares[r] > 0 => r \in open
  /\ pairs \in 1 .. MaxPairs /\ live \subseteq 1 .. pairs

TypeInv ==
  /\ TypeOK
  /\ work \in [Devices -> Jobs] /\ seen \in [Devices -> Snapshots]
  /\ network \subseteq Transactions /\ \A t \in network : Shape(t)
  /\ plan \in [Devices -> Seq(Transactions)]
  /\ \A d \in Devices : \A i \in DOMAIN plan[d] : Shape(plan[d][i])

Own(d) == {t \in network : t.by = d /\ ~t.late}
Planned(d) == {plan[d][i] : i \in DOMAIN plan[d]}
Left(d) == Own(d) \cup Planned(d)

OwnInv(d) ==
  /\ \A t \in Own(d) : pc[d] = "sent" /\ t.since = since[d]
  /\ \A t, u \in Own(d) : t = u
  /\ pc[d] \in {"send", "sent"} \/ plan[d] = <<>>
  /\ pc[d] = "send" => plan[d] # <<>>
  /\ \A u \in Planned(d) : u.by = d /\ ~u.late

\* t is sent before u.
Before(t, u) ==
  /\ t.op = u.op /\ t.op \in {"exit", "deposit"}
  /\ ~t.last /\ t.removes = {} /\ t.sweep = 0
  /\ \A r \in Reserves : u.takes[r] > 0 => MintOf[r] \notin t.closes

OrderInv(d) ==
  /\ \A i, j \in DOMAIN plan[d] : i < j => Before(plan[d][i], plan[d][j])
  /\ \A t \in Own(d), u \in Planned(d) : Before(t, u)

\* The vault seen from a step of a withdrawal, but for the places S.
Gathered(t) == Cardinality({r \in Reserves : t.takes[r] > 0})
Sweeps(t, S) ==
  t.op = "exit" =>
    /\ \A r \in Reserves : r \in S \/ t.takes[r] = 0 \/ shares[r] <= t.takes[r]
    /\ t.sweep = 0 \/ Used("sol") \in S \/ t.sweep <= sol + Gathered(t)
Spares(t, S) ==
  t.op = "partial" =>
    \A m \in Mints : m \in S \/ Used(m) \in S \/ t.pay[m] <= Liquidity(t.takes, m)
Empties(R, S) ==
  /\ (\E u \in R : u.last \/ u.removes # {}) =>
       \A r \in Reserves : shares[r] = 0 \/ r \in S \/ \E u \in R : u.takes[r] >= shares[r]
  /\ (\E u \in R : u.removes # {}) =>
       /\ \A m \in Mints : idle[m] = 0 \/ m \in S \/ \E u \in R : m \in u.closes
       /\ \A u \in R, r \in Reserves : u.takes[r] > 0 => \E v \in R : MintOf[r] \in v.closes

PlanInv(d) ==
  /\ \A u \in Left(d) : Sweeps(u, since[d]) /\ Spares(u, since[d])
  /\ Empties(Left(d), since[d])

LateInv ==
  \A t \in network : t.late => Sweeps(t, t.since) /\ Spares(t, t.since) /\ Empties({t}, t.since)

\* What the device has read.
Knows(d) ==
  LET w == work[d] S == since[d] IN
  /\ w.op = "exit" \/ w.closing =>
       \A r \in Reserves : r \in w.reserves \/ shares[r] = 0 \/ r \in S
  /\ w.op = "exit" /\ w.closing =>
       \A m \in Mints : idle[m] = 0 \/ m \in S \/ \E r \in w.reserves : MintOf[r] = m
  /\ w.op = "idle" /\ w.closing => \A m \in Mints \ {w.mint} : idle[m] = 0 \/ m \in S
  /\ w.op \in {"idle", "cleanup", "refund"} => w.reserves = {}
  /\ w.op = "cleanup" => w.closing
  /\ w.op \in {"deposit", "partial"} => ~w.closing

Saw(d) ==
  \A m \in Mints :
    /\ idle[m] = 0 \/ m \in since[d] \/ m \in seen[d].accounts
    /\ idle[m] = seen[d].idle[m] \/ m \in since[d] \/ Used(m) \in since[d]

WorkInv(d) ==
  /\ pc[d] \in {"reads", "prepare"} => Knows(d) /\ work[d].op # "none"
  /\ pc[d] = "prepare" => Saw(d)

DeviceInv(d) == OwnInv(d) /\ OrderInv(d) /\ PlanInv(d) /\ WorkInv(d)

IInv == TypeInv /\ LateInv /\ \A d \in Devices : DeviceInv(d)

-----------------------------------------------------------------------------
(* Arithmetic, and the sums.                                               *)

LEMMA Division ==
  ASSUME NEW x \in Nat, NEW y \in Nat \ {0}
  PROVE  x \div y \in Nat /\ 0 \div y = 0
BY Z3

LEMMA Product ==
  ASSUME NEW x \in Nat, NEW y \in Nat PROVE x * y \in Nat /\ 0 * y = 0
BY Z3

LEMMA ProductMonotone ==
  ASSUME NEW x \in Nat, NEW y \in Nat, NEW z \in Nat, y <= z PROVE x * y <= x * z
BY Z3

\* The units of the reserves of a mint are a finite set.
LEMMA UnitsFinite ==
  ASSUME rate \in [Reserves -> Nat], NEW takes \in [Reserves -> Nat], NEW m \in Mints
  PROVE  IsFiniteSet(UNION {Units(takes, r) : r \in Of(m)})
<1>1. IsFiniteSet(Of(m))
  <2>1. Of(m) \in SUBSET Reserves /\ IsFiniteSet(Reserves)
    BY PositionAssumption DEF Of
  <2> QED BY <2>1, FS_Subset
<1>2. ASSUME NEW r \in Of(m) PROVE IsFiniteSet(Units(takes, r))
  <2>1. r \in Reserves /\ takes[r] \in Nat /\ rate[r] \in Nat
    BY DEF Of
  <2>2. takes[r] * rate[r] \in Nat
    BY <2>1, Product
  <2>3. IsFiniteSet({r})
    BY FS_Singleton
  <2>4. ASSUME NEW n \in Nat PROVE IsFiniteSet(1 .. n)
    BY FS_Interval
  <2> QED BY <2>2, <2>3, <2>4, FS_Product DEF Units
<1> DEFINE All == {Units(takes, r) : r \in Of(m)}
           f == [r \in Of(m) |-> Units(takes, r)]
<1>3. f \in Surjection(Of(m), All)
  BY DEF Surjection
<1>4. IsFiniteSet(All)
  BY <1>1, <1>3, FS_Surjection
<1>5. \A T \in All : IsFiniteSet(T)
  BY <1>2
<1> QED BY <1>4, <1>5, FS_UNION

\* The sum is a number, and none without shares.
LEMMA LiquiditySum ==
  ASSUME rate \in [Reserves -> Nat], NEW takes \in [Reserves -> Nat], NEW m \in Mints
  PROVE  /\ Liquidity(takes, m) \in Nat
         /\ (\A r \in Of(m) : takes[r] = 0) => Liquidity(takes, m) = 0
<1>1. Liquidity(takes, m) \in Nat
  BY UnitsFinite, FS_CardinalityType DEF Liquidity
<1>2. ASSUME \A r \in Of(m) : takes[r] = 0 PROVE Liquidity(takes, m) = 0
  <2>1. ASSUME NEW r \in Of(m) PROVE Units(takes, r) = {}
    <3>1. takes[r] = 0 /\ rate[r] \in Nat
      BY <1>2 DEF Of
    <3>2. takes[r] * rate[r] = 0
      BY <3>1, Product
    <3>3. 1 .. takes[r] * rate[r] = {}
      BY <3>2
    <3> QED BY <3>3 DEF Units
  <2>2. UNION {Units(takes, r) : r \in Of(m)} = {}
    BY <2>1
  <2> QED BY <2>2, FS_EmptySet DEF Liquidity
<1> QED BY <1>1, <1>2

LEMMA LiquidityNext ==
  ASSUME rate' \in [Reserves -> Nat], NEW takes \in [Reserves -> Nat], NEW m \in Mints
  PROVE  Liquidity(takes, m)' \in Nat
<1> DEFINE X == UNION {Units(takes, r) : r \in Of(m)}
           Y == UNION {{r} \X (1 .. takes[r] * rate'[r]) : r \in Of(m)}
<1>1. IsFiniteSet(Y)
  <2>1. (rate \in [Reserves -> Nat])' => IsFiniteSet(X)'
    BY UnitsFinite, PTL
  <2> QED BY <2>1 DEF Units
<1>2. Liquidity(takes, m)' = Cardinality(Y)
  BY DEF Liquidity, Units
<1> QED BY <1>1, <1>2, FS_CardinalityType

\* It grows with the rates.
LEMMA LiquidityGrows ==
  ASSUME rate \in [Reserves -> Nat], rate' \in [Reserves -> Nat],
         \A r \in Reserves : rate[r] <= rate'[r],
         NEW takes \in [Reserves -> Nat], NEW m \in Mints
  PROVE  Liquidity(takes, m) <= Liquidity(takes, m)'
<1> DEFINE X == UNION {Units(takes, r) : r \in Of(m)}
           Y == UNION {{r} \X (1 .. takes[r] * rate'[r]) : r \in Of(m)}
<1>1. Liquidity(takes, m) = Cardinality(X) /\ Liquidity(takes, m)' = Cardinality(Y)
  BY DEF Liquidity, Units
<1>2. IsFiniteSet(Y)
  <2>1. (rate \in [Reserves -> Nat])' => IsFiniteSet(X)'
    BY UnitsFinite, PTL
  <2> QED BY <2>1 DEF Units
<1>3. X \subseteq Y
  <2> SUFFICES ASSUME NEW r \in Of(m) PROVE Units(takes, r) \subseteq {r} \X (1 .. takes[r] * rate'[r])
    OBVIOUS
  <2>1. r \in Reserves /\ takes[r] \in Nat /\ rate[r] \in Nat /\ rate'[r] \in Nat
    BY DEF Of
  <2>2. /\ takes[r] * rate[r] \in Nat /\ takes[r] * rate'[r] \in Nat
        /\ takes[r] * rate[r] <= takes[r] * rate'[r]
    BY <2>1, Product, ProductMonotone
  <2>3. 1 .. takes[r] * rate[r] \subseteq 1 .. takes[r] * rate'[r]
    BY <2>2
  <2> QED BY <2>3 DEF Units
<1>4. Cardinality(X) <= Cardinality(Y)
  BY <1>2, <1>3, FS_Subset
<1> QED BY <1>1, <1>4

-----------------------------------------------------------------------------
(* What a transaction does to the vault.                                   *)

LEMMA ChainNumbers ==
  ASSUME ChainOK
  PROVE  /\ shares \in [Reserves -> Nat] /\ rate \in [Reserves -> Nat]
         /\ \A r \in Reserves : rate[r] \in Nat \ {0}
         /\ idle \in [Mints -> Nat] /\ sol \in Nat
BY PositionAssumption DEF ChainOK

\* Obligations that a transaction empties: their rents are refunded.
LEMMA RefundsBound ==
  ASSUME ChainOK, NEW takes \in [Reserves -> Nat]
  PROVE  /\ Refunds(takes) \in Nat
         /\ Cardinality({r \in Reserves : takes[r] > 0}) \in Nat
         /\ Refunds(takes) <= Cardinality({r \in Reserves : takes[r] > 0})
         /\ (\A r \in Reserves : takes[r] = 0 \/ takes[r] = shares[r])
              => Refunds(takes) = Cardinality({r \in Reserves : takes[r] > 0})
<1> DEFINE T == {r \in Reserves : takes[r] > 0}
           E == {r \in open : takes[r] > 0 /\ takes[r] = shares[r]}
<1>1. IsFiniteSet(T)
  BY PositionAssumption, FS_Subset
<1>2. E \subseteq T
  BY DEF ChainOK
<1>3. IsFiniteSet(E) /\ Cardinality(E) <= Cardinality(T)
  BY <1>1, <1>2, FS_Subset
<1>4. Cardinality(T) \in Nat /\ Cardinality(E) \in Nat
  BY <1>1, <1>3, FS_CardinalityType
<1>5. ASSUME \A r \in Reserves : takes[r] = 0 \/ takes[r] = shares[r] PROVE E = T
  <2> SUFFICES ASSUME NEW r \in T PROVE r \in E
    BY <1>2
  <2>1. takes[r] > 0 /\ takes[r] = shares[r] /\ r \in Reserves
    BY <1>5
  <2> QED BY <2>1 DEF ChainOK
<1> QED BY <1>3, <1>4, <1>5 DEF Refunds

\* The numbers of a transaction.
LEMMA LandNumbers ==
  ASSUME ChainOK, NEW t \in Transactions
  PROVE  /\ \A r \in Reserves : /\ t.takes[r] \in Nat /\ t.puts[r] \in Nat
                                /\ t.puts[r] \div rate[r] \in Nat
                                /\ t.puts[r] = 0 => t.puts[r] \div rate[r] = 0
         /\ \A m \in Mints : /\ t.pay[m] \in Nat /\ idle[m] \in Nat
                             /\ Liquidity(t.takes, m) \in Nat /\ Sum(m, t) \in Nat
                             /\ Sum(m, t) = idle[m] + Liquidity(t.takes, m)
         /\ Lamports(t) \in Int /\ t.sweep \in Nat /\ t.tops \in Nat
         /\ Cardinality(t.opens) \in Nat
<1>1. t.takes \in [Reserves -> Nat] /\ t.puts \in [Reserves -> Nat] /\ t.pay \in [Mints -> Nat]
      /\ t.sweep \in Nat /\ t.tops \in Nat /\ t.opens \subseteq Reserves
  BY DEF Transactions
<1>2. ASSUME NEW r \in Reserves
      PROVE  /\ t.puts[r] \div rate[r] \in Nat
             /\ t.puts[r] = 0 => t.puts[r] \div rate[r] = 0
  <2>1. t.puts[r] \in Nat /\ rate[r] \in Nat \ {0}
    BY <1>1, ChainNumbers
  <2> QED BY <2>1, Division
<1>3. ASSUME NEW m \in Mints PROVE Liquidity(t.takes, m) \in Nat
  BY <1>1, ChainNumbers, LiquiditySum
<1>4. \A m \in Mints : Sum(m, t) = idle[m] + Liquidity(t.takes, m)
  BY DEF Sum
<1>5. Cardinality(t.opens) \in Nat
  BY <1>1, PositionAssumption, FS_Subset, FS_CardinalityType
<1>6. Lamports(t) \in Int
  <2>1. Refunds(t.takes) \in Nat
    BY <1>1, RefundsBound
  <2>2. sol \in Nat
    BY ChainNumbers
  <2> QED BY <1>1, <1>5, <2>1, <2>2 DEF Lamports
<1> QED BY <1>1, <1>2, <1>3, <1>4, <1>5, <1>6, ChainNumbers

LEMMA LandChain ==
  ASSUME ChainOK, NEW t \in Transactions, Shape(t), Land(t)
  PROVE  ChainOK'
<1>1. Accepts(t)
  BY DEF Land
<1>2. shares' \in [Reserves -> 0 .. MaxShares]
  <2>1. shares' = [r \in Reserves |-> shares[r] - t.takes[r] + t.puts[r] \div rate[r]]
    BY DEF Land
  <2>2. ASSUME NEW r \in Reserves
        PROVE  shares[r] - t.takes[r] + t.puts[r] \div rate[r] \in 0 .. MaxShares
    <3>1. t.takes[r] <= shares[r] /\ shares[r] + t.puts[r] \div rate[r] <= MaxShares
      BY <1>1 DEF Accepts
    <3> QED BY <3>1, LandNumbers, ChainNumbers, PositionAssumption
  <2> QED BY <2>1, <2>2
<1>3. idle' \in [Mints -> Nat]
  <2>1. idle' = [m \in Mints |-> Sum(m, t) - t.pay[m]]
    BY DEF Land
  <2>2. ASSUME NEW m \in Mints PROVE Sum(m, t) - t.pay[m] \in Nat
    BY <1>1, LandNumbers DEF Accepts
  <2> QED BY <2>1, <2>2
<1>4. sol' \in Nat
  BY <1>1, LandNumbers DEF Accepts, Land
<1>5. open' \subseteq Reserves /\ accounts' \subseteq Mints /\ UNCHANGED rate
  BY DEF Land, ChainOK, Transactions
<1>6. ASSUME NEW m \in Mints, idle'[m] > 0 PROVE m \in accounts'
  <2>1. idle'[m] = Sum(m, t) - t.pay[m] /\ accounts' = (accounts \cup t.mints) \ t.closes
    BY DEF Land
  <2>2. m \notin t.closes
    BY <1>1, <1>6, <2>1, LandNumbers DEF Accepts
  <2>3. CASE idle[m] > 0
    BY <2>1, <2>2, <2>3 DEF ChainOK
  <2>4. CASE ~(idle[m] > 0)
    <3>1. Liquidity(t.takes, m) # 0
      BY <1>6, <2>1, <2>4, LandNumbers
    <3>2. PICK r \in Of(m) : t.takes[r] # 0
      BY <3>1, LiquiditySum, ChainNumbers DEF Transactions
    <3>3. r \in Reserves /\ MintOf[r] = m /\ t.takes[r] > 0
      BY <3>2, LandNumbers DEF Of
    <3> QED BY <2>1, <2>2, <3>3 DEF Shape
  <2> QED BY <2>3, <2>4
<1>7. ASSUME NEW r \in Reserves, shares'[r] > 0 PROVE r \in open'
  <2>1. shares'[r] = shares[r] - t.takes[r] + t.puts[r] \div rate[r]
    BY DEF Land
  <2>2. open' = (open \cup t.opens) \ {x \in open : t.takes[x] > 0 /\ t.takes[x] = shares[x]}
    BY DEF Land
  <2>3. t.takes[r] <= shares[r]
    BY <1>1 DEF Accepts
  <2>4. CASE t.puts[r] > 0
    <3>1. r \in open \cup t.opens
      BY <1>1, <2>4 DEF Accepts
    <3>2. t.takes[r] = 0
      BY <2>4 DEF Shape, Nothing
    <3> QED BY <2>2, <3>1, <3>2
  <2>5. CASE ~(t.puts[r] > 0)
    <3>1. shares[r] > t.takes[r] /\ shares[r] > 0
      BY <1>7, <2>1, <2>3, <2>5, LandNumbers, ChainNumbers
    <3>2. r \in open
      BY <3>1 DEF ChainOK
    <3>3. t.takes[r] # shares[r]
      BY <3>1, LandNumbers, ChainNumbers
    <3> QED BY <2>2, <3>2, <3>3
  <2> QED BY <2>4, <2>5
<1>8. pairs' \in 1 .. MaxPairs /\ live' \subseteq 1 .. pairs'
  <2>1. pairs \in 1 .. MaxPairs /\ live \subseteq 1 .. pairs /\ MaxPairs \in Nat
    BY PositionAssumption DEF ChainOK
  <2>2. CASE t.creates
    <3>1. pairs' = pairs + 1 /\ pairs < MaxPairs /\ live' = (live \ t.removes) \cup {pairs + 1}
      BY <1>1, <2>2 DEF Land, Accepts
    <3>2. pairs' \in 1 .. MaxPairs
      BY <2>1, <3>1
    <3>3. ASSUME NEW p \in live' PROVE p \in 1 .. pairs'
      BY <2>1, <3>1
    <3> QED BY <3>2, <3>3
  <2>3. CASE ~t.creates
    BY <2>1, <2>3 DEF Land
  <2> QED BY <2>2, <2>3
<1> QED BY <1>2, <1>3, <1>4, <1>5, <1>6, <1>7, <1>8 DEF ChainOK

\* A transaction changes the vault for the others at the places it records.
Recorded(t) ==
  {r \in Reserves : t.puts[r] > 0} \cup {m \in Mints : idle'[m] > idle[m]}
  \cup {Used(m) : m \in {x \in Mints : idle'[x] < idle[x]}}
  \cup (IF sol' < sol THEN {Used("sol")} ELSE {})

\* How a step of somebody else changes the vault outside the places P it records.
Foreign(P) ==
  /\ \A r \in Reserves : (r \in P \/ shares'[r] <= shares[r]) /\ rate[r] <= rate'[r]
  /\ \A m \in Mints : /\ m \in P \/ idle'[m] <= idle[m]
                      /\ m \in P \/ Used(m) \in P \/ idle'[m] = idle[m]
  /\ Used("sol") \in P \/ sol <= sol'

LEMMA RecordedPlaces ==
  ASSUME NEW t PROVE Recorded(t) \subseteq Places
BY DEF Recorded, Places

LEMMA LandForeign ==
  ASSUME ChainOK, NEW t \in Transactions, Shape(t), Land(t)
  PROVE  Foreign(Recorded(t))
<1>1. ChainOK' /\ UNCHANGED rate
  BY LandChain DEF Land
<1>2. /\ shares \in [Reserves -> Nat] /\ rate \in [Reserves -> Nat]
      /\ idle \in [Mints -> Nat] /\ sol \in Nat
      /\ idle' \in [Mints -> Nat] /\ sol' \in Nat
  BY <1>1, ChainNumbers DEF ChainOK
<1>3. ASSUME NEW r \in Reserves PROVE (r \in Recorded(t) \/ shares'[r] <= shares[r]) /\ rate[r] <= rate'[r]
  <2>1. shares'[r] = shares[r] - t.takes[r] + t.puts[r] \div rate[r]
    BY DEF Land
  <2>2. t.puts[r] > 0 => r \in Recorded(t)
    BY DEF Recorded
  <2> QED BY <1>1, <1>2, <2>1, <2>2, LandNumbers
<1>4. ASSUME NEW m \in Mints
      PROVE  /\ m \in Recorded(t) \/ idle'[m] <= idle[m]
             /\ m \in Recorded(t) \/ Used(m) \in Recorded(t) \/ idle'[m] = idle[m]
  <2>1. (idle'[m] > idle[m] => m \in Recorded(t)) /\ (idle'[m] < idle[m] => Used(m) \in Recorded(t))
    BY DEF Recorded
  <2> QED BY <1>2, <2>1
<1>5. Used("sol") \in Recorded(t) \/ sol <= sol'
  <2>1. sol' < sol => Used("sol") \in Recorded(t)
    BY DEF Recorded
  <2> QED BY <1>2, <2>1
<1> QED BY <1>3, <1>4, <1>5 DEF Foreign

\* What is promised of a transaction survives the steps of others.
LEMMA ForeignSweeps ==
  ASSUME ChainOK, ChainOK', NEW P, Foreign(P), NEW S, NEW u \in Transactions, Sweeps(u, S)
  PROVE  Sweeps(u, S \cup P)'
<1>1. /\ shares \in [Reserves -> Nat] /\ shares' \in [Reserves -> Nat]
      /\ sol \in Nat /\ sol' \in Nat
  BY PositionAssumption DEF ChainOK
<1>2. u.takes \in [Reserves -> Nat] /\ u.sweep \in Nat
  BY DEF Transactions
<1>3. Gathered(u) \in Nat
  BY <1>2, RefundsBound DEF Gathered
<1> QED BY <1>1, <1>2, <1>3 DEF Sweeps, Foreign, Gathered

LEMMA ForeignSpares ==
  ASSUME ChainOK, ChainOK', NEW P, Foreign(P), NEW S, NEW u \in Transactions, Spares(u, S)
  PROVE  Spares(u, S \cup P)'
<1>1. rate \in [Reserves -> Nat] /\ rate' \in [Reserves -> Nat]
  BY PositionAssumption DEF ChainOK
<1>2. u.takes \in [Reserves -> Nat] /\ u.pay \in [Mints -> Nat]
  BY DEF Transactions
<1>3. \A m \in Mints : Liquidity(u.takes, m) <= Liquidity(u.takes, m)'
  BY <1>1, <1>2, LiquidityGrows DEF Foreign
<1>4. \A m \in Mints : Liquidity(u.takes, m) \in Nat /\ Liquidity(u.takes, m)' \in Nat
  BY <1>1, <1>2, LiquiditySum, LiquidityNext
<1>5. u.op = "partial" => \A m \in Mints : m \in S \/ Used(m) \in S \/ u.pay[m] <= Liquidity(u.takes, m)
  BY DEF Spares
<1>6. u.op = "partial" =>
        \A m \in Mints : m \in S \cup P \/ Used(m) \in S \cup P \/ u.pay[m] <= Liquidity(u.takes, m)'
  BY <1>2, <1>3, <1>4, <1>5
<1> QED BY <1>6 DEF Spares

LEMMA ForeignEmpties ==
  ASSUME ChainOK, ChainOK', NEW P, Foreign(P), NEW S, NEW R \in SUBSET Transactions,
         Empties(R, S)
  PROVE  Empties(R, S \cup P)'
<1>1. /\ shares \in [Reserves -> Nat] /\ shares' \in [Reserves -> Nat]
      /\ idle \in [Mints -> Nat] /\ idle' \in [Mints -> Nat]
  BY PositionAssumption DEF ChainOK
<1>2. \A u \in R : u.takes \in [Reserves -> Nat]
  BY DEF Transactions
<1>3. ASSUME NEW r \in Reserves, shares[r] = 0 \/ r \in S \/ \E u \in R : u.takes[r] >= shares[r]
      PROVE  shares'[r] = 0 \/ r \in S \cup P \/ \E u \in R : u.takes[r] >= shares'[r]
  <2>1. r \in P \/ shares'[r] <= shares[r]
    BY DEF Foreign
  <2> QED BY <1>1, <1>2, <1>3, <2>1
<1>4. ASSUME NEW m \in Mints, idle[m] = 0 \/ m \in S \/ \E u \in R : m \in u.closes
      PROVE  idle'[m] = 0 \/ m \in S \cup P \/ \E u \in R : m \in u.closes
  <2>1. m \in P \/ idle'[m] <= idle[m]
    BY DEF Foreign
  <2> QED BY <1>1, <1>4, <2>1
<1> QED BY <1>3, <1>4 DEF Empties

\* It survives the earlier steps of its own plan.
LEMMA OwnSweeps ==
  ASSUME ChainOK, NEW t \in Transactions, Shape(t), Land(t), NEW S,
         NEW u \in Transactions, Before(t, u), Sweeps(u, S)
  PROVE  Sweeps(u, S)'
<1> SUFFICES ASSUME u.op = "exit" PROVE Sweeps(u, S)'
  BY DEF Sweeps
<1>1. t.puts = Nothing /\ t.opens = {} /\ t.tops = 0 /\ t.sweep = 0
  BY DEF Before, Shape
<1>2. \A r \in Reserves : shares'[r] <= shares[r] /\ shares'[r] \in Nat /\ shares[r] \in Nat
  <2>1. ChainOK'
    BY LandChain
  <2>2. shares' \in [Reserves -> Nat] /\ shares \in [Reserves -> Nat]
    BY <2>1, PositionAssumption DEF ChainOK
  <2>3. ASSUME NEW r \in Reserves PROVE shares'[r] = shares[r] - t.takes[r] + t.puts[r] \div rate[r]
    BY DEF Land
  <2>4. ASSUME NEW r \in Reserves PROVE t.puts[r] \div rate[r] = 0 /\ t.takes[r] \in Nat
    BY <1>1, LandNumbers DEF Nothing
  <2> QED BY <2>2, <2>3, <2>4
<1>3. sol <= sol' /\ sol \in Nat /\ sol' \in Nat
  <2>1. sol' = sol + Refunds(t.takes)
    <3>1. sol' = Lamports(t) - t.sweep
      BY DEF Land
    <3>2. Refunds(t.takes) \in Nat /\ sol \in Nat
      BY RefundsBound, ChainNumbers DEF Transactions
    <3>3. Lamports(t) = sol + 0 + Refunds(t.takes) - 0
      BY <1>1, FS_EmptySet DEF Lamports
    <3> QED BY <1>1, <3>1, <3>2, <3>3
  <2>2. Refunds(t.takes) \in Nat /\ sol \in Nat
    BY RefundsBound, ChainNumbers DEF Transactions
  <2> QED BY <2>1, <2>2
<1>4. u.takes \in [Reserves -> Nat] /\ u.sweep \in Nat
  BY DEF Transactions
<1>5. Gathered(u) \in Nat
  BY <1>4, RefundsBound DEF Gathered
<1> QED BY <1>2, <1>3, <1>4, <1>5 DEF Sweeps, Gathered

LEMMA OwnEmpties ==
  ASSUME ChainOK, NEW t \in Transactions, Shape(t), Land(t), NEW S,
         NEW R \in SUBSET Transactions, \A u \in R : Before(t, u) /\ Shape(u),
         Empties(R \cup {t}, S)
  PROVE  Empties(R, S)'
<1> SUFFICES ASSUME NEW w \in R, w.last \/ w.removes # {} PROVE Empties(R, S)'
  BY DEF Empties
<1>1. t.puts = Nothing
  BY DEF Before, Shape
<1>2. ChainOK'
  BY LandChain
<1>3. /\ shares \in [Reserves -> Nat] /\ shares' \in [Reserves -> Nat]
      /\ idle \in [Mints -> Nat] /\ idle' \in [Mints -> Nat]
  BY <1>2, PositionAssumption DEF ChainOK
<1>4. \A r \in Reserves : shares'[r] = shares[r] - t.takes[r] /\ t.takes[r] \in Nat
  <2>1. ASSUME NEW r \in Reserves PROVE shares'[r] = shares[r] - t.takes[r] + t.puts[r] \div rate[r]
    BY DEF Land
  <2>2. ASSUME NEW r \in Reserves PROVE t.puts[r] \div rate[r] = 0 /\ t.takes[r] \in Nat
    BY <1>1, LandNumbers DEF Nothing
  <2> QED BY <1>3, <2>1, <2>2
<1>5. \A u \in R : u.takes \in [Reserves -> Nat]
  BY DEF Transactions
<1>6. ASSUME NEW r \in Reserves PROVE shares'[r] = 0 \/ r \in S \/ \E u \in R : u.takes[r] >= shares'[r]
  <2>1. shares[r] = 0 \/ r \in S \/ \E u \in R \cup {t} : u.takes[r] >= shares[r]
    BY DEF Empties
  <2> QED BY <1>3, <1>4, <1>5, <2>1
<1>7. ASSUME NEW m \in Mints, m \in t.closes PROVE idle'[m] = 0
  <2>1. t.pay[m] = Sum(m, t) /\ idle'[m] = Sum(m, t) - t.pay[m]
    BY <1>7 DEF Land, Accepts
  <2> QED BY <2>1, LandNumbers
<1>8. ASSUME \E u \in R : u.removes # {}, NEW m \in Mints
      PROVE  idle'[m] = 0 \/ m \in S \/ \E u \in R : m \in u.closes
  <2>1. /\ idle[m] = 0 \/ m \in S \/ \E u \in R \cup {t} : m \in u.closes
        /\ \A r \in Reserves : t.takes[r] > 0 => \E v \in R \cup {t} : MintOf[r] \in v.closes
    BY <1>8 DEF Empties
  <2>2. CASE idle[m] = 0 /\ idle'[m] > 0
    <3>1. idle'[m] = idle[m] + Liquidity(t.takes, m) - t.pay[m]
      BY LandNumbers DEF Land
    <3>2. Liquidity(t.takes, m) # 0
      BY <2>2, <3>1, LandNumbers
    <3>3. PICK r \in Of(m) : t.takes[r] # 0
      BY <3>2, LiquiditySum, ChainNumbers DEF Transactions
    <3>4. r \in Reserves /\ MintOf[r] = m /\ t.takes[r] > 0
      BY <1>4, <3>3 DEF Of
    <3>5. PICK v \in R \cup {t} : m \in v.closes
      BY <2>1, <3>4
    <3> QED BY <1>3, <1>7, <2>2, <3>5
  <2>3. CASE idle[m] # 0 /\ idle'[m] > 0
    BY <1>3, <1>7, <2>1, <2>3
  <2> QED BY <1>3, <2>2, <2>3
<1>9. ASSUME \E u \in R : u.removes # {}, NEW u \in R, NEW r \in Reserves, u.takes[r] > 0
      PROVE  \E v \in R : MintOf[r] \in v.closes
  <2>1. \E v \in R \cup {t} : MintOf[r] \in v.closes
    BY <1>9 DEF Empties
  <2>2. MintOf[r] \notin t.closes
    BY <1>9 DEF Before
  <2> QED BY <2>1, <2>2
<1> QED BY <1>6, <1>8, <1>9 DEF Empties

-----------------------------------------------------------------------------
(* The transactions on their way, and the devices that only watch.         *)

Mark(u, P) == [u EXCEPT !.since = @ \cup P]

\* The same transaction, whenever it was sent.
Twin(u, v) ==
  /\ v.by = u.by /\ v.op = u.op /\ v.takes = u.takes /\ v.puts = u.puts /\ v.opens = u.opens
  /\ v.mints = u.mints /\ v.pay = u.pay /\ v.closes = u.closes /\ v.sweep = u.sweep
  /\ v.tops = u.tops /\ v.removes = u.removes /\ v.creates = u.creates /\ v.last = u.last

LEMMA Marking ==
  ASSUME NEW u \in Transactions, NEW P \in SUBSET Places
  PROVE  /\ Mark(u, P) \in Transactions /\ Twin(u, Mark(u, P))
         /\ Mark(u, P).since = u.since \cup P /\ Mark(u, P).late = u.late
BY DEF Mark, Twin, Transactions

LEMMA Twins ==
  ASSUME NEW u, NEW v, Twin(u, v)
  PROVE  /\ Shape(u) => Shape(v)
         /\ \A S : Sweeps(u, S) => Sweeps(v, S)
         /\ \A S : Spares(u, S) => Spares(v, S)
         /\ \A S : Empties({u}, S) => Empties({v}, S)
         /\ \A w : Before(u, w) => Before(v, w)
         /\ \A w : Before(w, u) => Before(w, v)
<1>1. Shape(u) => Shape(v)
  BY DEF Twin, Shape
<1>2. \A S : Sweeps(u, S) => Sweeps(v, S)
  BY DEF Twin, Sweeps, Gathered
<1>3. \A S : Spares(u, S) => Spares(v, S)
  BY DEF Twin, Spares
<1>4. \A S : Empties({u}, S) => Empties({v}, S)
  BY DEF Twin, Empties
<1>5. \A w : (Before(u, w) => Before(v, w)) /\ (Before(w, u) => Before(w, v))
  BY DEF Twin, Before
<1> QED BY <1>1, <1>2, <1>3, <1>4, <1>5

LEMMA TwinsNext ==
  ASSUME NEW u, NEW v, Twin(u, v)
  PROVE  /\ \A S : Sweeps(u, S)' => Sweeps(v, S)'
         /\ \A S : Spares(u, S)' => Spares(v, S)'
         /\ \A S : Empties({u}, S)' => Empties({v}, S)'
<1>2. \A S : Sweeps(u, S)' => Sweeps(v, S)'
  BY DEF Twin, Sweeps, Gathered
<1>3. \A S : Spares(u, S)' => Spares(v, S)'
  BY DEF Twin, Spares
<1>4. \A S : Empties({u}, S)' => Empties({v}, S)'
  BY DEF Twin, Empties
<1> QED BY <1>2, <1>3, <1>4

LEMMA TwinSetsNext ==
  ASSUME NEW Q, NEW R, \A u \in Q : \E v \in R : Twin(u, v), \A v \in R : \E u \in Q : Twin(u, v),
         NEW S, Empties(Q, S)'
  PROVE  Empties(R, S)'
<1>1. ASSUME NEW v \in R, v.last \/ v.removes # {} PROVE \E u \in Q : u.last \/ u.removes # {}
  BY <1>1 DEF Twin
<1>2. ASSUME NEW v \in R, v.removes # {} PROVE \E u \in Q : u.removes # {}
  BY <1>2 DEF Twin
<1>3. ASSUME NEW r, NEW u \in Q, u.takes[r] >= shares'[r] PROVE \E v \in R : v.takes[r] >= shares'[r]
  BY <1>3 DEF Twin
<1>4. ASSUME NEW m, NEW u \in Q, m \in u.closes PROVE \E v \in R : m \in v.closes
  BY <1>4 DEF Twin
<1>5. ASSUME NEW r, NEW v \in R, v.takes[r] > 0 PROVE \E u \in Q : u.takes[r] > 0
  BY <1>5 DEF Twin
<1> QED BY <1>1, <1>2, <1>3, <1>4, <1>5 DEF Empties

\* The network after a step that marks the transactions left in it.
LEMMA MarkedNetwork ==
  ASSUME IInv, ChainOK', NEW P \in SUBSET Places, Foreign(P), NEW ts \in SUBSET network,
         network' = {Mark(u, P) : u \in ts}
  PROVE  network' \subseteq Transactions /\ (\A t \in network' : Shape(t)) /\ LateInv'
<1>1. ChainOK /\ network \subseteq Transactions /\ \A u \in network : Shape(u)
  BY DEF IInv, TypeInv, TypeOK, ChainOK
<1> SUFFICES ASSUME NEW t \in network'
             PROVE  /\ t \in Transactions /\ Shape(t)
                    /\ t.late => Sweeps(t, t.since)' /\ Spares(t, t.since)' /\ Empties({t}, t.since)'
  BY DEF LateInv
<1>2. PICK u \in ts : t = Mark(u, P)
  OBVIOUS
<1>3. u \in network /\ u \in Transactions /\ Shape(u)
  BY <1>1
<1>4. t \in Transactions /\ Twin(u, t) /\ t.since = u.since \cup P /\ t.late = u.late
  BY <1>2, <1>3, Marking
<1>5. Shape(t)
  BY <1>3, <1>4, Twins
<1>6. ASSUME t.late PROVE Sweeps(t, t.since)' /\ Spares(t, t.since)' /\ Empties({t}, t.since)'
  <2>1. Sweeps(u, u.since) /\ Spares(u, u.since) /\ Empties({u}, u.since)
    BY <1>3, <1>4, <1>6 DEF IInv, LateInv
  <2>2. PICK S : S = u.since
    OBVIOUS
  <2>3. Sweeps(u, S) /\ Spares(u, S) /\ Empties({u}, S)
    BY <2>1, <2>2
  <2>4. Sweeps(u, S \cup P)' /\ Spares(u, S \cup P)' /\ Empties({u}, S \cup P)'
    <3>1. {u} \in SUBSET Transactions
      BY <1>3
    <3> QED BY <1>1, <1>3, <2>3, <3>1, ForeignSweeps, ForeignSpares, ForeignEmpties
  <2>5. Sweeps(t, S \cup P)' /\ Spares(t, S \cup P)' /\ Empties({t}, S \cup P)'
    BY <1>4, <2>4, TwinsNext
  <2> QED BY <1>4, <2>2, <2>5
<1> QED BY <1>4, <1>5, <1>6

\* A device that watches, while its own transactions are marked.
Watches(d, P) ==
  /\ pc'[d] = pc[d] /\ work'[d] = work[d] /\ seen'[d] = seen[d] /\ plan'[d] = plan[d]
  /\ pc[d] \notin {"idle", "failed"} => since'[d] = since[d] \cup P
  /\ Own(d)' = {Mark(u, P) : u \in Own(d)}

LEMMA WatchedPlan ==
  ASSUME ChainOK, ChainOK', NEW P \in SUBSET Places, Foreign(P), NEW S, NEW Q \in SUBSET Transactions,
         \A u \in Q : Sweeps(u, S) /\ Spares(u, S), Empties(Q, S), NEW R,
         \A u \in Q : \E v \in R : Twin(u, v), \A v \in R : \E u \in Q : Twin(u, v)
  PROVE  (\A v \in R : Sweeps(v, S \cup P)' /\ Spares(v, S \cup P)') /\ Empties(R, S \cup P)'
<1>1. ASSUME NEW v \in R PROVE Sweeps(v, S \cup P)' /\ Spares(v, S \cup P)'
  <2>1. PICK u \in Q : Twin(u, v)
    OBVIOUS
  <2>2. Sweeps(u, S \cup P)' /\ Spares(u, S \cup P)'
    BY ForeignSweeps, ForeignSpares
  <2> QED BY <2>1, <2>2, TwinsNext
<1>2. Empties(Q, S \cup P)'
  BY ForeignEmpties
<1>3. Empties(R, S \cup P)'
  BY <1>2, TwinSetsNext
<1> QED BY <1>1, <1>3

LEMMA TwinRefl == ASSUME NEW u PROVE Twin(u, u)
BY DEF Twin

LEMMA Watching ==
  ASSUME TypeInv, ChainOK', NEW P \in SUBSET Places, Foreign(P), NEW d \in Devices,
         DeviceInv(d), Watches(d, P)
  PROVE  DeviceInv(d)'
<1>1. ChainOK /\ Own(d) \subseteq Transactions /\ Planned(d) \subseteq Transactions
  <2>1. \A i \in DOMAIN plan[d] : plan[d][i] \in Transactions
    BY DEF TypeInv
  <2> QED BY <2>1 DEF TypeInv, TypeOK, ChainOK, Own, Planned
<1>2. \A u \in Own(d) : /\ Mark(u, P) \in Transactions /\ Twin(u, Mark(u, P))
                        /\ Mark(u, P).since = u.since \cup P
  BY <1>1, Marking
<1>3. Planned(d)' = Planned(d)
  BY DEF Planned, Watches
<1>4. ASSUME pc[d] \in {"idle", "failed"} PROVE Own(d) = {} /\ plan[d] = <<>>
  BY <1>4 DEF DeviceInv, OwnInv
<1>5. ASSUME pc[d] \in {"idle", "failed"} PROVE Own(d)' = {} /\ plan'[d] = <<>> /\ Planned(d) = {}
  BY <1>4, <1>5 DEF Watches, Planned
<1>6. OwnInv(d)'
  <2>1. ASSUME NEW t \in Own(d)' PROVE pc'[d] = "sent" /\ t.since = since'[d]
    <3>1. PICK u \in Own(d) : t = Mark(u, P)
      BY DEF Watches
    <3> QED BY <1>2, <3>1 DEF Watches, DeviceInv, OwnInv
  <2>2. ASSUME NEW t \in Own(d)', NEW u \in Own(d)' PROVE t = u
    BY DEF Watches, DeviceInv, OwnInv
  <2> QED BY <1>3, <2>1, <2>2 DEF Watches, DeviceInv, OwnInv
<1>7. OrderInv(d)'
  <2>1. ASSUME NEW t \in Own(d)', NEW u \in Planned(d) PROVE Before(t, u)
    <3>1. PICK w \in Own(d) : t = Mark(w, P)
      BY DEF Watches
    <3> QED BY <1>2, <3>1, Twins DEF DeviceInv, OrderInv
  <2> QED BY <1>3, <2>1 DEF OrderInv, DeviceInv, Watches
<1>8. PlanInv(d)'
  <2>1. CASE pc[d] \in {"idle", "failed"}
    BY <1>3, <1>5, <2>1 DEF PlanInv, Left, Empties
  <2>2. CASE pc[d] \notin {"idle", "failed"}
    <3> DEFINE S == since[d]
               Q == Left(d)
    <3> HIDE DEF S, Q
    <3>1. Q \in SUBSET Transactions
      BY <1>1 DEF Left, Q
    <3>2. (\A u \in Q : Sweeps(u, S) /\ Spares(u, S)) /\ Empties(Q, S)
      BY DEF DeviceInv, PlanInv, Q, S
    <3>3. PICK T : T = S
      OBVIOUS
    <3>4. PICK W : W = Q
      OBVIOUS
    <3>5. PICK R : R = Left(d)'
      OBVIOUS
    <3>6. (\A u \in W : \E v \in R : Twin(u, v)) /\ (\A v \in R : \E u \in W : Twin(u, v))
      <4>1. R = {Mark(u, P) : u \in Own(d)} \cup Planned(d) /\ W = Own(d) \cup Planned(d)
        BY <1>3, <3>4, <3>5 DEF Left, Q, Watches
      <4> QED BY <1>2, <4>1, TwinRefl
    <3>7. (\A v \in R : Sweeps(v, T \cup P)' /\ Spares(v, T \cup P)') /\ Empties(R, T \cup P)'
      BY <1>1, <3>1, <3>2, <3>3, <3>4, <3>6, WatchedPlan
    <3>8. since'[d] = T \cup P
      BY <2>2, <3>3 DEF Watches, S
    <3> QED BY <3>5, <3>7, <3>8 DEF PlanInv
  <2> QED BY <2>1, <2>2
<1>9. WorkInv(d)'
  <2>1. CASE pc[d] \notin {"reads", "prepare"}
    BY <2>1 DEF WorkInv, Watches
  <2>2. CASE pc[d] \in {"reads", "prepare"}
    <3>1. since'[d] = since[d] \cup P
      BY <2>2 DEF Watches
    <3>2. ChainOK /\ shares \in [Reserves -> Nat] /\ shares' \in [Reserves -> Nat]
          /\ idle \in [Mints -> Nat] /\ idle' \in [Mints -> Nat]
      BY <1>1, PositionAssumption DEF ChainOK
    <3>3. \A r \in Reserves : shares[r] = 0 => shares'[r] = 0 \/ r \in P
      BY <3>2 DEF Foreign
    <3>4. \A m \in Mints : idle[m] = 0 => idle'[m] = 0 \/ m \in P
      BY <3>2 DEF Foreign
    <3>5. \A m \in Mints : idle'[m] = idle[m] \/ m \in P \/ Used(m) \in P
      BY DEF Foreign
    <3>6. Knows(d) /\ work[d].op # "none"
      BY <2>2 DEF DeviceInv, WorkInv
    <3>7. Knows(d)'
      BY <3>1, <3>3, <3>4, <3>6 DEF Knows, Watches
    <3>8. pc[d] = "prepare" => Saw(d)'
      <4>1. pc[d] = "prepare" => Saw(d)
        BY DEF DeviceInv, WorkInv
      <4> QED BY <3>1, <3>4, <3>5, <4>1 DEF Saw, Watches
    <3> QED BY <3>6, <3>7, <3>8 DEF WorkInv, Watches
  <2> QED BY <2>1, <2>2
<1> QED BY <1>6, <1>7, <1>8, <1>9 DEF DeviceInv

LEMMA ChangeMarks ==
  ASSUME TypeInv, NEW P \in SUBSET Places, NEW D, NEW ts \in SUBSET network, Change(P, D, ts)
  PROVE  /\ network' = {Mark(u, P) : u \in ts}
         /\ since' \in [Devices -> SUBSET Places]
         /\ \A d \in Devices : Own(d)' = {Mark(u, P) : u \in {t \in ts : t.by = d /\ ~t.late}}
<1>1. network' = {Mark(u, P) : u \in ts}
  BY DEF Change, Mark
<1>2. since' \in [Devices -> SUBSET Places]
  BY DEF Change, TypeInv, TypeOK
<1>3. \A u \in ts : Mark(u, P).by = u.by /\ Mark(u, P).late = u.late
  BY Marking DEF TypeInv, Twin
<1> QED BY <1>1, <1>2, <1>3 DEF Own

LEMMA ChangeWatched ==
  ASSUME TypeInv, ChainOK', NEW P \in SUBSET Places, Foreign(P), NEW D,
         NEW ts \in SUBSET network, Change(P, D, ts), NEW d \in Devices \ D, DeviceInv(d),
         pc'[d] = pc[d], work'[d] = work[d], seen'[d] = seen[d], plan'[d] = plan[d],
         \A t \in network \ ts : t.by = d => t.late
  PROVE  DeviceInv(d)'
<1>1. Own(d) = {t \in ts : t.by = d /\ ~t.late}
  BY DEF Own
<1>2. Own(d)' = {Mark(u, P) : u \in Own(d)}
  <2>1. Own(d)' = {Mark(u, P) : u \in {t \in ts : t.by = d /\ ~t.late}}
    BY ChangeMarks
  <2> QED BY <1>1, <2>1
<1>3. pc[d] \notin {"idle", "failed"} => since'[d] = since[d] \cup P
  BY DEF Change
<1> QED BY <1>2, <1>3, Watching DEF Watches

\* A device that has no plan and awaits nothing.
LEMMA Quiet ==
  ASSUME NEW d \in Devices, pc'[d] \in {"idle", "failed"}, plan'[d] = <<>>, Own(d)' = {}
  PROVE  DeviceInv(d)'
<1>1. Planned(d)' = {} /\ Left(d)' = {}
  BY DEF Planned, Left
<1> QED BY <1>1 DEF DeviceInv, OwnInv, OrderInv, PlanInv, WorkInv, Empties

LEMMA TypeNext ==
  ASSUME ChainOK', events' \in 0 .. MaxEvents, since' \in [Devices -> SUBSET Places],
         pc' \in [Devices -> {"idle", "reads", "prepare", "send", "sent", "failed"}],
         work' \in [Devices -> Jobs], seen' \in [Devices -> Snapshots],
         network' \subseteq Transactions, \A t \in network' : Shape(t),
         plan' \in [Devices -> Seq(Transactions)],
         \A d \in Devices : \A i \in DOMAIN plan'[d] : Shape(plan'[d][i])
  PROVE  TypeInv'
<1>1. \A t \in network' : t.since \subseteq Places
  BY DEF Transactions
<1> QED BY <1>1 DEF TypeInv, TypeOK, ChainOK

LEMMA DeviceTypes ==
  ASSUME TypeInv
  PROVE  /\ ChainOK /\ events \in 0 .. MaxEvents /\ since \in [Devices -> SUBSET Places]
         /\ pc \in [Devices -> {"idle", "reads", "prepare", "send", "sent", "failed"}]
         /\ work \in [Devices -> Jobs] /\ seen \in [Devices -> Snapshots]
         /\ plan \in [Devices -> Seq(Transactions)]
         /\ \A d \in Devices : \A i \in DOMAIN plan[d] : Shape(plan[d][i])
         /\ network \subseteq Transactions /\ \A t \in network : Shape(t)
BY DEF TypeInv, TypeOK, ChainOK

\* A step of the chain, of the delegate or of Autodeposit that no device awaits.
LEMMA ForeignStep ==
  ASSUME IInv, ChainOK', NEW P \in SUBSET Places, Foreign(P), NEW ts \in SUBSET network,
         Change(P, {}, ts), \A t \in network \ ts : t.late, UNCHANGED device,
         events' \in 0 .. MaxEvents
  PROVE  IInv'
<1>1. TypeInv
  BY DEF IInv
<1>2. network' = {Mark(u, P) : u \in ts} /\ since' \in [Devices -> SUBSET Places]
  BY <1>1, ChangeMarks
<1>3. network' \subseteq Transactions /\ (\A t \in network' : Shape(t)) /\ LateInv'
  BY <1>2, MarkedNetwork
<1>4. TypeInv'
  BY <1>1, <1>2, <1>3, DeviceTypes, TypeNext DEF device
<1>5. ASSUME NEW d \in Devices PROVE DeviceInv(d)'
  <2>1. DeviceInv(d)
    BY DEF IInv
  <2> QED BY <1>1, <2>1, ChangeWatched DEF device
<1> QED BY <1>3, <1>4, <1>5 DEF IInv

\* The answer to the step a device awaits.
LEMMA OwnStep ==
  ASSUME IInv, ChainOK', NEW P \in SUBSET Places, Foreign(P), NEW D, NEW t \in network, ~t.late,
         D \subseteq {t.by}, Change(P, D, network \ {t}), events' \in 0 .. MaxEvents,
         NEW landed \in BOOLEAN, Answer(t, landed), landed => Land(t) /\ D = {t.by}
  PROVE  IInv'
<1> DEFINE e == t.by
<1>1. TypeInv /\ \A d \in Devices : DeviceInv(d)
  BY DEF IInv
<1>2. t \in Transactions /\ Shape(t) /\ e \in Devices /\ t \in Own(e)
  BY <1>1, DeviceTypes DEF Transactions, Own
<1>3. pc[e] = "sent"
  BY <1>1, <1>2 DEF DeviceInv, OwnInv
<1>4. /\ network' = {Mark(u, P) : u \in network \ {t}} /\ since' \in [Devices -> SUBSET Places]
      /\ Own(e)' = {Mark(u, P) : u \in {v \in network \ {t} : v.by = e /\ ~v.late}}
  BY <1>1, <1>2, ChangeMarks
<1>5. network' \subseteq Transactions /\ (\A u \in network' : Shape(u)) /\ LateInv'
  BY <1>4, MarkedNetwork
<1>6. Own(e)' = {}
  <2>1. \A v \in Own(e) : v = t
    BY <1>1, <1>2 DEF DeviceInv, OwnInv
  <2> QED BY <1>4, <2>1 DEF Own
<1>7. \/ Leave(e, "failed") \/ Leave(e, "idle")
      \/ landed /\ plan[e] # <<>> /\ Goto(e, "send") /\ UNCHANGED <<work, seen, plan>>
  BY DEF Answer
<1>8. ASSUME NEW d \in Devices, d # e
      PROVE  pc'[d] = pc[d] /\ work'[d] = work[d] /\ seen'[d] = seen[d] /\ plan'[d] = plan[d]
  BY <1>1, <1>7, <1>8, DeviceTypes DEF Leave, Goto
<1>9. ASSUME NEW d \in Devices, d # e PROVE DeviceInv(d)'
  BY <1>1, <1>8, <1>9, ChangeWatched
<1>10. TypeInv'
  <2>1. /\ pc' \in [Devices -> {"idle", "reads", "prepare", "send", "sent", "failed"}]
        /\ work' \in [Devices -> Jobs] /\ seen' \in [Devices -> Snapshots]
        /\ plan' \in [Devices -> Seq(Transactions)]
        /\ \A d \in Devices : plan'[d] = plan[d] \/ plan'[d] = <<>>
    <3>1. NoWork \in Jobs
      BY PositionAssumption DEF NoWork, Jobs, Kinds
    <3>2. Unseen \in Snapshots
      BY DEF Unseen, Snapshots, NoPay
    <3>3. <<>> \in Seq(Transactions)
      OBVIOUS
    <3>4. /\ pc \in [Devices -> {"idle", "reads", "prepare", "send", "sent", "failed"}]
          /\ work \in [Devices -> Jobs] /\ seen \in [Devices -> Snapshots]
          /\ plan \in [Devices -> Seq(Transactions)]
      BY <1>1, DeviceTypes
    <3>5. CASE Leave(e, "failed") \/ Leave(e, "idle")
      <4>1. PICK where \in {"idle", "failed"} : Leave(e, where)
        BY <3>5
      <4>2. pc' = [pc EXCEPT ![e] = where] /\ plan' = [plan EXCEPT ![e] = <<>>]
            /\ work' = [work EXCEPT ![e] = IF where = "idle" THEN NoWork ELSE @]
            /\ seen' = [seen EXCEPT ![e] = Unseen]
        BY <4>1 DEF Leave, Goto
      <4>3. pc' \in [Devices -> {"idle", "reads", "prepare", "send", "sent", "failed"}]
        BY <3>4, <4>2
      <4>4. work' \in [Devices -> Jobs] /\ seen' \in [Devices -> Snapshots]
        BY <3>1, <3>2, <3>4, <4>2
      <4>5. plan' \in [Devices -> Seq(Transactions)]
            /\ \A d \in Devices : plan'[d] = plan[d] \/ plan'[d] = <<>>
        BY <3>3, <3>4, <4>2
      <4> QED BY <4>3, <4>4, <4>5
    <3>6. CASE Goto(e, "send") /\ UNCHANGED <<work, seen, plan>>
      BY <3>4, <3>6 DEF Goto
    <3> QED BY <1>7, <3>5, <3>6
  <2>2. \A d \in Devices : \A i \in DOMAIN plan'[d] : Shape(plan'[d][i])
    BY <1>1, <2>1, DeviceTypes
  <2> QED BY <1>4, <1>5, <2>1, <2>2, TypeNext
<1>11. DeviceInv(e)'
  <2>1. CASE Leave(e, "failed") \/ Leave(e, "idle")
    <3>1. pc'[e] \in {"idle", "failed"} /\ plan'[e] = <<>>
      BY <1>1, <1>2, <2>1, DeviceTypes DEF Leave, Goto
    <3> QED BY <1>2, <1>6, <3>1, Quiet
  <2>2. CASE landed /\ plan[e] # <<>> /\ Goto(e, "send") /\ UNCHANGED <<work, seen, plan>>
    <3>1. pc'[e] = "send" /\ plan'[e] = plan[e] /\ since'[e] = since[e] /\ plan[e] # <<>>
      BY <1>1, <1>2, <2>2, DeviceTypes DEF Goto, Change
    <3>2. Planned(e)' = Planned(e) /\ Left(e)' = Planned(e)
      BY <1>6, <3>1 DEF Left, Planned
    <3>3. OwnInv(e)' /\ OrderInv(e)' /\ WorkInv(e)'
      BY <1>1, <1>2, <1>6, <3>1, <3>2 DEF OwnInv, OrderInv, WorkInv, DeviceInv
    <3>4. Land(t) /\ ChainOK
      BY <1>1, <2>2, DeviceTypes
    <3>5. \A u \in Planned(e) : u \in Transactions /\ Shape(u)
      BY <1>1, <1>2, DeviceTypes DEF Planned
    <3>6. \A u \in Planned(e) : Before(t, u)
      BY <1>1, <1>2 DEF DeviceInv, OrderInv
    <3>7. /\ \A u \in Planned(e) : Sweeps(u, since[e])
          /\ Empties(Planned(e) \cup {t}, since[e])
      <4>1. Left(e) = Planned(e) \cup {t}
        BY <1>1, <1>2 DEF Left, DeviceInv, OwnInv
      <4> QED BY <1>1, <1>2, <4>1 DEF DeviceInv, PlanInv
    <3>8. PICK S : S = since[e]
      OBVIOUS
    <3>9. PICK R : R = Planned(e)
      OBVIOUS
    <3>10. ASSUME NEW u \in R PROVE Sweeps(u, S)' /\ Spares(u, S)'
      <4>1. Sweeps(u, S)'
        BY <1>2, <3>4, <3>5, <3>6, <3>7, <3>8, <3>9, OwnSweeps
      <4>2. u.op # "partial"
        BY <3>6, <3>9 DEF Before
      <4> QED BY <4>1, <4>2 DEF Spares
    <3>11. Empties(R, S)'
      <4>1. R \in SUBSET Transactions /\ (\A u \in R : Before(t, u) /\ Shape(u)) /\ Empties(R \cup {t}, S)
        BY <3>5, <3>6, <3>7, <3>8, <3>9
      <4> QED BY <1>2, <3>4, <4>1, OwnEmpties
    <3>12. PlanInv(e)'
      BY <3>1, <3>2, <3>8, <3>9, <3>10, <3>11 DEF PlanInv
    <3> QED BY <3>3, <3>12 DEF DeviceInv
  <2> QED BY <1>7, <2>1, <2>2
<1> QED BY <1>5, <1>9, <1>10, <1>11 DEF IInv

LEMMA StillForeign ==
  ASSUME ChainOK, UNCHANGED chain PROVE ChainOK' /\ Foreign({})
<1>1. ChainOK'
  BY DEF ChainOK, chain
<1>2. shares' \in [Reserves -> Nat] /\ rate' \in [Reserves -> Nat] /\ idle' \in [Mints -> Nat]
      /\ sol' \in Nat
  BY <1>1, PositionAssumption DEF ChainOK
<1> QED BY <1>1, <1>2 DEF Foreign, chain

LEMMA LandStep ==
  ASSUME IInv, NEW t \in network, Land(t) PROVE IInv'
<1>1. TypeInv /\ ChainOK /\ t \in Transactions /\ Shape(t) /\ events' \in 0 .. MaxEvents
  BY DeviceTypes DEF IInv, Land
<1>2. ChainOK' /\ Foreign(Recorded(t))
  BY <1>1, LandChain, LandForeign
<1>3. PICK P : P = Recorded(t)
  OBVIOUS
<1>4. P \in SUBSET Places /\ Foreign(P)
  BY <1>2, <1>3, RecordedPlaces
<1>5. Change(P, IF t.late THEN {} ELSE {t.by}, network \ {t}) /\ Answer(t, TRUE)
  BY <1>3 DEF Land, Recorded
<1>6. CASE t.late
  <2>1. Change(P, {}, network \ {t}) /\ UNCHANGED device
    BY <1>5, <1>6 DEF Answer
  <2> QED BY <1>1, <1>2, <1>4, <1>6, <2>1, ForeignStep
<1>7. CASE ~t.late
  <2>1. Change(P, {t.by}, network \ {t})
    BY <1>5, <1>7
  <2> QED BY <1>1, <1>2, <1>4, <1>5, <1>7, <2>1, OwnStep
<1> QED BY <1>6, <1>7

LEMMA SettleStep ==
  ASSUME IInv, NEW t \in network, Answer(t, FALSE), Change({}, {}, network \ {t}),
         UNCHANGED chain, events' \in 0 .. MaxEvents
  PROVE  IInv'
<1>1. ChainOK' /\ Foreign({})
  BY DeviceTypes, StillForeign DEF IInv
<1>2. CASE t.late
  BY <1>1, <1>2, ForeignStep DEF Answer
<1>3. CASE ~t.late
  BY <1>1, <1>3, OwnStep
<1> QED BY <1>2, <1>3

LEMMA FailsStep ==
  ASSUME IInv, NEW t \in network, Fails(t) \/ Expires(t) PROVE IInv'
<1>1. events \in 0 .. MaxEvents /\ MaxEvents \in Nat
  BY PositionAssumption, DeviceTypes DEF IInv
<1>2. events' \in 0 .. MaxEvents
  <2>1. CASE Fails(t)
    BY <1>1, <2>1 DEF Fails
  <2>2. CASE Expires(t)
    BY <1>1, <2>2 DEF Expires
  <2> QED BY <2>1, <2>2
<1> QED BY <1>2, SettleStep DEF Fails, Expires

LEMMA EventStep ==
  ASSUME IInv, NEW P \in SUBSET Places, Event(P), ChainOK', Foreign(P) PROVE IInv'
<1>1. events' \in 0 .. MaxEvents
  BY PositionAssumption, DeviceTypes DEF IInv, Event
<1> QED BY <1>1, ForeignStep DEF Event

LEMMA AccrueStep ==
  ASSUME IInv, NEW r \in Reserves, Accrue(r) PROVE IInv'
<1>1. ChainOK
  BY DeviceTypes DEF IInv
<1>2. rate' \in [Reserves -> StartRate .. MaxRate] /\ \A s \in Reserves : rate[s] <= rate'[s]
  <2>1. rate \in [Reserves -> StartRate .. MaxRate] /\ StartRate \in Nat /\ MaxRate \in Nat
    BY <1>1, PositionAssumption DEF ChainOK
  <2>2. rate' = [rate EXCEPT ![r] = rate[r] + 1] /\ rate[r] < MaxRate
    BY DEF Accrue
  <2> QED BY <2>1, <2>2
<1>3. UNCHANGED <<shares, open, idle, accounts, sol, pairs, live>>
  BY DEF Accrue
<1>4. ChainOK'
  BY <1>1, <1>2, <1>3 DEF ChainOK
<1>5. shares \in [Reserves -> Nat] /\ idle \in [Mints -> Nat] /\ sol \in Nat
  BY <1>1, ChainNumbers
<1>6. Foreign({})
  BY <1>2, <1>3, <1>5 DEF Foreign
<1> QED BY <1>4, <1>6, EventStep DEF Accrue

LEMMA RebalanceStep ==
  ASSUME IInv, NEW r \in Reserves, NEW s \in Reserves, Rebalance(r, s) PROVE IInv'
<1> DEFINE moved == (shares[r] * rate[r]) \div rate[s]
<1>1. ChainOK
  BY DeviceTypes DEF IInv
<1>2. shares \in [Reserves -> Nat] /\ idle \in [Mints -> Nat] /\ sol \in Nat
      /\ rate \in [Reserves -> Nat] /\ rate[s] \in Nat \ {0}
  BY <1>1, ChainNumbers
<1>3. moved \in Nat
  <2>1. shares[r] * rate[r] \in Nat
    BY <1>2, Product
  <2> QED BY <1>2, <2>1, Division
<1>4. UNCHANGED <<rate, idle, accounts, sol, pairs, live>> /\ open' = open \cup {s}
  BY DEF Rebalance
<1>5. /\ shares'[r] = 0 /\ shares'[s] \in 0 .. MaxShares
      /\ \A x \in Reserves \ {r, s} : shares'[x] = shares[x]
      /\ shares' \in [Reserves -> 0 .. MaxShares]
  <2>1. /\ shares' = [shares EXCEPT ![r] = 0, ![s] = shares[s] + moved] /\ r # s
        /\ shares[s] + moved <= MaxShares
    BY DEF Rebalance
  <2>2. shares \in [Reserves -> 0 .. MaxShares] /\ MaxShares \in Nat
    BY <1>1, PositionAssumption DEF ChainOK
  <2> HIDE DEF moved
  <2> QED BY <1>3, <2>1, <2>2
<1>6. ChainOK'
  <2>1. \A x \in Reserves : shares'[x] > 0 => x \in open'
    BY <1>1, <1>4, <1>5 DEF ChainOK
  <2> QED BY <1>1, <1>4, <1>5, <2>1 DEF ChainOK
<1>7. Foreign({s})
  <2>1. \A x \in Reserves : x \in {s} \/ shares'[x] <= shares[x]
    BY <1>2, <1>5
  <2> QED BY <1>2, <1>4, <2>1 DEF Foreign
<1>8. {s} \in SUBSET Places
  BY DEF Places
<1> QED BY <1>6, <1>7, <1>8, EventStep DEF Rebalance

LEMMA PullStep ==
  ASSUME IInv, Pull PROVE IInv'
<1>1. ChainOK
  BY DeviceTypes DEF IInv
<1>2. shares \in [Reserves -> Nat] /\ idle \in [Mints -> Nat] /\ sol \in Nat
      /\ rate \in [Reserves -> Nat] /\ Usdc \in Mints
  BY <1>1, ChainNumbers, PositionAssumption
<1>3. UNCHANGED <<shares, rate, open, sol, pairs, live>> /\ accounts' = accounts \cup {Usdc}
  BY DEF Pull
<1>4. /\ idle' \in [Mints -> Nat] /\ \A m \in Mints \ {Usdc} : idle'[m] = idle[m]
  BY <1>2 DEF Pull
<1>5. ChainOK'
  <2>1. \A m \in Mints : idle'[m] > 0 => m \in accounts'
    BY <1>1, <1>3, <1>4 DEF ChainOK
  <2> QED BY <1>1, <1>2, <1>3, <1>4, <2>1 DEF ChainOK
<1>6. Foreign({Usdc})
  BY <1>2, <1>3, <1>4 DEF Foreign
<1>7. {Usdc} \in SUBSET Places
  BY <1>2 DEF Places
<1> QED BY <1>5, <1>6, <1>7, EventStep DEF Pull

-----------------------------------------------------------------------------
(* The steps of a device.                                                  *)

PCs == {"idle", "reads", "prepare", "send", "sent", "failed"}

\* A step of d changes nothing of the other devices.
Alone(d) ==
  \A e \in Devices \ {d} :
    /\ pc'[e] = pc[e] /\ work'[e] = work[e] /\ seen'[e] = seen[e] /\ plan'[e] = plan[e]
    /\ since'[e] = since[e] /\ Own(e)' = Own(e)

LEMMA AloneStep ==
  ASSUME IInv, UNCHANGED chain, NEW d \in Devices, Alone(d), DeviceInv(d)',
         LateInv', network' \subseteq Transactions, \A t \in network' : Shape(t),
         events' \in 0 .. MaxEvents, pc' \in [Devices -> PCs], work' \in [Devices -> Jobs],
         seen' \in [Devices -> Snapshots], since' \in [Devices -> SUBSET Places],
         plan' \in [Devices -> Seq(Transactions)],
         \A i \in DOMAIN plan'[d] : Shape(plan'[d][i])
  PROVE  IInv'
<1>1. TypeInv
  BY DEF IInv
<1>2. ChainOK' /\ Foreign({}) /\ {} \in SUBSET Places
  BY <1>1, DeviceTypes, StillForeign
<1>3. ASSUME NEW e \in Devices \ {d} PROVE DeviceInv(e)' /\ \A i \in DOMAIN plan'[e] : Shape(plan'[e][i])
  <2>1. \A u \in Own(e) : u \in Transactions
    BY <1>1, DeviceTypes DEF Own
  <2>2. \A u \in Own(e) : Mark(u, {}) = u
    BY <2>1 DEF Mark, Transactions
  <2>3. {Mark(u, {}) : u \in Own(e)} = Own(e)
    BY <2>2
  <2>4. Watches(e, {})
    BY <2>3 DEF Watches, Alone
  <2>5. DeviceInv(e)
    BY DEF IInv
  <2> QED BY <1>1, <1>2, <2>4, <2>5, Watching, DeviceTypes DEF Alone
<1>4. TypeInv'
  BY <1>2, <1>3, TypeNext DEF PCs
<1> QED BY <1>3, <1>4 DEF IInv

\* A step that sends nothing.
LEMMA LocalStep ==
  ASSUME IInv, UNCHANGED <<chain, network>>, NEW d \in Devices, DeviceInv(d)',
         \A e \in Devices \ {d} :
           /\ pc'[e] = pc[e] /\ work'[e] = work[e] /\ seen'[e] = seen[e] /\ plan'[e] = plan[e]
           /\ since'[e] = since[e],
         events' \in 0 .. MaxEvents, pc' \in [Devices -> PCs], work' \in [Devices -> Jobs],
         seen' \in [Devices -> Snapshots], since' \in [Devices -> SUBSET Places],
         plan' \in [Devices -> Seq(Transactions)],
         \A i \in DOMAIN plan'[d] : Shape(plan'[d][i])
  PROVE  IInv'
<1>1. network' \subseteq Transactions /\ \A t \in network' : Shape(t)
  BY DeviceTypes DEF IInv
<1>2. Alone(d)
  BY DEF Alone, Own
<1>3. LateInv'
  <2>1. \A u \in network : u \in Transactions
    BY DeviceTypes DEF IInv
  <2>2. \A u \in network : Mark(u, {}) = u
    BY <2>1 DEF Mark, Transactions
  <2>3. network' = {Mark(u, {}) : u \in network}
    BY <2>2
  <2>4. ChainOK' /\ Foreign({}) /\ {} \in SUBSET Places
    BY DeviceTypes, StillForeign DEF IInv
  <2> QED BY <2>3, <2>4, MarkedNetwork
<1> QED BY <1>1, <1>2, <1>3, AloneStep

\* A device that sends and awaits nothing.
LEMMA NotSending ==
  ASSUME TypeInv, NEW d \in Devices, DeviceInv(d), pc[d] \notin {"send", "sent"}
  PROVE  Own(d) = {} /\ plan[d] = <<>> /\ Planned(d) = {}
BY DEF DeviceInv, OwnInv, Planned

LEMMA Unplanned ==
  ASSUME IInv, UNCHANGED network, NEW d \in Devices, pc[d] \notin {"send", "sent"},
         pc'[d] \in PCs \ {"send", "sent"}, plan'[d] = plan[d], WorkInv(d)'
  PROVE  DeviceInv(d)'
<1>1. Own(d) = {} /\ plan[d] = <<>>
  BY NotSending DEF IInv
<1>2. Own(d)' = {} /\ plan'[d] = <<>>
  BY <1>1 DEF Own
<1>3. Planned(d)' = {} /\ Left(d)' = {}
  BY <1>2 DEF Planned, Left
<1> QED BY <1>2, <1>3 DEF DeviceInv, OwnInv, OrderInv, PlanInv, Empties, PCs

LEMMA WorksKnown ==
  ASSUME ChainOK, NEW w \in Works
  PROVE  /\ w \in Jobs /\ w.op # "none"
         /\ w.op = "exit" \/ w.closing => \A r \in Reserves : r \in w.reserves \/ shares[r] = 0
         /\ w.op = "exit" /\ w.closing =>
              \A m \in Mints : idle[m] = 0 \/ \E r \in w.reserves : MintOf[r] = m
         /\ w.op = "idle" /\ w.closing => \A m \in Mints \ {w.mint} : idle[m] = 0
         /\ w.op \in {"idle", "cleanup", "refund"} => w.reserves = {}
         /\ w.op = "cleanup" => w.closing
         /\ w.op \in {"deposit", "partial"} => ~w.closing
<1>1. shares \in [Reserves -> Nat] /\ idle \in [Mints -> Nat]
  BY ChainNumbers
<1>2. Amounts \subseteq Nat /\ MintOf \in [Reserves -> Mints] /\ Usdc \in Mints
  BY PositionAssumption
<1>3. Held \subseteq Reserves /\ \A r \in Reserves : r \in Held \/ shares[r] = 0
  BY <1>1 DEF Held
<1>4. IdleMints \subseteq Mints /\ \A m \in Mints : m \in IdleMints \/ idle[m] = 0
  BY <1>1 DEF IdleMints
<1>5. CASE \E r \in Reserves, b \in Amounts : w = Work("deposit", {r}, MintOf[r], b, FALSE)
  BY <1>2, <1>5 DEF Work, Jobs, Kinds
<1>6. CASE \E r \in Held, b \in Amounts : w = Work("partial", {r}, MintOf[r], b, FALSE)
  BY <1>2, <1>3, <1>6 DEF Work, Jobs, Kinds
<1>7. CASE w = Work("exit", Held, Usdc, 0, IdleMints \subseteq {MintOf[r] : r \in Held})
  BY <1>2, <1>3, <1>4, <1>7 DEF Work, Jobs, Kinds
<1>8. CASE \E m \in IdleMints : w = Work("idle", {}, m, idle[m], Held = {} /\ IdleMints = {m})
  <2>1. PICK m \in IdleMints : w = Work("idle", {}, m, idle[m], Held = {} /\ IdleMints = {m})
    BY <1>8
  <2>2. /\ w.op = "idle" /\ w.reserves = {} /\ w.mint = m /\ w.amount = idle[m]
        /\ w.closing = (Held = {} /\ IdleMints = {m})
    BY <2>1 DEF Work
  <2>3. w \in Jobs
    <3>1. m \in Mints /\ idle[m] \in Nat /\ (Held = {} /\ IdleMints = {m}) \in BOOLEAN
      BY <1>1, <1>4
    <3> QED BY <2>1, <3>1 DEF Work, Jobs, Kinds
  <2>4. w.closing => \A r \in Reserves : shares[r] = 0
    BY <1>3, <2>2
  <2>5. w.closing => \A x \in Mints \ {w.mint} : idle[x] = 0
    BY <1>4, <2>2
  <2> QED BY <2>2, <2>3, <2>4, <2>5
<1>9. CASE Held = {} /\ w \in {Work("cleanup", {}, Usdc, 0, TRUE), Work("refund", {}, Usdc, 0, TRUE)}
  <2>1. \A r \in Reserves : shares[r] = 0
    BY <1>3, <1>9
  <2>2. /\ w.op \in {"cleanup", "refund"} /\ w.reserves = {} /\ w.mint = Usdc
        /\ w.amount = 0 /\ w.closing = TRUE
    BY <1>9 DEF Work
  <2>3. w = Work("cleanup", {}, Usdc, 0, TRUE) \/ w = Work("refund", {}, Usdc, 0, TRUE)
    BY <1>9
  <2>4. w \in Jobs
    <3>1. ASSUME NEW op \in Kinds PROVE Work(op, {}, Usdc, 0, TRUE) \in Jobs
      BY <1>2 DEF Work, Jobs
    <3> QED BY <2>3, <3>1 DEF Kinds
  <2> QED BY <2>1, <2>2, <2>4
<1>10. \/ \E r \in Reserves, b \in Amounts : w = Work("deposit", {r}, MintOf[r], b, FALSE)
       \/ \E r \in Held, b \in Amounts : w = Work("partial", {r}, MintOf[r], b, FALSE)
       \/ w = Work("exit", Held, Usdc, 0, IdleMints \subseteq {MintOf[r] : r \in Held})
       \/ \E m \in IdleMints : w = Work("idle", {}, m, idle[m], Held = {} /\ IdleMints = {m})
       \/ Held = {} /\ w \in {Work("cleanup", {}, Usdc, 0, TRUE), Work("refund", {}, Usdc, 0, TRUE)}
  <2> DEFINE A == {Work("deposit", {r}, MintOf[r], b, FALSE) : r \in Reserves, b \in Amounts}
             B == {Work("partial", {r}, MintOf[r], b, FALSE) : r \in Held, b \in Amounts}
             C == {Work("exit", Held, Usdc, 0, IdleMints \subseteq {MintOf[r] : r \in Held})}
             E == {Work("idle", {}, m, idle[m], Held = {} /\ IdleMints = {m}) : m \in IdleMints}
             F == {Work("cleanup", {}, Usdc, 0, TRUE), Work("refund", {}, Usdc, 0, TRUE)}
  <2>1. Works = A \cup B \cup (IF Held = {} THEN {} ELSE C) \cup E \cup (IF Held = {} THEN F ELSE {})
    BY DEF Works
  <2>2. w \in A => \E r \in Reserves, b \in Amounts : w = Work("deposit", {r}, MintOf[r], b, FALSE)
    BY DEF Work
  <2>3. w \in B => \E r \in Held, b \in Amounts : w = Work("partial", {r}, MintOf[r], b, FALSE)
    BY DEF Work
  <2>4. w \in C => w = Work("exit", Held, Usdc, 0, IdleMints \subseteq {MintOf[r] : r \in Held})
    BY Zenon
  <2>5. w \in E => \E m \in IdleMints : w = Work("idle", {}, m, idle[m], Held = {} /\ IdleMints = {m})
    BY Zenon
  <2> HIDE DEF A, B, C, E
  <2> QED BY <2>1, <2>2, <2>3, <2>4, <2>5
<1> QED BY <1>5, <1>6, <1>7, <1>8, <1>9, <1>10

LEMMA ReadHoldingsStep ==
  ASSUME IInv, NEW d \in Devices, pc[d] \notin {"send", "sent"}, NEW w \in Works, ReadHoldings(d, w)
  PROVE  IInv'
<1>1. TypeInv /\ ChainOK
  BY DeviceTypes DEF IInv
<1>2. w \in Jobs /\ w.op # "none"
  BY <1>1, WorksKnown
<1>3. /\ work' = [work EXCEPT ![d] = w] /\ since' = [since EXCEPT ![d] = {}]
      /\ pc' = [pc EXCEPT ![d] = "reads"] /\ UNCHANGED <<chain, network, events, seen, plan>>
  BY DEF ReadHoldings, Goto
<1>4. /\ events' \in 0 .. MaxEvents /\ pc' \in [Devices -> PCs] /\ work' \in [Devices -> Jobs]
      /\ seen' \in [Devices -> Snapshots] /\ since' \in [Devices -> SUBSET Places]
      /\ plan' \in [Devices -> Seq(Transactions)]
      /\ \A i \in DOMAIN plan'[d] : Shape(plan'[d][i])
  BY <1>1, <1>2, <1>3, DeviceTypes DEF PCs
<1>5. pc'[d] = "reads" /\ work'[d] = w /\ since'[d] = {}
  BY <1>1, <1>3, DeviceTypes
<1>6. Knows(d)'
  <2>1. UNCHANGED <<shares, idle>>
    BY <1>3 DEF chain
  <2> QED BY <1>1, <1>5, <2>1, WorksKnown DEF Knows
<1>7. WorkInv(d)'
  BY <1>2, <1>5, <1>6 DEF WorkInv
<1>8. DeviceInv(d)'
  BY <1>3, <1>5, <1>7, Unplanned DEF PCs
<1> QED BY <1>3, <1>4, <1>8, LocalStep, DeviceTypes DEF IInv

LEMMA BeginStep ==
  ASSUME IInv, NEW d \in Devices, Begin(d) PROVE IInv'
BY ReadHoldingsStep DEF Begin

\* The device stops before it has prepared anything.
LEMMA StopStep ==
  ASSUME IInv, UNCHANGED <<chain, network>>, NEW d \in Devices, pc[d] \notin {"send", "sent"},
         NEW where \in {"idle", "failed"}, Goto(d, where), UNCHANGED <<plan, since, events>>,
         UNCHANGED work \/ work' = [work EXCEPT ![d] = NoWork],
         UNCHANGED seen \/ seen' = [seen EXCEPT ![d] = Snapshot]
  PROVE  IInv'
<1>1. TypeInv /\ ChainOK
  BY DeviceTypes DEF IInv
<1>2. NoWork \in Jobs
  BY PositionAssumption DEF NoWork, Jobs, Kinds
<1>3. Snapshot \in Snapshots
  BY <1>1 DEF Snapshot, Snapshots, ChainOK
<1>4. pc' \in [Devices -> PCs] /\ pc'[d] = where /\ \A e \in Devices \ {d} : pc'[e] = pc[e]
  BY <1>1, DeviceTypes DEF Goto, PCs
<1>5. work' \in [Devices -> Jobs] /\ \A e \in Devices \ {d} : work'[e] = work[e]
  BY <1>1, <1>2, DeviceTypes
<1>6. seen' \in [Devices -> Snapshots] /\ \A e \in Devices \ {d} : seen'[e] = seen[e]
  BY <1>1, <1>3, DeviceTypes
<1>7. DeviceInv(d)'
  BY <1>4, Unplanned DEF WorkInv, PCs
<1> QED BY <1>1, <1>4, <1>5, <1>6, <1>7, LocalStep, DeviceTypes

LEMMA AgainStep ==
  ASSUME IInv, NEW d \in Devices, Again(d) PROVE IInv'
<1>1. pc[d] = "failed"
  BY DEF Again
<1>2. ASSUME NEW w \in Retries(d), ReadHoldings(d, w) PROVE IInv'
  <2>1. w \in Works
    BY <1>2 DEF Retries
  <2> QED BY <1>1, <1>2, <2>1, ReadHoldingsStep
<1>3. ASSUME Goto(d, "idle"), work' = [work EXCEPT ![d] = NoWork],
             UNCHANGED <<chain, network, events, seen, plan, since>>
      PROVE  IInv'
  BY <1>1, <1>3, StopStep
<1> QED BY <1>2, <1>3 DEF Again

LEMMA ReadStep ==
  ASSUME IInv, NEW d \in Devices, Read(d) PROVE IInv'
<1>1. TypeInv /\ ChainOK /\ DeviceInv(d)
  BY DeviceTypes DEF IInv
<1>2. /\ pc[d] = "reads" /\ seen' = [seen EXCEPT ![d] = Snapshot]
      /\ UNCHANGED <<chain, network, begun, events, since>>
  BY DEF Read
<1>3. ASSUME GiveUp(d) PROVE IInv'
  BY <1>2, <1>3, StopStep DEF GiveUp
<1>4. ASSUME Goto(d, "prepare"), UNCHANGED <<work, plan>> PROVE IInv'
  <2>1. Snapshot \in Snapshots
    BY <1>1 DEF Snapshot, Snapshots, ChainOK
  <2>2. pc' \in [Devices -> PCs] /\ pc'[d] = "prepare" /\ \A e \in Devices \ {d} : pc'[e] = pc[e]
    BY <1>1, <1>4, DeviceTypes DEF Goto, PCs
  <2>3. /\ seen' \in [Devices -> Snapshots] /\ \A e \in Devices \ {d} : seen'[e] = seen[e]
        /\ seen'[d] = Snapshot
    BY <1>1, <1>2, <2>1, DeviceTypes
  <2>4. Saw(d)'
    <3>1. seen'[d].idle = idle /\ seen'[d].accounts = accounts
      BY <2>3 DEF Snapshot
    <3>2. UNCHANGED <<idle, since>>
      BY <1>2 DEF chain
    <3>3. \A m \in Mints : idle[m] = 0 \/ m \in accounts
      BY <1>1 DEF ChainOK
    <3> QED BY <3>1, <3>2, <3>3 DEF Saw
  <2>5. Knows(d)' /\ work'[d].op # "none"
    BY <1>1, <1>2, <1>4 DEF DeviceInv, WorkInv, Knows, chain
  <2>6. DeviceInv(d)'
    BY <1>2, <1>4, <2>2, <2>4, <2>5, Unplanned DEF WorkInv, PCs
  <2> QED BY <1>1, <1>2, <1>4, <2>2, <2>3, <2>6, LocalStep, DeviceTypes
<1> QED BY <1>3, <1>4 DEF Read

\* The step that ends a plan is the last one.
LEMMA EndsAlone ==
  ASSUME NEW d \in Devices, DeviceInv(d), NEW t \in Own(d), t.last \/ t.removes # {}
  PROVE  Left(d) = {t}
<1>1. \A u \in Own(d) : u = t
  BY DEF DeviceInv, OwnInv
<1>2. Planned(d) = {}
  BY DEF DeviceInv, OrderInv, Before
<1> QED BY <1>1, <1>2 DEF Left

\* What is promised of the step a device awaits.
LEMMA AwaitedInv ==
  ASSUME NEW d \in Devices, DeviceInv(d), NEW t \in Own(d)
  PROVE  Sweeps(t, t.since) /\ Spares(t, t.since) /\ Empties({t}, t.since)
<1>1. t.since = since[d]
  BY DEF DeviceInv, OwnInv
<1>2. Sweeps(t, since[d]) /\ Spares(t, since[d])
  BY DEF DeviceInv, PlanInv, Left
<1>3. CASE t.last \/ t.removes # {}
  <2>1. Empties({t}, since[d])
    BY <1>3, EndsAlone DEF DeviceInv, PlanInv
  <2> QED BY <1>1, <1>2, <2>1
<1>4. CASE ~(t.last \/ t.removes # {})
  BY <1>1, <1>2, <1>4 DEF Empties
<1> QED BY <1>3, <1>4

LEMMA StillPromised ==
  ASSUME TypeInv, UNCHANGED chain, NEW t \in Transactions, NEW S,
         Sweeps(t, S) /\ Spares(t, S) /\ Empties({t}, S)
  PROVE  Sweeps(t, S)' /\ Spares(t, S)' /\ Empties({t}, S)'
<1>1. ChainOK /\ ChainOK' /\ Foreign({})
  BY DeviceTypes, StillForeign
<1>2. S \cup {} = S /\ {t} \in SUBSET Transactions
  OBVIOUS
<1>3. Sweeps(t, S \cup {})' /\ Spares(t, S \cup {})' /\ Empties({t}, S \cup {})'
  BY <1>1, <1>2, ForeignSweeps, ForeignSpares, ForeignEmpties
<1> QED BY <1>2, <1>3

LEMMA AnswerLostStep ==
  ASSUME IInv, NEW d \in Devices, AnswerLost(d) PROVE IInv'
<1>1. TypeInv /\ ChainOK /\ LateInv /\ DeviceInv(d)
  BY DeviceTypes DEF IInv
<1>2. PICK t \in network : t.by = d /\ ~t.late
                           /\ network' = (network \ {t}) \cup {[t EXCEPT !.late = TRUE]}
  BY DEF AnswerLost
<1> DEFINE u == [t EXCEPT !.late = TRUE]
<1>3. t \in Transactions /\ Shape(t) /\ t \in Own(d)
  BY <1>1, <1>2, DeviceTypes DEF Own
<1>4. u \in Transactions /\ Twin(t, u) /\ u.late /\ u.since = t.since
  BY <1>3 DEF Transactions, Twin
<1> HIDE DEF u
<1>5. network' = (network \ {t}) \cup {u}
  BY <1>2 DEF u
<1>6. network' \subseteq Transactions /\ \A v \in network' : Shape(v)
  BY <1>1, <1>3, <1>4, <1>5, DeviceTypes, Twins
<1>7. UNCHANGED chain
  BY DEF AnswerLost
<1>8. LateInv'
  <2> SUFFICES ASSUME NEW v \in network', v.late
               PROVE  Sweeps(v, v.since)' /\ Spares(v, v.since)' /\ Empties({v}, v.since)'
    BY DEF LateInv
  <2>1. Sweeps(v, v.since) /\ Spares(v, v.since) /\ Empties({v}, v.since)
    <3>1. CASE v \in network
      BY <1>1, <3>1 DEF LateInv
    <3>2. CASE v = u
      <4>1. Sweeps(t, t.since) /\ Spares(t, t.since) /\ Empties({t}, t.since)
        BY <1>1, <1>3, AwaitedInv
      <4> QED BY <1>4, <3>2, <4>1, Twins
    <3> QED BY <1>5, <3>1, <3>2
  <2>2. PICK S : S = v.since
    OBVIOUS
  <2>3. Sweeps(v, S)' /\ Spares(v, S)' /\ Empties({v}, S)'
    BY <1>1, <1>6, <1>7, <2>1, <2>2, StillPromised
  <2> QED BY <2>2, <2>3
<1>9. Own(d)' = {} /\ \A e \in Devices \ {d} : Own(e)' = Own(e)
  <2>1. \A v \in Own(d) : v = t
    BY <1>1, <1>3 DEF DeviceInv, OwnInv
  <2>2. u.by = d
    BY <1>2, <1>4 DEF Twin
  <2> QED BY <1>2, <1>4, <1>5, <2>1, <2>2 DEF Own
<1>10. /\ pc' = [pc EXCEPT ![d] = "failed"] /\ plan' = [plan EXCEPT ![d] = <<>>]
       /\ UNCHANGED work /\ seen' = [seen EXCEPT ![d] = Unseen]
       /\ since' = [since EXCEPT ![d] = {}] /\ events < MaxEvents /\ events' = events + 1
  <2>1. work' = [work EXCEPT ![d] = work[d]]
    BY DEF AnswerLost, Leave
  <2>2. UNCHANGED work
    BY <1>1, <2>1, DeviceTypes
  <2> QED BY <2>2 DEF AnswerLost, Leave, Goto
<1>11. Unseen \in Snapshots
  BY DEF Unseen, Snapshots, NoPay
<1>12. /\ events' \in 0 .. MaxEvents /\ pc' \in [Devices -> PCs] /\ work' \in [Devices -> Jobs]
       /\ seen' \in [Devices -> Snapshots] /\ since' \in [Devices -> SUBSET Places]
       /\ plan' \in [Devices -> Seq(Transactions)] /\ plan'[d] = <<>> /\ pc'[d] = "failed"
  BY <1>1, <1>10, <1>11, PositionAssumption, DeviceTypes DEF PCs
<1>13. Alone(d)
  BY <1>1, <1>9, <1>10, DeviceTypes DEF Alone
<1>14. DeviceInv(d)'
  BY <1>9, <1>12, Quiet
<1> QED BY <1>6, <1>7, <1>8, <1>12, <1>13, <1>14, AloneStep

LEMMA SendStep ==
  ASSUME IInv, NEW d \in Devices, Send(d) PROVE IInv'
<1> DEFINE s == plan[d]
           h == Head(s)
           t == [h EXCEPT !.since = since[d]]
<1>1. TypeInv /\ ChainOK /\ LateInv /\ DeviceInv(d) /\ ChainOK' /\ Foreign({})
  BY DeviceTypes, StillForeign DEF IInv, Send
<1>2. pc[d] = "send" /\ network' = network \cup {t}
      /\ UNCHANGED <<chain, begun, events, work, seen, since>>
  BY DEF Send
<1>3. s \in Seq(Transactions) /\ s # <<>>
  BY <1>1, <1>2, DeviceTypes DEF DeviceInv, OwnInv
<1>4. /\ DOMAIN s = 1 .. Len(s) /\ Len(s) \in Nat /\ Len(s) > 0 /\ h = s[1] /\ 1 \in DOMAIN s
      /\ Tail(s) \in Seq(Transactions) /\ DOMAIN Tail(s) = 1 .. Len(s) - 1
      /\ \A i \in 1 .. Len(s) - 1 : Tail(s)[i] = s[i + 1] /\ i + 1 \in DOMAIN s
  <2>1. h = s[1] /\ Tail(s) \in Seq(Transactions) /\ Len(Tail(s)) = Len(s) - 1
        /\ \A i \in 1 .. Len(Tail(s)) : Tail(s)[i] = s[i + 1]
    BY <1>3, HeadTailProperties
  <2>2. DOMAIN s = 1 .. Len(s) /\ Len(s) \in Nat /\ Len(s) > 0
    BY <1>3
  <2> QED BY <2>1, <2>2
<1>5. h \in Planned(d) /\ h \in Transactions /\ Shape(h) /\ h.by = d /\ ~h.late
  <2>1. h \in Planned(d)
    BY <1>4 DEF Planned
  <2> QED BY <1>1, <1>3, <1>4, <2>1, DeviceTypes DEF DeviceInv, OwnInv
<1>6. t \in Transactions /\ Twin(h, t) /\ t.since = since[d] /\ ~t.late
  <2>1. since[d] \subseteq Places
    BY <1>1, DeviceTypes
  <2> QED BY <1>5, <2>1 DEF Transactions, Twin
<1>7. t.by = d /\ Shape(t)
  BY <1>5, <1>6, Twins DEF Twin
<1> HIDE DEF t, h, s
<1>8. Own(d) = {} /\ Own(d)' = {t} /\ \A e \in Devices \ {d} : Own(e)' = Own(e)
  <2>1. Own(d) = {}
    BY <1>1, <1>2 DEF DeviceInv, OwnInv
  <2> QED BY <1>2, <1>6, <1>7, <2>1 DEF Own
<1>9. /\ pc' = [pc EXCEPT ![d] = "sent"] /\ plan' = [plan EXCEPT ![d] = Tail(s)]
  BY DEF Send, Goto, s
<1>10. /\ pc' \in [Devices -> PCs] /\ plan' \in [Devices -> Seq(Transactions)]
       /\ plan'[d] = Tail(s) /\ pc'[d] = "sent"
  BY <1>1, <1>4, <1>9, DeviceTypes DEF PCs
<1>11. Alone(d)
  BY <1>1, <1>2, <1>8, <1>9, DeviceTypes DEF Alone
<1>12. network' \subseteq Transactions /\ (\A v \in network' : Shape(v))
       /\ \A i \in DOMAIN plan'[d] : Shape(plan'[d][i])
  <2>1. \A i \in DOMAIN s : Shape(s[i])
    BY <1>1, DeviceTypes DEF s
  <2> QED BY <1>1, <1>2, <1>4, <1>6, <1>7, <1>10, <2>1, DeviceTypes
<1>13. LateInv'
  <2> SUFFICES ASSUME NEW v \in network', v.late
               PROVE  Sweeps(v, v.since)' /\ Spares(v, v.since)' /\ Empties({v}, v.since)'
    BY DEF LateInv
  <2>1. Sweeps(v, v.since) /\ Spares(v, v.since) /\ Empties({v}, v.since)
    BY <1>1, <1>2, <1>6 DEF LateInv
  <2>2. PICK S : S = v.since
    OBVIOUS
  <2>3. Sweeps(v, S)' /\ Spares(v, S)' /\ Empties({v}, S)'
    BY <1>1, <1>2, <1>12, <2>1, <2>2, StillPromised
  <2> QED BY <2>2, <2>3
<1>14. /\ Planned(d) = {h} \cup {s[i + 1] : i \in 1 .. Len(s) - 1}
       /\ Planned(d)' = {s[i + 1] : i \in 1 .. Len(s) - 1}
  <2>1. Planned(d) = {s[i] : i \in 1 .. Len(s)}
    BY <1>4 DEF Planned, s
  <2>2. \A i \in 1 .. Len(s) : i = 1 \/ (i - 1 \in 1 .. Len(s) - 1 /\ s[i] = s[(i - 1) + 1])
    BY <1>4
  <2>3. Planned(d) = {h} \cup {s[i + 1] : i \in 1 .. Len(s) - 1}
    BY <1>4, <2>1, <2>2
  <2>4. Planned(d)' = {Tail(s)[i] : i \in 1 .. Len(s) - 1}
    BY <1>4, <1>10 DEF Planned
  <2> QED BY <1>4, <2>3, <2>4
<1>15. OwnInv(d)'
  BY <1>1, <1>2, <1>6, <1>8, <1>10, <1>14 DEF OwnInv, DeviceInv
<1>16. OrderInv(d)'
  <2>1. \A i, j \in DOMAIN s : i < j => Before(s[i], s[j])
    BY <1>1 DEF DeviceInv, OrderInv, s
  <2>2. ASSUME NEW i \in DOMAIN plan'[d], NEW j \in DOMAIN plan'[d], i < j
        PROVE  Before(plan'[d][i], plan'[d][j])
    <3>1. i \in 1 .. Len(s) - 1 /\ j \in 1 .. Len(s) - 1
      BY <1>4, <1>10
    <3>2. Before(s[i + 1], s[j + 1])
      BY <1>4, <2>1, <2>2, <3>1
    <3> QED BY <1>4, <1>10, <3>1, <3>2
  <2>3. ASSUME NEW u \in Planned(d)' PROVE Before(t, u)
    <3>1. PICK i \in 1 .. Len(s) - 1 : u = s[i + 1]
      BY <1>14
    <3>2. Before(h, u)
      BY <1>4, <2>1, <3>1
    <3> QED BY <1>6, <3>2, Twins
  <2> QED BY <1>8, <2>2, <2>3 DEF OrderInv
<1>17. PlanInv(d)'
  <2>1. PICK S : S = since[d]
    OBVIOUS
  <2>2. PICK Q : Q = Left(d)
    OBVIOUS
  <2>3. PICK R : R = Left(d)'
    OBVIOUS
  <2>4. Q = {h} \cup Planned(d)' /\ R = {t} \cup Planned(d)'
    BY <1>8, <1>14, <2>2, <2>3 DEF Left
  <2>5. Q \in SUBSET Transactions
    <3>1. \A i \in DOMAIN s : s[i] \in Transactions
      BY <1>3
    <3> QED BY <1>4, <1>5, <1>14, <2>4, <3>1
  <2>6. (\A u \in Q : \E v \in R : Twin(u, v)) /\ (\A v \in R : \E u \in Q : Twin(u, v))
    BY <1>6, <2>4, TwinRefl
  <2>7. (\A u \in Q : Sweeps(u, S) /\ Spares(u, S)) /\ Empties(Q, S)
    BY <1>1, <2>1, <2>2 DEF DeviceInv, PlanInv
  <2>8. (\A v \in R : Sweeps(v, S \cup {})' /\ Spares(v, S \cup {})') /\ Empties(R, S \cup {})'
    <3>1. {} \in SUBSET Places
      OBVIOUS
    <3> QED BY <1>1, <2>5, <2>6, <2>7, <3>1, WatchedPlan
  <2>9. S \cup {} = S /\ since'[d] = S
    BY <1>2, <2>1
  <2> QED BY <2>3, <2>8, <2>9 DEF PlanInv
<1>18. WorkInv(d)'
  BY <1>10 DEF WorkInv
<1>19. DeviceInv(d)'
  BY <1>15, <1>16, <1>17, <1>18 DEF DeviceInv
<1> QED BY <1>1, <1>2, <1>10, <1>11, <1>12, <1>13, <1>19, AloneStep, DeviceTypes

-----------------------------------------------------------------------------
(* Preparing.                                                              *)

\* What has to hold of a new plan.
LEMMA PreparedStep ==
  ASSUME IInv, NEW d \in Devices, pc[d] = "prepare", NEW s \in Seq(Transactions), s # <<>>,
         Prepared(d, s), UNCHANGED <<chain, network, events, seen, since>>,
         \A i \in DOMAIN s : /\ s[i].by = d /\ ~s[i].late /\ Shape(s[i])
                             /\ Sweeps(s[i], since[d]) /\ Spares(s[i], since[d]),
         \A i, j \in DOMAIN s : i < j => Before(s[i], s[j]),
         Empties({s[i] : i \in DOMAIN s}, since[d])
  PROVE  IInv'
<1>1. TypeInv /\ ChainOK /\ DeviceInv(d) /\ ChainOK' /\ Foreign({})
  BY DeviceTypes, StillForeign DEF IInv
<1>2. /\ pc' = [pc EXCEPT ![d] = "send"] /\ plan' = [plan EXCEPT ![d] = s] /\ UNCHANGED work
  BY DEF Prepared, Goto
<1>3. /\ pc' \in [Devices -> PCs] /\ plan' \in [Devices -> Seq(Transactions)]
      /\ pc'[d] = "send" /\ plan'[d] = s
      /\ \A e \in Devices \ {d} : pc'[e] = pc[e] /\ plan'[e] = plan[e]
  BY <1>1, <1>2, DeviceTypes DEF PCs
<1>4. Own(d)' = {}
  BY <1>1, NotSending DEF Own
<1>5. \A i \in DOMAIN s : s[i] \in Transactions
  OBVIOUS
<1>6. Planned(d)' = {s[i] : i \in DOMAIN s} /\ Left(d)' = {s[i] : i \in DOMAIN s}
  BY <1>3, <1>4 DEF Planned, Left
<1>7. OwnInv(d)' /\ OrderInv(d)' /\ WorkInv(d)'
  BY <1>3, <1>4, <1>6 DEF OwnInv, OrderInv, WorkInv
<1>8. PlanInv(d)'
  <2>1. PICK S : S = since[d]
    OBVIOUS
  <2>2. PICK Q : Q = {s[i] : i \in DOMAIN s}
    OBVIOUS
  <2>3. Q \in SUBSET Transactions
    BY <1>5, <2>2
  <2>4. (\A u \in Q : \E v \in Q : Twin(u, v)) /\ (\A v \in Q : \E u \in Q : Twin(u, v))
    BY TwinRefl
  <2>5. (\A u \in Q : Sweeps(u, S) /\ Spares(u, S)) /\ Empties(Q, S)
    BY <2>1, <2>2
  <2>6. (\A v \in Q : Sweeps(v, S \cup {})' /\ Spares(v, S \cup {})') /\ Empties(Q, S \cup {})'
    <3>1. {} \in SUBSET Places
      OBVIOUS
    <3> QED BY <1>1, <2>3, <2>4, <2>5, <3>1, WatchedPlan
  <2>7. S \cup {} = S /\ since'[d] = S
    BY <2>1
  <2> QED BY <1>6, <2>2, <2>6, <2>7 DEF PlanInv
<1>9. DeviceInv(d)'
  BY <1>7, <1>8 DEF DeviceInv
<1> QED BY <1>1, <1>2, <1>3, <1>9, LocalStep, DeviceTypes

\* A plan of one step.
LEMMA OneStep ==
  ASSUME IInv, NEW d \in Devices, pc[d] = "prepare", NEW t \in Transactions,
         Prepared(d, <<t>>), UNCHANGED <<chain, network, events, seen, since>>,
         t.by = d, ~t.late, Shape(t), Sweeps(t, since[d]), Spares(t, since[d]),
         Empties({t}, since[d])
  PROVE  IInv'
<1>1. PICK s : s = <<t>>
  OBVIOUS
<1>2. s \in Seq(Transactions) /\ s # <<>> /\ DOMAIN s = {1} /\ s[1] = t
  BY <1>1
<1>3. {s[i] : i \in DOMAIN s} = {t}
  BY <1>2
<1>4. \A i \in DOMAIN s : s[i] = t
  BY <1>2
<1>5. \A i, j \in DOMAIN s : i < j => Before(s[i], s[j])
  BY <1>2
<1>6. Prepared(d, s) /\ Empties({s[i] : i \in DOMAIN s}, since[d])
  BY <1>1, <1>3
<1> QED BY <1>2, <1>4, <1>5, <1>6, PreparedStep

\* What a device knows when it prepares.
LEMMA Preparing ==
  ASSUME IInv, NEW d \in Devices, pc[d] = "prepare"
  PROVE  /\ ChainOK /\ Knows(d) /\ Saw(d) /\ work[d] \in Jobs /\ work[d].op \in Kinds
         /\ work[d].reserves \subseteq Reserves /\ work[d].mint \in Mints
         /\ work[d].amount \in Nat /\ work[d].closing \in BOOLEAN
         /\ seen[d].idle \in [Mints -> Nat] /\ seen[d].sol \in Nat /\ seen[d].accounts \subseteq Mints
         /\ since[d] \in SUBSET Places
<1>1. TypeInv /\ DeviceInv(d)
  BY DEF IInv
<1>2. work[d] \in Jobs /\ seen[d] \in Snapshots /\ since[d] \in SUBSET Places /\ ChainOK
  BY <1>1, DeviceTypes
<1>3. Knows(d) /\ Saw(d) /\ work[d].op # "none"
  BY <1>1 DEF DeviceInv, WorkInv
<1> QED BY <1>2, <1>3 DEF Jobs, Snapshots

LEMMA NothingTyped == Nothing \in [Reserves -> Nat] /\ NoPay \in [Mints -> Nat]
BY DEF Nothing, NoPay

LEMMA BlankTransaction ==
  ASSUME NEW d \in Devices, work[d].op \in Kinds
  PROVE  /\ Transaction(d) \in Transactions
         /\ Transaction(d).op = work[d].op
BY NothingTyped DEF Transaction, Transactions

LEMMA IdleStep ==
  ASSUME IInv, NEW d \in Devices, PrepareIdle(d) PROVE IInv'
<1>1. pc[d] = "prepare" /\ work[d].op = "idle" /\ UNCHANGED <<chain, network, begun, events, seen, since>>
  BY DEF PrepareIdle
<1> DEFINE w == work[d]
           pay == [NoPay EXCEPT ![w.mint] = w.amount]
           closes == IF w.closing THEN {w.mint} ELSE {}
           t == [Transaction(d) EXCEPT !.pay = pay, !.closes = closes,
                   !.sweep = SweepIf(w.closing, Nothing), !.removes = RemovesIf(w.closing),
                   !.last = w.closing]
<1>2. Prepared(d, <<t>>)
  BY DEF PrepareIdle
<1>3. /\ ChainOK /\ Knows(d) /\ w.op \in Kinds /\ w.mint \in Mints /\ w.amount \in Nat
      /\ w.closing \in BOOLEAN
  BY <1>1, Preparing
<1>4. pay \in [Mints -> Nat] /\ closes \in SUBSET Mints
  BY <1>3, NothingTyped
<1>5. SweepIf(w.closing, Nothing) \in Nat
  <2>1. Refunds(Nothing) \in Nat
    BY <1>3, RefundsBound, NothingTyped
  <2>2. sol \in Nat
    BY <1>3 DEF ChainOK
  <2> QED BY <2>1, <2>2 DEF SweepIf
<1>6. RemovesIf(w.closing) \in SUBSET Nat /\ (~w.closing => RemovesIf(w.closing) = {})
  BY <1>3 DEF RemovesIf, ChainOK
<1>7. t \in Transactions
  <2> HIDE DEF pay, closes
  <2> QED BY <1>1, <1>3, <1>4, <1>5, <1>6, BlankTransaction DEF Transactions
<1>8. /\ t.by = d /\ ~t.late /\ t.op = "idle" /\ t.takes = Nothing /\ t.puts = Nothing
      /\ t.opens = {} /\ t.tops = 0 /\ t.closes = closes /\ t.last = w.closing
      /\ t.removes = RemovesIf(w.closing)
  BY <1>1 DEF Transaction
<1> HIDE DEF t
<1>9. Shape(t) /\ Sweeps(t, since[d]) /\ Spares(t, since[d])
  BY <1>8 DEF Shape, Sweeps, Spares, Nothing
<1>10. Empties({t}, since[d])
  <2> SUFFICES ASSUME w.closing PROVE Empties({t}, since[d])
    BY <1>6, <1>8 DEF Empties
  <2>1. \A r \in Reserves : shares[r] = 0 \/ r \in since[d]
    BY <1>1, <1>3 DEF Knows
  <2>2. \A m \in Mints : idle[m] = 0 \/ m \in since[d] \/ m \in t.closes
    BY <1>1, <1>3, <1>8 DEF Knows
  <2>3. \A r \in Reserves : ~(t.takes[r] > 0)
    BY <1>8 DEF Nothing
  <2> QED BY <2>1, <2>2, <2>3 DEF Empties
<1> QED BY <1>1, <1>2, <1>7, <1>8, <1>9, <1>10, OneStep

\* A transaction that takes nothing and ends nothing promises nothing.
LEMMA HarmlessStep ==
  ASSUME NEW t, NEW S, t.op \notin {"exit", "partial"}, ~t.last, t.removes = {}
  PROVE  Sweeps(t, S) /\ Spares(t, S) /\ Empties({t}, S)
BY DEF Sweeps, Spares, Empties

LEMMA DepositStep ==
  ASSUME IInv, NEW d \in Devices, PrepareDeposit(d) PROVE IInv'
<1>1. pc[d] = "prepare" /\ work[d].op = "deposit" /\ UNCHANGED <<chain, network, begun, events, seen, since>>
  BY DEF PrepareDeposit
<1>2. ASSUME Throw(d) PROVE IInv'
  BY <1>1, <1>2, StopStep DEF Throw
<1>3. /\ ChainOK /\ work[d].op \in Kinds /\ work[d].amount \in Nat /\ work[d].reserves \subseteq Reserves
  BY <1>1, Preparing
<1>4. \A r \in Reserves : TopUp(r) \in Nat
  <2>1. sol \in Nat /\ RentBuffer \in Nat
    BY <1>3, PositionAssumption DEF ChainOK
  <2> QED BY <2>1 DEF TopUp, Most
<1>5. ASSUME NEW r \in work[d].reserves, NEW topUp \in Nat
      PROVE  LET t == DepositStage(d, r, topUp) IN
             /\ t \in Transactions /\ t.by = d /\ ~t.late /\ t.op = "deposit" /\ ~t.last
             /\ t.removes = {} /\ t.takes = Nothing /\ Shape(t)
  <2>1. /\ r \in Reserves /\ {MintOf[r]} \in SUBSET Mints /\ Opens(r) \in SUBSET Reserves
        /\ [Nothing EXCEPT ![r] = work[d].amount] \in [Reserves -> Nat]
    BY <1>3, PositionAssumption, NothingTyped DEF Opens
  <2>2. DepositStage(d, r, topUp) \in Transactions
    <3> DEFINE puts == [Nothing EXCEPT ![r] = work[d].amount]
               opens == Opens(r)
               mints == {MintOf[r]}
    <3>1. /\ DepositStage(d, r, topUp)
               = [Transaction(d) EXCEPT !.puts = puts, !.mints = mints, !.opens = opens, !.tops = topUp]
          /\ puts \in [Reserves -> Nat] /\ opens \in SUBSET Reserves /\ mints \in SUBSET Mints
      BY <2>1 DEF DepositStage
    <3> HIDE DEF puts, opens, mints
    <3> QED BY <1>1, <1>3, <3>1, BlankTransaction DEF Transactions
  <2> QED BY <1>1, <2>2 DEF DepositStage, Transaction, Shape, Nothing
<1>6. ASSUME NEW topUp \in Nat
      PROVE  LET t == PolicyStage(d, topUp) IN
             /\ t \in Transactions /\ t.by = d /\ ~t.late /\ t.op = "deposit" /\ ~t.last
             /\ t.removes = {} /\ t.sweep = 0 /\ t.closes = {} /\ t.takes = Nothing /\ Shape(t)
  <2>1. PolicyStage(d, topUp) \in Transactions
    BY <1>1, <1>3, BlankTransaction DEF PolicyStage, Transactions
  <2> QED BY <1>1, <2>1 DEF PolicyStage, Transaction, Shape, Nothing
<1>7. ASSUME NEW r \in work[d].reserves, Prepared(d, <<DepositStage(d, r, TopUp(r))>>) PROVE IInv'
  <2>1. r \in Reserves
    BY <1>3
  <2>2. PICK t : t = DepositStage(d, r, TopUp(r))
    OBVIOUS
  <2>3. /\ t \in Transactions /\ t.by = d /\ ~t.late /\ t.op = "deposit" /\ ~t.last
        /\ t.removes = {} /\ Shape(t)
    BY <1>4, <1>5, <2>1, <2>2
  <2>4. Prepared(d, <<t>>)
    BY <1>7, <2>2
  <2> QED BY <1>1, <2>3, <2>4, HarmlessStep, OneStep
<1>8. ASSUME NEW r \in work[d].reserves,
             Prepared(d, <<PolicyStage(d, TopUp(r)), DepositStage(d, r, 0)>>) PROVE IInv'
  <2>1. r \in Reserves
    BY <1>3
  <2>2. PICK t : t = PolicyStage(d, TopUp(r))
    OBVIOUS
  <2>3. PICK u : u = DepositStage(d, r, 0)
    OBVIOUS
  <2>4. /\ t \in Transactions /\ t.by = d /\ ~t.late /\ t.op = "deposit" /\ ~t.last
        /\ t.removes = {} /\ t.sweep = 0 /\ t.closes = {} /\ Shape(t)
    BY <1>4, <1>6, <2>1, <2>2
  <2>5. /\ u \in Transactions /\ u.by = d /\ ~u.late /\ u.op = "deposit" /\ ~u.last
        /\ u.removes = {} /\ u.takes = Nothing /\ Shape(u)
    BY <1>5, <2>3
  <2>6. PICK s : s = <<t, u>>
    OBVIOUS
  <2>7. s \in Seq(Transactions) /\ s # <<>> /\ DOMAIN s = {1, 2} /\ s[1] = t /\ s[2] = u
    BY <2>4, <2>5, <2>6
  <2>8. \A i \in DOMAIN s : /\ s[i].by = d /\ ~s[i].late /\ Shape(s[i])
                            /\ Sweeps(s[i], since[d]) /\ Spares(s[i], since[d])
    BY <2>4, <2>5, <2>7, HarmlessStep
  <2>9. \A i, j \in DOMAIN s : i < j => Before(s[i], s[j])
    <3>1. Before(t, u)
      BY <2>4, <2>5 DEF Before
    <3> QED BY <2>7, <3>1
  <2>10. Empties({s[i] : i \in DOMAIN s}, since[d])
    BY <2>4, <2>5, <2>7 DEF Empties
  <2>11. Prepared(d, s)
    BY <1>8, <2>2, <2>3, <2>6
  <2> QED BY <1>1, <2>7, <2>8, <2>9, <2>10, <2>11, PreparedStep
<1> QED BY <1>2, <1>7, <1>8 DEF PrepareDeposit

LEMMA CleanupStep ==
  ASSUME IInv, NEW d \in Devices, PrepareCleanup(d) PROVE IInv'
<1>1. pc[d] = "prepare" /\ work[d].op = "cleanup" /\ UNCHANGED <<chain, network, begun, events, seen, since>>
  BY DEF PrepareCleanup
<1>2. ASSUME GiveUp(d) PROVE IInv'
  BY <1>1, <1>2, StopStep DEF GiveUp
<1> DEFINE t == [Transaction(d) EXCEPT !.pay = TokenCleanup(d), !.closes = seen[d].accounts,
                                       !.sweep = sol, !.removes = live]
<1>3. /\ ChainOK /\ Knows(d) /\ Saw(d) /\ work[d].op \in Kinds
      /\ seen[d].idle \in [Mints -> Nat] /\ seen[d].accounts \subseteq Mints
  BY <1>1, Preparing
<1>4. ASSUME Prepared(d, <<t>>) PROVE IInv'
  <2>1. TokenCleanup(d) \in [Mints -> Nat] /\ sol \in Nat /\ live \subseteq Nat
    BY <1>3 DEF TokenCleanup, ChainOK
  <2>2. t \in Transactions
    BY <1>1, <1>3, <2>1, BlankTransaction DEF Transactions
  <2>3. /\ t.by = d /\ ~t.late /\ t.op = "cleanup" /\ t.takes = Nothing /\ t.puts = Nothing
        /\ t.opens = {} /\ t.tops = 0 /\ t.closes = seen[d].accounts
    BY <1>1 DEF Transaction
  <2> HIDE DEF t
  <2>4. Shape(t) /\ Sweeps(t, since[d]) /\ Spares(t, since[d])
    BY <2>3 DEF Shape, Sweeps, Spares, Nothing
  <2>5. Empties({t}, since[d])
    <3>1. \A r \in Reserves : shares[r] = 0 \/ r \in since[d]
      BY <1>1, <1>3 DEF Knows
    <3>2. \A m \in Mints : idle[m] = 0 \/ m \in since[d] \/ m \in t.closes
      BY <1>3, <2>3 DEF Saw
    <3>3. \A r \in Reserves : ~(t.takes[r] > 0)
      BY <2>3 DEF Nothing
    <3> QED BY <3>1, <3>2, <3>3 DEF Empties
  <2> QED BY <1>1, <1>4, <2>2, <2>3, <2>4, <2>5, OneStep
<1> QED BY <1>2, <1>4 DEF PrepareCleanup

LEMMA RefundStep ==
  ASSUME IInv, NEW d \in Devices, PrepareRefund(d) PROVE IInv'
<1>1. pc[d] = "prepare" /\ work[d].op = "refund" /\ UNCHANGED <<chain, network, begun, events, seen, since>>
  BY DEF PrepareRefund
<1>2. ASSUME GiveUp(d) PROVE IInv'
  BY <1>1, <1>2, StopStep DEF GiveUp
<1> DEFINE pay == [NoPay EXCEPT ![Usdc] = seen[d].idle[Usdc]]
           closes == seen[d].accounts
           sweep == seen[d].sol
           t == [Transaction(d) EXCEPT !.pay = pay, !.closes = closes, !.sweep = sweep]
<1>3. /\ work[d].op \in Kinds /\ seen[d].sol \in Nat
      /\ seen[d].idle \in [Mints -> Nat] /\ seen[d].accounts \subseteq Mints
  BY <1>1, Preparing
<1>4. ASSUME Prepared(d, <<t>>) PROVE IInv'
  <2>1. pay \in [Mints -> Nat] /\ closes \in SUBSET Mints /\ sweep \in Nat
    BY <1>3, PositionAssumption, NothingTyped
  <2>2. t \in Transactions
    <3> HIDE DEF pay, closes, sweep
    <3> QED BY <1>1, <1>3, <2>1, BlankTransaction DEF Transactions
  <2>3. /\ t.by = d /\ ~t.late /\ t.op = "refund" /\ t.takes = Nothing /\ t.puts = Nothing
        /\ t.opens = {} /\ t.tops = 0 /\ ~t.last /\ t.removes = {}
    BY <1>1 DEF Transaction
  <2> HIDE DEF t
  <2>4. Shape(t)
    BY <2>3 DEF Shape, Nothing
  <2> QED BY <1>1, <1>4, <2>2, <2>3, <2>4, HarmlessStep, OneStep
<1> QED BY <1>2, <1>4 DEF PrepareRefund

LEMMA TakeOne ==
  ASSUME NEW r \in Reserves, NEW x \in Nat
  PROVE  [Nothing EXCEPT ![r] = x] \in [Reserves -> Nat]
BY NothingTyped

LEMMA SimulatedTyped ==
  ASSUME ChainOK, NEW d \in Devices, seen[d].idle \in [Mints -> Nat],
         NEW takes \in [Reserves -> Nat], NEW m \in Mints
  PROVE  /\ Simulated(d, takes, m) \in Int
         /\ seen[d].idle[m] = idle[m] => Simulated(d, takes, m) = Liquidity(takes, m)
<1>1. Liquidity(takes, m) \in Nat /\ idle[m] \in Nat /\ seen[d].idle[m] \in Nat
  BY ChainNumbers, LiquiditySum
<1> QED BY <1>1 DEF Simulated, Redeemed

\* The collateral computed for an amount is a number of shares.
LEMMA AdjustedTyped ==
  ASSUME ChainOK, NEW d \in Devices, seen[d].idle \in [Mints -> Nat], work[d].amount \in Nat,
         NEW r \in Reserves, NEW c \in {work[d].amount \div rate[r], CeilDiv(work[d].amount, rate[r])}
  PROVE  Adjusted(d, r, c) \in Nat
<1>1. rate[r] \in Nat \ {0}
  BY ChainNumbers
<1>2. ASSUME NEW a \in Nat PROVE CeilDiv(a, rate[r]) \in Nat
  <2>1. a + rate[r] - 1 \in Nat
    BY <1>1
  <2> QED BY <1>1, <2>1, Division DEF CeilDiv
<1>3. c \in Nat
  BY <1>1, <1>2, Division
<1>4. ASSUME NEW x \in Nat PROVE Short(d, r, x) \in Int
  <2>1. [Nothing EXCEPT ![r] = x] \in [Reserves -> Nat] /\ MintOf[r] \in Mints
    BY TakeOne, PositionAssumption
  <2>2. Simulated(d, [Nothing EXCEPT ![r] = x], MintOf[r]) \in Int
    BY <2>1, SimulatedTyped
  <2> QED BY <2>2 DEF Short
<1> DEFINE next(x) == IF Short(d, r, x) > 0 THEN x + CeilDiv(Short(d, r, x), rate[r]) + 1 ELSE x
<1>5. ASSUME NEW x \in Nat PROVE next(x) \in Nat
  <2>1. CASE Short(d, r, x) > 0
    <3>1. Short(d, r, x) \in Nat
      BY <1>4, <2>1
    <3>2. CeilDiv(Short(d, r, x), rate[r]) \in Nat
      BY <1>2, <3>1
    <3> QED BY <2>1, <3>2
  <2>2. CASE ~(Short(d, r, x) > 0)
    BY <2>2
  <2> QED BY <2>1, <2>2
<1>6. next(next(c)) \in Nat
  <2> HIDE DEF next
  <2> QED BY <1>3, <1>5
<1> QED BY <1>6 DEF Adjusted

LEMMA PartialStep ==
  ASSUME IInv, NEW d \in Devices, PreparePartial(d) PROVE IInv'
<1>1. pc[d] = "prepare" /\ work[d].op = "partial" /\ UNCHANGED <<chain, network, begun, events, seen, since>>
  BY DEF PreparePartial
<1>2. ASSUME Throw(d) PROVE IInv'
  BY <1>1, <1>2, StopStep DEF Throw
<1>3. /\ ChainOK /\ Saw(d) /\ work[d].op \in Kinds /\ work[d].amount \in Nat
      /\ work[d].reserves \subseteq Reserves /\ seen[d].idle \in [Mints -> Nat]
  BY <1>1, Preparing
<1>4. ASSUME NEW r \in work[d].reserves, NEW x \in Nat, ~(Short(d, r, x) > 0),
             Prepared(d, <<[Transaction(d) EXCEPT !.takes = [Nothing EXCEPT ![r] = x], !.mints = {MintOf[r]},
                              !.pay = [NoPay EXCEPT ![MintOf[r]] = work[d].amount]]>>)
      PROVE  IInv'
  <2> DEFINE m == MintOf[r]
             takes == [Nothing EXCEPT ![r] = x]
             pay == [NoPay EXCEPT ![m] = work[d].amount]
             mints == {m}
             t == [Transaction(d) EXCEPT !.takes = takes, !.mints = mints, !.pay = pay]
  <2>1. /\ r \in Reserves /\ m \in Mints /\ takes \in [Reserves -> Nat] /\ mints \in SUBSET Mints
        /\ pay \in [Mints -> Nat]
    BY <1>3, PositionAssumption, NothingTyped, TakeOne
  <2>2. t \in Transactions
    <3> HIDE DEF takes, mints, pay
    <3> QED BY <1>1, <1>3, <2>1, BlankTransaction DEF Transactions
  <2>3. /\ t.by = d /\ ~t.late /\ t.op = "partial" /\ t.takes = takes /\ t.puts = Nothing
        /\ t.opens = {} /\ t.tops = 0 /\ ~t.last /\ t.removes = {} /\ t.pay = pay /\ t.mints = mints
    BY <1>1 DEF Transaction
  <2>4. Prepared(d, <<t>>)
    BY <1>4
  <2> HIDE DEF t
  <2>5. Shape(t)
    <3>1. \A y \in Reserves : takes[y] > 0 => MintOf[y] \in mints
      BY DEF Nothing
    <3> QED BY <2>3, <3>1 DEF Shape
  <2>6. Spares(t, since[d])
    <3>1. work[d].amount <= Simulated(d, takes, m)
      <4>1. Simulated(d, takes, m) \in Int
        BY <1>3, <2>1, SimulatedTyped
      <4>2. ~(work[d].amount - Simulated(d, takes, m) > 0)
        BY <1>4 DEF Short
      <4> HIDE DEF takes
      <4> QED BY <1>3, <4>1, <4>2
    <3>2. ASSUME NEW y \in Mints
          PROVE  y \in since[d] \/ Used(y) \in since[d] \/ t.pay[y] <= Liquidity(t.takes, y)
      <4>1. CASE y = m
        <5>1. idle[m] = seen[d].idle[m] \/ m \in since[d] \/ Used(m) \in since[d]
          BY <1>3, <2>1 DEF Saw
        <5>2. t.pay[m] = work[d].amount
          BY <2>1, <2>3, NothingTyped
        <5>3. idle[m] = seen[d].idle[m] => t.pay[m] <= Liquidity(t.takes, m)
          <6>1. idle[m] = seen[d].idle[m] => Simulated(d, takes, m) = Liquidity(takes, m)
            BY <1>3, <2>1, SimulatedTyped
          <6> HIDE DEF takes, m
          <6> QED BY <2>3, <3>1, <5>2, <6>1
        <5> QED BY <4>1, <5>1, <5>3
      <4>2. CASE y # m
        <5>1. t.pay[y] = 0
          BY <2>3, <4>2 DEF NoPay
        <5>2. Liquidity(t.takes, y) \in Nat
          BY <1>3, <2>1, <2>3, LiquiditySum, ChainNumbers
        <5> QED BY <5>1, <5>2
      <4> QED BY <4>1, <4>2
    <3> QED BY <3>2 DEF Spares
  <2>7. Sweeps(t, since[d]) /\ Empties({t}, since[d])
    BY <2>3 DEF Sweeps, Empties
  <2> QED BY <1>1, <2>2, <2>3, <2>4, <2>5, <2>6, <2>7, OneStep
<1>5. PICK r \in work[d].reserves :
        \E c \in {work[d].amount \div rate[r], CeilDiv(work[d].amount, rate[r])} :
        LET m == MintOf[r]
            takes == [Nothing EXCEPT ![r] = Adjusted(d, r, c)]
        IN IF takes[r] > shares[r] \/ takes[r] = 0 \/ Short(d, r, takes[r]) > 0 THEN Throw(d)
           ELSE Prepared(d, <<[Transaction(d) EXCEPT !.takes = takes, !.mints = {m},
                                !.pay = [NoPay EXCEPT ![m] = work[d].amount]]>>)
  BY DEF PreparePartial
<1>10. PICK c \in {work[d].amount \div rate[r], CeilDiv(work[d].amount, rate[r])} :
        LET m == MintOf[r]
            takes == [Nothing EXCEPT ![r] = Adjusted(d, r, c)]
        IN IF takes[r] > shares[r] \/ takes[r] = 0 \/ Short(d, r, takes[r]) > 0 THEN Throw(d)
           ELSE Prepared(d, <<[Transaction(d) EXCEPT !.takes = takes, !.mints = {m},
                                !.pay = [NoPay EXCEPT ![m] = work[d].amount]]>>)
  BY <1>5
<1> DEFINE x == Adjusted(d, r, c)
           takes == [Nothing EXCEPT ![r] = x]
           t == [Transaction(d) EXCEPT !.takes = takes, !.mints = {MintOf[r]},
                   !.pay = [NoPay EXCEPT ![MintOf[r]] = work[d].amount]]
<1>6. x \in Nat /\ r \in Reserves
  BY <1>3, AdjustedTyped
<1>7. takes[r] = x
  <2> HIDE DEF x
  <2> QED BY <1>6, NothingTyped
<1>8. IF takes[r] > shares[r] \/ takes[r] = 0 \/ Short(d, r, takes[r]) > 0 THEN Throw(d)
      ELSE Prepared(d, <<t>>)
  BY <1>10
<1>9. Throw(d) \/ (~(Short(d, r, x) > 0) /\ Prepared(d, <<t>>))
  <2> HIDE DEF x, takes, t
  <2> QED BY <1>7, <1>8
<1>11. ASSUME ~(Short(d, r, x) > 0), Prepared(d, <<t>>) PROVE IInv'
  <2> HIDE DEF x
  <2> QED BY <1>4, <1>6, <1>11
<1> QED BY <1>2, <1>9, <1>11

-----------------------------------------------------------------------------
(* A full withdrawal: the batches, and the step of each.                   *)

LEMMA LargestElement ==
  ASSUME NEW n \in Nat, NEW T \in SUBSET (1 .. n), T # {}
  PROVE  \E k \in T : \A j \in T : j <= k
<1> DEFINE U == {n - k : k \in T}
<1>1. U \subseteq Nat /\ U # {}
  <2>1. ASSUME NEW k \in T PROVE n - k \in Nat
    BY n \in Nat, k \in 1 .. n
  <2>2. PICK k \in T : TRUE
    OBVIOUS
  <2>3. n - k \in U
    OBVIOUS
  <2> QED BY <2>1, <2>3
<1>2. PICK x \in U : \A y \in U : ~(<<y, x>> \in OpToRel(<, Nat))
  BY <1>1, NatLessThanWellFounded, WFMin
<1>3. \A y \in U : ~(y < x)
  BY <1>1, <1>2 DEF OpToRel
<1>4. PICK k \in T : x = n - k
  OBVIOUS
<1>5. ASSUME NEW j \in T PROVE j <= k
  <2>1. n - j \in U
    OBVIOUS
  <2>2. ~(n - j < n - k)
    BY <1>3, <1>4, <2>1
  <2> QED BY <2>2
<1> QED BY <1>5

\* An approval is a set of reserves of one mint.
LEMMA ApprovalMint ==
  ASSUME NEW rs \in SUBSET Reserves, NEW batch \in Approvals(rs)
  PROVE  /\ batch \subseteq Reserves /\ batch # {} /\ MintOfBatch(batch) \in Mints
         /\ \A r \in batch : MintOf[r] = MintOfBatch(batch)
<1>1. batch \subseteq Reserves /\ Cardinality(batch) \in 1 .. PerApproval
      /\ \A r \in batch : MintOf[r] = MintOfBatch(batch)
  BY DEF Approvals
<1>2. batch # {}
  BY <1>1, PositionAssumption, FS_EmptySet
<1>3. MintOf \in [Reserves -> Mints]
  BY PositionAssumption
<1>4. PICK r \in batch : TRUE
  BY <1>2
<1>5. MintOfBatch(batch) = MintOf[r] /\ MintOf[r] \in Mints
  BY <1>1, <1>3, <1>4
<1> QED BY <1>1, <1>2, <1>5

LEMMA BatchesKnown ==
  ASSUME NEW rs \in SUBSET Reserves, NEW batches \in Batches(rs)
  PROVE  /\ Len(batches) \in Nat \ {0} /\ DOMAIN batches = 1 .. Len(batches)
         /\ \A i \in DOMAIN batches : batches[i] \in Approvals(rs)
         /\ rs = UNION {batches[i] : i \in DOMAIN batches}
<1>1. Cardinality(rs) \in Nat
  BY PositionAssumption, FS_Subset, FS_CardinalityType
<1>2. PICK n \in 1 .. Cardinality(rs) : batches \in [1 .. n -> Approvals(rs)]
  BY DEF Batches
<1>3. n \in Nat \ {0}
  BY <1>1, <1>2
<1>4. batches \in Seq(Approvals(rs)) /\ Len(batches) = n
  BY <1>2, <1>3, SeqDef
<1>5. rs = UNION {batches[i] : i \in DOMAIN batches}
  BY DEF Batches
<1> QED BY <1>2, <1>3, <1>4, <1>5

\* Every mint of the exit has a batch that ends it.
LEMMA EveryMintEnds ==
  ASSUME NEW rs \in SUBSET Reserves, NEW batches \in Batches(rs), NEW r \in rs
  PROVE  \E i \in DOMAIN batches : /\ MintOfBatch(batches[i]) = MintOf[r]
                                   /\ FinalForMint(batches, i, MintOf[r])
<1> DEFINE n == Len(batches)
           m == MintOf[r]
           T == {k \in 1 .. n : batches[k] \cap Of(m) # {}}
<1>1. n \in Nat \ {0} /\ DOMAIN batches = 1 .. n
  BY BatchesKnown
<1>2. \E k \in 1 .. n : r \in batches[k]
  BY <1>1, BatchesKnown
<1>3. r \in Of(m)
  BY DEF Of
<1>4. T # {}
  BY <1>2, <1>3
<1>5. PICK k \in T : \A j \in T : j <= k
  <2> HIDE DEF n, T
  <2>1. T \in SUBSET (1 .. n)
    BY DEF T
  <2> QED BY <1>1, <1>4, <2>1, LargestElement
<1>6. MintOfBatch(batches[k]) = m
  <2>1. batches[k] \in Approvals(rs)
    BY <1>1, BatchesKnown
  <2>2. PICK x \in batches[k] : x \in Of(m)
    OBVIOUS
  <2> QED BY <2>1, <2>2, ApprovalMint DEF Of
<1>7. FinalForMint(batches, k, m)
  <2> SUFFICES ASSUME NEW j \in 1 .. n, j > k PROVE batches[j] \cap Of(m) = {}
    BY <1>1 DEF FinalForMint
  <2>1. j \notin T
    BY <1>1, <1>5
  <2> QED BY <2>1
<1> QED BY <1>1, <1>6, <1>7

LEMMA InFullTyped ==
  ASSUME ChainOK, NEW batch \in SUBSET Reserves
  PROVE  /\ InFull(batch) \in [Reserves -> Nat]
         /\ \A r \in Reserves : r \in batch => InFull(batch)[r] = shares[r]
         /\ \A r \in Reserves : InFull(batch)[r] > 0 => r \in batch
BY ChainNumbers DEF InFull

LEMMA PayoutTyped ==
  ASSUME ChainOK, NEW d \in Devices, seen[d].idle \in [Mints -> Nat],
         NEW takes \in [Reserves -> Nat], NEW m \in Mints, NEW closes \in BOOLEAN
  PROVE  Payout(d, takes, m, closes) \in [Mints -> Nat]
<1>1. Simulated(d, takes, m) \in Int /\ Liquidity(takes, m) \in Nat
  BY SimulatedTyped, LiquiditySum, ChainNumbers
<1> DEFINE x == (IF Simulated(d, takes, m) > 0 THEN Simulated(d, takes, m) ELSE Liquidity(takes, m))
                  + (IF closes THEN seen[d].idle[m] ELSE 0)
<1>2. x \in Nat
  BY <1>1
<1>3. Payout(d, takes, m, closes) = [NoPay EXCEPT ![m] = x]
  BY DEF Payout
<1> HIDE DEF x
<1> QED BY <1>2, <1>3, NothingTyped

ExitFinal(d, batches, i) == work[d].closing /\ i = Len(batches)
ExitCloses(d, batches, i) ==
  IF work[d].closing /\ FinalForMint(batches, i, MintOfBatch(batches[i]))
  THEN {MintOfBatch(batches[i])} ELSE {}

\* The fields of u, a step of the exit.
ExitFields(u, d, batches, i) ==
  /\ u \in Transactions /\ u.by = d /\ u.op = "exit" /\ ~u.late
  /\ u.takes = InFull(batches[i]) /\ u.puts = Nothing /\ u.opens = {} /\ u.tops = 0
  /\ u.mints = {MintOfBatch(batches[i])} /\ u.closes = ExitCloses(d, batches, i)
  /\ u.sweep = SweepIf(ExitFinal(d, batches, i), InFull(batches[i]))
  /\ u.removes = RemovesIf(ExitFinal(d, batches, i))
  /\ u.last <=> i = Len(batches)

LEMMA ExitStepFields ==
  ASSUME IInv, NEW d \in Devices, pc[d] = "prepare", work[d].op = "exit",
         NEW batches \in Batches(work[d].reserves), NEW i \in DOMAIN batches
  PROVE  ExitFields(ExitStep(d, batches, i), d, batches, i)
<1> DEFINE m == MintOfBatch(batches[i])
           closes == work[d].closing /\ FinalForMint(batches, i, m)
           last == i = Len(batches)
           final == work[d].closing /\ last
           takes == InFull(batches[i])
           pay == Payout(d, takes, m, closes)
           mints == {m}
           ends == IF closes THEN {m} ELSE {}
           sweep == SweepIf(final, takes)
           removes == RemovesIf(final)
           u == [Transaction(d) EXCEPT !.takes = takes, !.mints = mints, !.pay = pay, !.removes = removes,
                   !.closes = ends, !.sweep = sweep, !.last = last]
<1>1. /\ ChainOK /\ work[d].op \in Kinds /\ work[d].closing \in BOOLEAN
      /\ work[d].reserves \subseteq Reserves /\ seen[d].idle \in [Mints -> Nat]
  BY Preparing
<1>2. batches[i] \in Approvals(work[d].reserves)
  BY <1>1, BatchesKnown
<1>3. m \in Mints /\ batches[i] \subseteq Reserves
  BY <1>1, <1>2, ApprovalMint
<1>4. closes \in BOOLEAN /\ last \in BOOLEAN /\ final \in BOOLEAN
  BY <1>1 DEF FinalForMint
<1>5. takes \in [Reserves -> Nat]
  BY <1>1, <1>3, InFullTyped
<1>6. pay \in [Mints -> Nat]
  BY <1>1, <1>3, <1>4, <1>5, PayoutTyped
<1>7. sweep \in Nat
  <2>1. Refunds(takes) \in Nat /\ sol \in Nat
    BY <1>1, <1>5, RefundsBound, ChainNumbers
  <2> QED BY <2>1 DEF SweepIf
<1>8. removes \in SUBSET Nat
  BY <1>1 DEF RemovesIf, ChainOK
<1>9. mints \in SUBSET Mints /\ ends \in SUBSET Mints
  BY <1>3
<1>10. ExitStep(d, batches, i) = u
  BY DEF ExitStep, Packed, WithCleanup, Transaction
<1>11. /\ u.by = d /\ u.op = "exit" /\ ~u.late /\ u.takes = takes /\ u.puts = Nothing
       /\ u.opens = {} /\ u.tops = 0 /\ u.mints = mints /\ u.closes = ends /\ u.sweep = sweep
       /\ u.removes = removes /\ u.last = last
  BY DEF Transaction
<1>12. u \in Transactions
  <2>1. Transaction(d) \in Transactions
    BY <1>1, BlankTransaction
  <2> HIDE DEF m, closes, final, takes, mints, pay, removes, ends, sweep, last
  <2> QED BY <1>4, <1>5, <1>6, <1>7, <1>8, <1>9, <2>1 DEF Transactions
<1>13. ends = ExitCloses(d, batches, i) /\ final = ExitFinal(d, batches, i)
  BY DEF ExitCloses, ExitFinal
<1> HIDE DEF u
<1> QED BY <1>10, <1>11, <1>12, <1>13 DEF ExitFields

LEMMA ExitOrder ==
  ASSUME IInv, NEW d \in Devices, pc[d] = "prepare", work[d].op = "exit",
         NEW batches \in Batches(work[d].reserves), NEW i \in DOMAIN batches, NEW j \in DOMAIN batches,
         i < j
  PROVE  Before(ExitStep(d, batches, i), ExitStep(d, batches, j))
<1> DEFINE t == ExitStep(d, batches, i)
           u == ExitStep(d, batches, j)
           m == MintOfBatch(batches[i])
<1>1. ChainOK /\ work[d].reserves \subseteq Reserves
  BY Preparing
<1>2. /\ i \in 1 .. Len(batches) /\ j \in 1 .. Len(batches) /\ Len(batches) \in Nat
      /\ batches[j] \in Approvals(work[d].reserves)
  BY <1>1, BatchesKnown
<1>3. i # Len(batches)
  BY <1>2
<1>4. ExitFields(t, d, batches, i) /\ ExitFields(u, d, batches, j) /\ ~ExitFinal(d, batches, i)
  BY <1>3, ExitStepFields DEF ExitFinal
<1> HIDE DEF t, u
<1>5. /\ t.op = "exit" /\ u.op = "exit" /\ ~t.last /\ t.removes = {} /\ t.sweep = 0
      /\ u.takes = InFull(batches[j]) /\ t.closes = ExitCloses(d, batches, i)
  BY <1>3, <1>4 DEF ExitFields, SweepIf, RemovesIf
<1>6. ASSUME NEW r \in Reserves, u.takes[r] > 0 PROVE MintOf[r] \notin t.closes
  <2>1. r \in batches[j]
    BY <1>1, <1>2, <1>5, <1>6, ApprovalMint, InFullTyped
  <2>2. SUFFICES ASSUME MintOf[r] \in t.closes PROVE FALSE
    OBVIOUS
  <2>3. FinalForMint(batches, i, m) /\ MintOf[r] = m
    BY <1>5, <2>2 DEF ExitCloses
  <2>4. batches[j] \cap Of(m) = {}
    BY <2>3 DEF FinalForMint
  <2> QED BY <2>1, <2>3, <2>4 DEF Of
<1>7. Before(t, u)
  BY <1>5, <1>6 DEF Before
<1> QED BY <1>7 DEF t, u

LEMMA ExitSweeps ==
  ASSUME IInv, NEW d \in Devices, pc[d] = "prepare", work[d].op = "exit",
         NEW batches \in Batches(work[d].reserves), NEW i \in DOMAIN batches
  PROVE  LET u == ExitStep(d, batches, i) IN Shape(u) /\ Sweeps(u, since[d]) /\ Spares(u, since[d])
<1> DEFINE u == ExitStep(d, batches, i)
           takes == InFull(batches[i])
<1>1. ChainOK /\ work[d].reserves \subseteq Reserves
  BY Preparing
<1>2. batches[i] \in Approvals(work[d].reserves)
  BY <1>1, BatchesKnown
<1>3. batches[i] \subseteq Reserves /\ \A r \in batches[i] : MintOf[r] = MintOfBatch(batches[i])
  BY <1>1, <1>2, ApprovalMint
<1>4. /\ takes \in [Reserves -> Nat] /\ \A r \in Reserves : r \in batches[i] => takes[r] = shares[r]
      /\ \A r \in Reserves : takes[r] > 0 => r \in batches[i]
  BY <1>1, <1>3, InFullTyped
<1>5. /\ u.op = "exit" /\ u.takes = takes /\ u.puts = Nothing /\ u.opens = {} /\ u.tops = 0
      /\ u.mints = {MintOfBatch(batches[i])}
      /\ u.sweep = SweepIf(ExitFinal(d, batches, i), takes)
  BY ExitStepFields DEF ExitFields
<1> HIDE DEF u, takes
<1>6. Shape(u)
  BY <1>3, <1>4, <1>5 DEF Shape
<1>7. \A r \in Reserves : takes[r] = 0 \/ shares[r] <= takes[r]
  BY <1>1, <1>4, ChainNumbers
<1>8. u.sweep = 0 \/ u.sweep <= sol + Gathered(u)
  <2>1. Refunds(takes) \in Nat /\ Gathered(u) \in Nat /\ Refunds(takes) <= Gathered(u)
    BY <1>1, <1>4, <1>5, RefundsBound DEF Gathered
  <2>2. sol \in Nat
    BY <1>1, ChainNumbers
  <2> QED BY <1>5, <2>1, <2>2 DEF SweepIf
<1>9. Sweeps(u, since[d])
  BY <1>5, <1>7, <1>8 DEF Sweeps
<1>10. Spares(u, since[d])
  BY <1>5 DEF Spares
<1> QED BY <1>6, <1>9, <1>10 DEF u

LEMMA ExitEmpties ==
  ASSUME IInv, NEW d \in Devices, pc[d] = "prepare", work[d].op = "exit",
         NEW batches \in Batches(work[d].reserves)
  PROVE  Empties({ExitStep(d, batches, i) : i \in DOMAIN batches}, since[d])
<1> DEFINE w == work[d]
           R == {ExitStep(d, batches, i) : i \in DOMAIN batches}
<1>1. ChainOK /\ w.reserves \subseteq Reserves /\ Knows(d) /\ w.closing \in BOOLEAN
  BY Preparing
<1>2. w.reserves = UNION {batches[i] : i \in DOMAIN batches}
      /\ \A i \in DOMAIN batches : batches[i] \subseteq Reserves
  BY <1>1, BatchesKnown, ApprovalMint
<1>8. \A i \in DOMAIN batches : ExitFields(ExitStep(d, batches, i), d, batches, i)
  BY ExitStepFields
<1>9. \A u \in R : \E i \in DOMAIN batches : u = ExitStep(d, batches, i) /\ ExitFields(u, d, batches, i)
  BY <1>8
<1>3. ASSUME NEW r \in Reserves PROVE shares[r] = 0 \/ r \in since[d] \/ \E u \in R : u.takes[r] >= shares[r]
  <2>1. r \in w.reserves \/ shares[r] = 0 \/ r \in since[d]
    BY <1>1 DEF Knows
  <2>2. ASSUME r \in w.reserves PROVE \E u \in R : u.takes[r] >= shares[r]
    <3>1. PICK i \in DOMAIN batches : r \in batches[i]
      BY <1>2, <2>2
    <3>2. ExitStep(d, batches, i).takes[r] = shares[r] /\ shares[r] \in Nat
      <4>1. ExitStep(d, batches, i).takes = InFull(batches[i])
        BY <1>8 DEF ExitFields
      <4>2. InFull(batches[i])[r] = shares[r] /\ shares[r] \in Nat
        BY <1>1, <1>2, <3>1, InFullTyped, ChainNumbers
      <4> QED BY <4>1, <4>2
    <3>3. ExitStep(d, batches, i).takes[r] >= shares[r]
      BY <3>2
    <3> QED BY <3>3
  <2> QED BY <2>1, <2>2
<1>4. ASSUME w.closing, NEW r \in w.reserves PROVE \E v \in R : MintOf[r] \in v.closes
  <2>1. PICK i \in DOMAIN batches : /\ MintOfBatch(batches[i]) = MintOf[r]
                                    /\ FinalForMint(batches, i, MintOf[r])
    BY <1>1, EveryMintEnds
  <2>2. ExitStep(d, batches, i).closes = {MintOf[r]}
    BY <1>4, <1>8, <2>1 DEF ExitFields, ExitCloses
  <2> QED BY <2>2
<1>5. ASSUME NEW u \in R, u.removes # {} PROVE w.closing
  BY <1>5, <1>9 DEF ExitFields, ExitFinal, RemovesIf
<1>6. ASSUME w.closing, NEW m \in Mints PROVE idle[m] = 0 \/ m \in since[d] \/ \E v \in R : m \in v.closes
  <2>1. idle[m] = 0 \/ m \in since[d] \/ \E r \in w.reserves : MintOf[r] = m
    BY <1>1, <1>6 DEF Knows
  <2> QED BY <1>4, <1>6, <2>1
<1>7. ASSUME w.closing, NEW u \in R, NEW r \in Reserves, u.takes[r] > 0
      PROVE  \E v \in R : MintOf[r] \in v.closes
  <2>1. PICK i \in DOMAIN batches : ExitFields(u, d, batches, i)
    BY <1>9
  <2>2. r \in batches[i]
    <3>1. u.takes = InFull(batches[i])
      BY <2>1 DEF ExitFields
    <3> QED BY <1>1, <1>2, <1>7, <3>1, InFullTyped
  <2>3. r \in w.reserves
    BY <1>2, <2>2
  <2> QED BY <1>4, <1>7, <2>3
<1>10. \A S : since[d] = S => Empties(R, S)
  <2> HIDE DEF R
  <2> QED BY <1>3, <1>5, <1>6, <1>7 DEF Empties
<1> QED BY <1>10

LEMMA PrepareExitStep ==
  ASSUME IInv, NEW d \in Devices, PrepareExit(d) PROVE IInv'
<1>1. pc[d] = "prepare" /\ work[d].op = "exit" /\ UNCHANGED <<chain, network, begun, events, seen, since>>
  BY DEF PrepareExit
<1>2. ASSUME Throw(d) PROVE IInv'
  BY <1>1, <1>2, StopStep DEF Throw
<1>3. ASSUME NEW batches \in Batches(work[d].reserves),
             Prepared(d, [i \in DOMAIN batches |-> ExitStep(d, batches, i)])
      PROVE  IInv'
  <2> DEFINE s == [i \in DOMAIN batches |-> ExitStep(d, batches, i)]
  <2>1. work[d].reserves \subseteq Reserves
    BY <1>1, Preparing
  <2>2. Len(batches) \in Nat \ {0} /\ DOMAIN batches = 1 .. Len(batches)
    BY <2>1, BatchesKnown
  <2>3. \A i \in DOMAIN batches : ExitStep(d, batches, i) \in Transactions
    BY <1>1, ExitStepFields DEF ExitFields
  <2>4. s \in Seq(Transactions) /\ s # <<>> /\ DOMAIN s = DOMAIN batches
    <3>1. s \in [1 .. Len(batches) -> Transactions]
      BY <2>2, <2>3
    <3>2. s \in Seq(Transactions)
      BY <2>2, <3>1, SeqDef
    <3>3. DOMAIN s = 1 .. Len(batches) /\ 1 \in DOMAIN s
      BY <2>2
    <3> QED BY <2>2, <3>2, <3>3
  <2>5. \A i \in DOMAIN s : s[i] = ExitStep(d, batches, i)
    OBVIOUS
  <2>6. {s[i] : i \in DOMAIN s} = {ExitStep(d, batches, i) : i \in DOMAIN batches}
    BY <2>4, <2>5
  <2>7. \A i \in DOMAIN batches :
          /\ ExitStep(d, batches, i).by = d /\ ~ExitStep(d, batches, i).late
          /\ Shape(ExitStep(d, batches, i)) /\ Sweeps(ExitStep(d, batches, i), since[d])
          /\ Spares(ExitStep(d, batches, i), since[d])
    <3>1. ASSUME NEW i \in DOMAIN batches
          PROVE  ExitStep(d, batches, i).by = d /\ ~ExitStep(d, batches, i).late
      BY <1>1, ExitStepFields DEF ExitFields
    <3>2. ASSUME NEW i \in DOMAIN batches
          PROVE  /\ Shape(ExitStep(d, batches, i)) /\ Sweeps(ExitStep(d, batches, i), since[d])
                 /\ Spares(ExitStep(d, batches, i), since[d])
      BY <1>1, ExitSweeps
    <3> QED BY <3>1, <3>2
  <2>8. \A i, j \in DOMAIN batches : i < j => Before(ExitStep(d, batches, i), ExitStep(d, batches, j))
    BY <1>1, ExitOrder
  <2>9. Empties({s[i] : i \in DOMAIN s}, since[d])
    BY <1>1, <2>6, ExitEmpties
  <2>10. Prepared(d, s)
    BY <1>3
  <2> HIDE DEF s
  <2>11. \A i \in DOMAIN s : /\ s[i].by = d /\ ~s[i].late /\ Shape(s[i])
                              /\ Sweeps(s[i], since[d]) /\ Spares(s[i], since[d])
    BY <2>4, <2>5, <2>7
  <2>12. ASSUME NEW i \in DOMAIN s, NEW j \in DOMAIN s, i < j PROVE Before(s[i], s[j])
    BY <2>4, <2>5, <2>8, <2>12
  <2>13. PICK p : p = s
    OBVIOUS
  <2>14. /\ p \in Seq(Transactions) /\ p # <<>> /\ Prepared(d, p)
         /\ Empties({p[i] : i \in DOMAIN p}, since[d])
         /\ \A i, j \in DOMAIN p : i < j => Before(p[i], p[j])
         /\ \A i \in DOMAIN p : /\ p[i].by = d /\ ~p[i].late /\ Shape(p[i])
                                /\ Sweeps(p[i], since[d]) /\ Spares(p[i], since[d])
    BY <2>4, <2>9, <2>10, <2>11, <2>12, <2>13
  <2> QED BY <1>1, <2>14, PreparedStep
<1>4. Throw(d) \/ \E batches \in Batches(work[d].reserves) :
                    Prepared(d, [i \in DOMAIN batches |-> ExitStep(d, batches, i)])
  BY DEF PrepareExit
<1> QED BY <1>2, <1>3, <1>4

-----------------------------------------------------------------------------
(* The invariant, and what follows from it.                                *)

LEMMA InitInv == Init => IInv
<1> SUFFICES ASSUME Init PROVE IInv
  OBVIOUS
<1>1. StartRate \in StartRate .. MaxRate /\ Remainders \in [Mints -> Nat]
      /\ Holdings \in [Reserves -> 0 .. MaxShares] /\ MaxPairs \in Nat /\ MaxPairs > 0
      /\ MaxEvents \in Nat
  BY PositionAssumption
<1>2. ChainOK
  <2>1. shares \in [Reserves -> 0 .. MaxShares] /\ rate \in [Reserves -> StartRate .. MaxRate]
        /\ idle \in [Mints -> Nat]
    BY <1>1 DEF Init
  <2>2. open \subseteq Reserves /\ \A r \in Reserves : shares[r] > 0 => r \in open
    BY DEF Init
  <2>3. sol \in Nat /\ accounts = Mints /\ pairs \in 1 .. MaxPairs /\ live \subseteq 1 .. pairs
    BY <1>1 DEF Init
  <2> QED BY <2>1, <2>2, <2>3 DEF ChainOK
<1>3. /\ NoWork \in Jobs /\ Unseen \in Snapshots
  BY PositionAssumption DEF NoWork, Jobs, Kinds, Unseen, Snapshots, NoPay
<1>4. /\ network = {} /\ events = 0 /\ pc = [d \in Devices |-> "idle"]
      /\ work = [d \in Devices |-> NoWork] /\ since = [d \in Devices |-> {}]
      /\ seen = [d \in Devices |-> Unseen] /\ plan = [d \in Devices |-> <<>>]
  BY DEF Init
<1>5. TypeInv
  <2>1. pc \in [Devices -> {"idle", "reads", "prepare", "send", "sent", "failed"}]
        /\ since \in [Devices -> SUBSET Places] /\ events \in 0 .. MaxEvents
    BY <1>1, <1>4
  <2>2. work \in [Devices -> Jobs] /\ seen \in [Devices -> Snapshots]
        /\ plan \in [Devices -> Seq(Transactions)]
    BY <1>3, <1>4
  <2>3. \A d \in Devices : \A i \in DOMAIN plan[d] : Shape(plan[d][i])
    BY <1>4
  <2>4. TypeOK
    BY <1>2, <1>4, <2>1 DEF TypeOK, ChainOK
  <2> QED BY <1>4, <2>2, <2>3, <2>4 DEF TypeInv
<1>6. ASSUME NEW d \in Devices PROVE DeviceInv(d)
  <2>1. pc[d] = "idle" /\ plan[d] = <<>> /\ Own(d) = {} /\ Planned(d) = {}
    BY <1>4 DEF Own, Planned
  <2> QED BY <2>1 DEF DeviceInv, OwnInv, OrderInv, PlanInv, WorkInv, Left, Empties
<1>7. LateInv
  BY <1>4 DEF LateInv
<1> QED BY <1>5, <1>6, <1>7 DEF IInv

LEMMA StutterInv ==
  ASSUME IInv, UNCHANGED vars PROVE IInv'
<1>1. UNCHANGED <<chain, network, pc, work, seen, plan, since, events>>
  BY DEF vars, chain
<1>2. TypeInv /\ ChainOK /\ ChainOK' /\ Foreign({}) /\ {} \in SUBSET Places
  BY <1>1, DeviceTypes, StillForeign DEF IInv
<1>3. \A u \in network : Mark(u, {}) = u
  <2>1. \A u \in network : u \in Transactions
    BY <1>2, DeviceTypes
  <2> QED BY <2>1 DEF Mark, Transactions
<1>4. ASSUME NEW d \in Devices PROVE DeviceInv(d)'
  <2>1. Own(d)' = Own(d) /\ Own(d) \subseteq network
    BY <1>1 DEF Own
  <2>2. Own(d)' = {Mark(u, {}) : u \in Own(d)}
    BY <1>3, <2>1
  <2>3. Watches(d, {})
    BY <1>1, <2>2 DEF Watches
  <2> QED BY <1>2, <2>3, Watching DEF IInv
<1>5. network' = {Mark(u, {}) : u \in network}
  BY <1>1, <1>3
<1>6. LateInv'
  BY <1>2, <1>5, MarkedNetwork
<1>7. TypeInv'
  BY <1>1, <1>2, DeviceTypes, TypeNext
<1> QED BY <1>4, <1>6, <1>7 DEF IInv

LEMMA NextInv == IInv /\ [Next]_vars => IInv'
<1> SUFFICES ASSUME IInv, [Next]_vars PROVE IInv'
  OBVIOUS
<1>1. ASSUME NEW d \in Devices, Prepare(d) PROVE IInv'
  BY <1>1, PrepareExitStep, PartialStep, IdleStep, DepositStep, CleanupStep, RefundStep DEF Prepare
<1>2. ASSUME NEW d \in Devices, Begin(d) \/ DeviceStep(d) \/ AnswerLost(d) PROVE IInv'
  BY <1>1, <1>2, BeginStep, AgainStep, ReadStep, SendStep, AnswerLostStep DEF DeviceStep
<1>3. ASSUME NEW t \in network, Land(t) \/ Fails(t) \/ Expires(t) PROVE IInv'
  BY <1>3, LandStep, FailsStep
<1>4. ASSUME NEW r \in Reserves, Accrue(r) \/ \E s \in Reserves : Rebalance(r, s) PROVE IInv'
  BY <1>4, AccrueStep, RebalanceStep
<1>5. CASE Next
  BY <1>2, <1>3, <1>4, <1>5, PullStep DEF Next
<1>6. CASE UNCHANGED vars
  BY <1>6, StutterInv
<1> QED BY <1>5, <1>6

LEMMA PositionInvariant == Spec => []IInv
BY InitInv, NextInv, PTL DEF Spec

\* No balance is ever negative, and what the vault holds is in accounts and obligations
\* that exist, after any transactions, accruals, rebalances and pulls.
THEOREM PositionTypeCorrect == Spec => []TypeOK
<1>1. IInv => TypeOK
  BY DEF IInv, TypeInv
<1> QED BY <1>1, PositionInvariant, PTL

\* What the invariant says of a transaction on its way, awaited or not.
LEMMA Promises ==
  ASSUME IInv, NEW t \in network
  PROVE  /\ ChainOK /\ t \in Transactions /\ Shape(t)
         /\ Sweeps(t, t.since) /\ Spares(t, t.since) /\ Empties({t}, t.since)
<1>1. TypeInv /\ ChainOK /\ t \in Transactions /\ Shape(t) /\ t.by \in Devices /\ t.late \in BOOLEAN
  BY DeviceTypes DEF IInv, Transactions
<1>2. CASE t.late
  BY <1>1, <1>2 DEF IInv, LateInv
<1>3. CASE ~t.late
  <2>1. DeviceInv(t.by) /\ t \in Own(t.by)
    BY <1>1, <1>3 DEF IInv, Own
  <2> QED BY <1>1, <2>1, AwaitedInv
<1> QED BY <1>1, <1>2, <1>3

\* "The sweep can only undershoot, never overdraw" (client.ts:9863): while nobody else
\* uses the vault's SOL and the reserves hold at least what the exit takes.
THEOREM SweepIsCovered == Spec => []SweepNeverOverdraws
<1>1. ASSUME IInv PROVE SweepNeverOverdraws
  <2> SUFFICES ASSUME NEW t \in network, t.op = "exit", Used("sol") \notin t.since,
                      \A r \in Reserves : r \notin t.since /\ t.takes[r] <= shares[r]
               PROVE  t.sweep <= Lamports(t)
    BY DEF SweepNeverOverdraws
  <2>1. ChainOK /\ t \in Transactions /\ Shape(t) /\ Sweeps(t, t.since)
    BY <1>1, Promises
  <2>2. t.takes \in [Reserves -> Nat] /\ shares \in [Reserves -> Nat] /\ sol \in Nat
    BY <2>1, ChainNumbers DEF Transactions
  <2>3. /\ \A r \in Reserves : t.takes[r] = 0 \/ t.takes[r] = shares[r]
        /\ t.sweep = 0 \/ t.sweep <= sol + Gathered(t)
    BY <2>1, <2>2 DEF Sweeps
  <2>4. Refunds(t.takes) = Gathered(t) /\ Gathered(t) \in Nat
    BY <2>1, <2>2, <2>3, RefundsBound DEF Gathered
  <2>5. Lamports(t) = sol + Gathered(t)
    <3>1. t.opens = {} /\ t.tops = 0
      BY <2>1 DEF Shape
    <3>2. Lamports(t) = sol + 0 + Gathered(t) - 0
      BY <2>4, <3>1, FS_EmptySet DEF Lamports
    <3> QED BY <2>2, <2>4, <3>2
  <2> QED BY <2>2, <2>3, <2>4, <2>5
<1> QED BY <1>1, PositionInvariant, PTL

\* What ends a full withdrawal, and what removes the policies, leaves nothing in the
\* vault but what arrived after the device had looked (ASK-1802).
LEMMA EndsEmpty ==
  ASSUME IInv, NEW t \in network, Land(t), t.last \/ t.removes # {}
  PROVE  /\ \A r \in Reserves : shares'[r] > 0 => r \in t.since
         /\ t.removes # {} => \A m \in Mints : idle'[m] > 0 => m \in t.since
<1>1. ChainOK /\ t \in Transactions /\ Shape(t) /\ Empties({t}, t.since) /\ ChainOK'
  BY Promises, LandChain
<1>2. /\ shares \in [Reserves -> Nat] /\ shares' \in [Reserves -> Nat]
      /\ idle \in [Mints -> Nat] /\ idle' \in [Mints -> Nat] /\ t.takes \in [Reserves -> Nat]
  BY <1>1, PositionAssumption DEF ChainOK, Transactions
<1>3. t.puts = Nothing
  BY <1>1 DEF Shape
<1>4. ASSUME NEW r \in Reserves, shares'[r] > 0 PROVE r \in t.since
  <2>1. shares'[r] = shares[r] - t.takes[r] + t.puts[r] \div rate[r] /\ t.takes[r] <= shares[r]
    BY DEF Land, Accepts
  <2>2. t.puts[r] \div rate[r] = 0
    BY <1>1, <1>3, LandNumbers DEF Nothing
  <2>3. shares[r] = 0 \/ r \in t.since \/ t.takes[r] >= shares[r]
    BY <1>1 DEF Empties
  <2> QED BY <1>2, <1>4, <2>1, <2>2, <2>3
<1>5. ASSUME t.removes # {}, NEW m \in Mints, idle'[m] > 0 PROVE m \in t.since
  <2>1. idle'[m] = idle[m] + Liquidity(t.takes, m) - t.pay[m]
        /\ (m \in t.closes => t.pay[m] = idle[m] + Liquidity(t.takes, m))
    BY <1>1, LandNumbers DEF Land, Accepts
  <2>2. m \notin t.closes
    BY <1>1, <1>5, <2>1, LandNumbers
  <2>3. idle[m] = 0 \/ m \in t.since
    BY <1>1, <1>5, <2>2 DEF Empties
  <2>4. ASSUME idle[m] = 0 PROVE FALSE
    <3>1. Liquidity(t.takes, m) # 0
      BY <1>1, <1>5, <2>1, <2>4, LandNumbers
    <3>2. PICK r \in Of(m) : t.takes[r] # 0
      BY <1>1, <1>2, <3>1, LiquiditySum, ChainNumbers
    <3>3. r \in Reserves /\ MintOf[r] = m /\ t.takes[r] > 0
      BY <1>2, <3>2 DEF Of
    <3> QED BY <1>1, <1>5, <2>2, <3>3 DEF Empties
  <2> QED BY <2>3, <2>4
<1> QED BY <1>4, <1>5

\* The property ExitLeavesNothing, for any vault and any number of devices.
THEOREM NothingIsStranded == Spec => ExitLeavesNothing
<1> DEFINE Leaves == \A t \in network : Landed(t) /\ (t.last \/ t.removes # {}) =>
       /\ \A r \in Reserves : shares'[r] > 0 => Arrived(t, r)
       /\ t.removes # {} => \A m \in Mints : idle'[m] > 0 => Arrived(t, m)
<1>1. IInv => [Leaves]_vars
  BY EndsEmpty DEF Landed, Arrived
<1> QED BY <1>1, PositionInvariant, PTL DEF ExitLeavesNothing

\* A partial withdrawal is paid from what it redeems, whatever the rounding, unless the
\* idle balance changed after it was read.
THEOREM IdleIsSpared == Spec => PartialSparesIdle
<1> DEFINE Spared == \A t \in network : Landed(t) /\ t.op = "partial" =>
       \A m \in Mints : idle'[m] >= idle[m] \/ Arrived(t, m) \/ Arrived(t, Used(m))
<1>1. ASSUME IInv PROVE [Spared]_vars
  <2> SUFFICES ASSUME NEW t \in network, Land(t), t.op = "partial", NEW m \in Mints
               PROVE  idle'[m] >= idle[m] \/ Arrived(t, m) \/ Arrived(t, Used(m))
    BY DEF Landed
  <2>1. ChainOK /\ t \in Transactions /\ Spares(t, t.since)
    BY <1>1, Promises
  <2>2. idle'[m] = idle[m] + Liquidity(t.takes, m) - t.pay[m]
    BY <2>1, LandNumbers DEF Land
  <2>3. Arrived(t, m) \/ Arrived(t, Used(m)) \/ t.pay[m] <= Liquidity(t.takes, m)
    BY <2>1 DEF Spares, Arrived
  <2> QED BY <2>1, <2>2, <2>3, LandNumbers
<1> QED BY <1>1, PositionInvariant, PTL DEF PartialSparesIdle
=============================================================================
