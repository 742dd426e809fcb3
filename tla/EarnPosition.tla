----------------------------- MODULE EarnPosition -----------------------------
(***************************************************************************)
(* Deposits, withdrawals, cleanup and refund of a wallet's Earn vault      *)
(* (packages/smart-account-vaults/src/client.ts and src/earn).             *)
(*                                                                         *)
(* Everything is prepared from earlier reads: the caller's holdings, the   *)
(* amounts of the vault, a simulation.  A withdrawal spanning reserves is  *)
(* a plan of transactions, prepared together and sent in order, with exact *)
(* transfers, account closes, a sweep of the vault's SOL and the removal   *)
(* of the Earn policies in the last one.  Meanwhile interest accrues, the  *)
(* delegate rebalances, Autodeposit pulls funds in and other devices act.  *)
(***************************************************************************)
EXTENDS Integers, Sequences, FiniteSets

CONSTANTS
  Devices, Reserves, Mints,
  MintOf,        \* the liquidity mint of every reserve
  Usdc,
  Rank,          \* the order of the mints' addresses
  PerApproval,   \* MAX_EARN_WITHDRAW_RESERVES_PER_APPROVAL
  RentBuffer,    \* KAMINO_EARN_SETUP_RENT_BUFFER_LAMPORTS, in obligation rents
  Holdings, Remainders, StartRate, \* shares, idle amounts and the rate at the start
  Operations,    \* what the devices do
  Amounts,       \* raw amounts deposited or withdrawn
  MaxRate,       \* bound: liquidity per share
  MaxShares,     \* bound: shares of a reserve
  MaxPairs,      \* bound: pairs of policies created
  MaxBegun,      \* bound: operations begun
  MaxEvents      \* bound: accruals, rebalances, pulls, lost answers and expiries

ASSUME PositionAssumption ==
  /\ IsFiniteSet(Reserves) /\ MintOf \in [Reserves -> Mints] /\ Usdc \in Mints
  /\ Rank \in [Mints -> Nat] /\ \A m, n \in Mints : Rank[m] = Rank[n] => m = n
  /\ PerApproval \in Nat \ {0} /\ RentBuffer \in Nat \ {0}
  /\ MaxShares \in Nat /\ Holdings \in [Reserves -> 0 .. MaxShares] /\ Remainders \in [Mints -> Nat]
  /\ StartRate \in Nat \ {0} /\ MaxRate \in Nat /\ StartRate <= MaxRate
  /\ {MaxPairs, MaxBegun, MaxEvents} \subseteq Nat /\ MaxPairs > 0
  /\ Amounts \subseteq Nat \ {0}
  /\ Operations \subseteq {"deposit", "partial", "exit", "idle", "cleanup", "refund"}

VARIABLES
  shares,    \* the vault's collateral in every reserve's obligation
  rate,      \* liquidity a share redeems for
  open,      \* reserves whose obligation exists
  idle,      \* amount of the vault's token account of every mint
  accounts,  \* mints whose vault token account exists
  sol,       \* the vault's SOL, in obligation rents
  pairs, live, \* pairs of policies created so far, and the ones that exist
  network,   \* transactions on their way
  begun, events,
  pc, work, seen, plan,
  since      \* places added to by others since the device's holdings were read;
             \* Used("sol") and Used(m) when its SOL or an idle balance was used

chain == <<shares, rate, open, idle, accounts, sol, pairs, live>>
device == <<pc, work, seen, plan>>
vars == <<shares, rate, open, idle, accounts, sol, pairs, live, network, begun, events,
          pc, work, seen, plan, since>>

Used(x) == <<"used", x>>
Places == Reserves \cup Mints \cup {Used(x) : x \in Mints \cup {"sol"}}
Of(m) == {r \in Reserves : MintOf[r] = m}
CeilDiv(a, b) == (a + b - 1) \div b
Most(a, b) == IF a >= b THEN a ELSE b
Nothing == [r \in Reserves |-> 0]
NoPay == [m \in Mints |-> 0]
NoWork == [op |-> "none", reserves |-> {}, mint |-> Usdc, amount |-> 0, closing |-> FALSE]
Unseen == [idle |-> NoPay, sol |-> 0, accounts |-> {}]

\* A transaction of the vault's owner.
Transaction(d) ==
  [by |-> d, op |-> work[d].op, takes |-> Nothing, puts |-> Nothing, opens |-> {},
   mints |-> {},     \* vault token accounts it creates when missing
   pay |-> NoPay,    \* exact transfers from the vault to the wallet
   closes |-> {}, sweep |-> 0, tops |-> 0, removes |-> {}, creates |-> FALSE,
   last |-> FALSE,   \* isFinalStep with mode "full"
   since |-> {}, late |-> FALSE]

Init ==
  /\ shares = Holdings /\ rate = [r \in Reserves |-> StartRate]
  /\ open = {r \in Reserves : Holdings[r] > 0}
  /\ idle = Remainders /\ accounts = Mints /\ sol \in 0 .. 1
  /\ pairs = 1 /\ live = {1}
  /\ network = {} /\ begun = 0 /\ events = 0
  /\ pc = [d \in Devices |-> "idle"]
  /\ work = [d \in Devices |-> NoWork] /\ since = [d \in Devices |-> {}]
  /\ seen = [d \in Devices |-> Unseen] /\ plan = [d \in Devices |-> <<>>]

Goto(d, where) == pc' = [pc EXCEPT ![d] = where]
-----------------------------------------------------------------------------
(* The caller's holdings (fetchEarnRpcHoldingsSnapshot) and its choice.    *)

\* The deposits of the vault's obligations and the amounts of its token accounts.
Held == {r \in Reserves : shares[r] > 0}
IdleMints == {m \in Mints : idle[m] > 0}

Work(op, rs, m, a, closing) ==
  [op |-> op, reserves |-> rs, mint |-> m, amount |-> a, closing |-> closing]

\* closePoliciesOnFullWithdrawal: the caller sees nothing else in the vault.
Works ==
  {Work("deposit", {r}, MintOf[r], a, FALSE) : r \in Reserves, a \in Amounts}
  \cup {Work("partial", {r}, MintOf[r], a, FALSE) : r \in Held, a \in Amounts}
  \cup (IF Held = {} THEN {}
        ELSE {Work("exit", Held, Usdc, 0, IdleMints \subseteq {MintOf[r] : r \in Held})})
  \cup {Work("idle", {}, m, idle[m], Held = {} /\ IdleMints = {m}) : m \in IdleMints}
  \cup (IF Held = {} THEN {Work("cleanup", {}, Usdc, 0, TRUE), Work("refund", {}, Usdc, 0, TRUE)}
        ELSE {})

Feasible(w) ==
  w.op = "partial" => \A r \in w.reserves : w.amount <= shares[r] * rate[r]

ReadHoldings(d, w) ==
  /\ work' = [work EXCEPT ![d] = w] /\ since' = [since EXCEPT ![d] = {}]
  /\ Goto(d, "reads")
  /\ UNCHANGED <<chain, network, events, seen, plan>>

Begin(d) ==
  /\ pc[d] = "idle" /\ begun < MaxBegun /\ begun' = begun + 1
  /\ \E w \in Works : w.op \in Operations /\ Feasible(w) /\ ReadHoldings(d, w)

Retries(d) ==
  {w \in Works : /\ w.op = work[d].op /\ w.op \in {"exit", "idle", "cleanup", "refund"}
                 /\ w.mint = work[d].mint}

\* The owner tries again what failed, for as long as there is something to do.
Again(d) ==
  /\ pc[d] = "failed" /\ UNCHANGED begun
  /\ \/ \E w \in Retries(d) : ReadHoldings(d, w)
     \/ /\ Retries(d) = {} /\ Goto(d, "idle")
        /\ work' = [work EXCEPT ![d] = NoWork]
        /\ UNCHANGED <<chain, network, events, seen, plan, since>>

\* resolveEarnYieldRoutingPolicyForExecution finds no policy.
Missing(d) == work[d].op \in {"partial", "exit", "idle"} /\ live = {}

Throw(d) == Goto(d, "failed") /\ UNCHANGED <<work, plan>>
Prepared(d, steps) == Goto(d, "send") /\ plan' = [plan EXCEPT ![d] = steps] /\ UNCHANGED work
\* There is nothing to do, or something else must be done first.
GiveUp(d) == Goto(d, "idle") /\ work' = [work EXCEPT ![d] = NoWork] /\ UNCHANGED plan

Snapshot == [idle |-> idle, sol |-> sol, accounts |-> accounts]

\* The vault's remainders and lamports, read side by side with the amounts.
Read(d) ==
  /\ pc[d] = "reads"
  /\ seen' = [seen EXCEPT ![d] = Snapshot]
  /\ IF Missing(d) THEN GiveUp(d) ELSE Goto(d, "prepare") /\ UNCHANGED <<work, plan>>
  /\ UNCHANGED <<chain, network, begun, events, since>>
-----------------------------------------------------------------------------
(* Preparing a withdrawal (prepareEarnUsdcWithdraw).                       *)

\* What the collateral redeems for: a sum over the reserves of m, counted unit by unit.
Units(takes, r) == {r} \X (1 .. takes[r] * rate[r])
Liquidity(takes, m) == Cardinality(UNION {Units(takes, r) : r \in Of(m)})

\* resolveEarnFullWithdrawAmounts: all the vault has in the reserves of a batch.
InFull(batch) == [r \in Reserves |-> IF r \in batch THEN shares[r] ELSE 0]

\* chunkReserveWithdrawals: grouped by mint, at most PerApproval to an approval, the
\* group of the largest total first, its reserves in the order the caller has them in.
Total(rs, m) == Liquidity(InFull(rs), m)
Precedes(rs, m, n) ==
  \/ Total(rs, m) > Total(rs, n)
  \/ Total(rs, m) = Total(rs, n) /\ Rank[m] < Rank[n]

MintOfBatch(batch) == MintOf[CHOOSE r \in batch : TRUE]
Follows(rs, batch, earlier) ==
  /\ batch \cap earlier = {}
  /\ \/ Precedes(rs, MintOfBatch(earlier), MintOfBatch(batch))
     \/ MintOfBatch(earlier) = MintOfBatch(batch) /\ Cardinality(earlier) = PerApproval

Approvals(rs) ==
  {batch \in SUBSET rs : /\ Cardinality(batch) \in 1 .. PerApproval
                         /\ \A r \in batch : MintOf[r] = MintOfBatch(batch)}

Batches(rs) ==
  {batches \in UNION {[1 .. n -> Approvals(rs)] : n \in 1 .. Cardinality(rs)} :
     /\ rs = UNION {batches[i] : i \in DOMAIN batches}
     /\ \A i, j \in DOMAIN batches : i < j => Follows(rs, batches[j], batches[i])}

Refunds(takes) == Cardinality({r \in open : takes[r] > 0 /\ takes[r] = shares[r]})

\* Mutant: the simulated balance is taken for what was redeemed.
RedeemedAll(current, simulated) == simulated

\* resolveSimulatedRedeemedAmountRaw
Redeemed(current, simulated) ==
  IF current > 0 /\ simulated >= current THEN simulated - current ELSE simulated

\* What the simulated prefix adds to the vault's account of m, as seen from the
\* amount read before.
Simulated(d, takes, m) == Redeemed(seen[d].idle[m], idle[m] + Liquidity(takes, m))

\* Mutant: every batch sweeps the vault, not the last one alone.
SweepAlways(final, takes) == sol + Refunds(takes)

\* Mutant: the first batch removes the policies.
RemovesAlways(final) == live

\* The sweep and the policies, which go in the last transaction of the exit
\* (prepareCloseLiveYieldRoutingPoliciesSync).
SweepIf(final, takes) == IF final THEN sol + Refunds(takes) ELSE 0
RemovesIf(final) == IF final THEN live ELSE {}

\* finalBatchIndexByMint: the batch that ends a mint closes its token accounts.
FinalForMint(batches, i, m) ==
  \A j \in DOMAIN batches : j > i => batches[j] \cap Of(m) = {}

\* walletTransferAmountRaw: what is redeemed, and at the end of a mint the
\* remainder read before.
Payout(d, takes, m, closes) ==
  LET redeemed == IF Simulated(d, takes, m) > 0 THEN Simulated(d, takes, m)
                  ELSE Liquidity(takes, m)
  IN [NoPay EXCEPT ![m] = redeemed + (IF closes THEN seen[d].idle[m] ELSE 0)]

\* createEarnFullWithdrawCleanupInstructions
WithCleanup(t, takes, m, closes, final) ==
  [t EXCEPT !.closes = IF closes THEN {m} ELSE {}, !.sweep = SweepIf(final, takes)]

\* The packed transaction of a batch.
Packed(d, takes, m, closes, final) ==
  LET t == [Transaction(d) EXCEPT !.takes = takes, !.mints = {m},
                                  !.pay = Payout(d, takes, m, closes),
                                  !.removes = RemovesIf(final)]
  IN WithCleanup(t, takes, m, closes, final)

\* buildWithdrawBatch of the i-th batch of a full withdrawal.
ExitStep(d, batches, i) ==
  LET m == MintOfBatch(batches[i])
      last == i = Len(batches)
      closes == work[d].closing /\ FinalForMint(batches, i, m)
  IN [Packed(d, InFull(batches[i]), m, closes, work[d].closing /\ last) EXCEPT !.last = last]

\* Everything is prepared, and simulated, before the first step is sent.
PrepareExit(d) ==
  /\ pc[d] = "prepare" /\ work[d].op = "exit"
  /\ IF \E r \in work[d].reserves : shares[r] = 0 THEN Throw(d)
     ELSE \E batches \in Batches(work[d].reserves) :
            Prepared(d, [i \in DOMAIN batches |-> ExitStep(d, batches, i)])
  /\ UNCHANGED <<chain, network, begun, events, seen, since>>

\* What the simulation yields less than the amount; collateral is added for it, twice
\* at most.
Short(d, r, c) == work[d].amount - Simulated(d, [Nothing EXCEPT ![r] = c], MintOf[r])
Adjusted(d, r, c) ==
  LET next(x) == IF Short(d, r, x) > 0 THEN x + CeilDiv(Short(d, r, x), rate[r]) + 1 ELSE x
  IN next(next(c))

\* Kamino's instruction may be a raw unit short of the amount.
PreparePartial(d) ==
  /\ pc[d] = "prepare" /\ work[d].op = "partial"
  /\ \E r \in work[d].reserves : \E c \in {work[d].amount \div rate[r], CeilDiv(work[d].amount, rate[r])} :
       LET m == MintOf[r]
           takes == [Nothing EXCEPT ![r] = Adjusted(d, r, c)]
       IN IF takes[r] > shares[r] \/ takes[r] = 0 \/ Short(d, r, takes[r]) > 0 THEN Throw(d)
          ELSE Prepared(d, <<[Transaction(d) EXCEPT
                                !.takes = takes, !.mints = {m},
                                !.pay = [NoPay EXCEPT ![m] = work[d].amount]]>>)
  /\ UNCHANGED <<chain, network, begun, events, seen, since>>

\* A withdrawal from the idle balance; of all of it when it is the last source.
PrepareIdle(d) ==
  /\ pc[d] = "prepare" /\ work[d].op = "idle"
  /\ Prepared(d, <<[Transaction(d) EXCEPT
                       !.pay = [NoPay EXCEPT ![work[d].mint] = work[d].amount],
                       !.closes = IF work[d].closing THEN {work[d].mint} ELSE {},
                       !.sweep = SweepIf(work[d].closing, Nothing),
                       !.removes = RemovesIf(work[d].closing),
                       !.last = work[d].closing]>>)
  /\ UNCHANGED <<chain, network, begun, events, seen, since>>
-----------------------------------------------------------------------------
(* Preparing a deposit, a cleanup, a refund.                               *)

\* The setup instructions Kamino's bundle has, and the rent the vault lacks for them.
Opens(r) == {r} \ open
TopUp(r) == IF Opens(r) = {} THEN 0 ELSE Most(0, RentBuffer - sol)

\* The stage that creates the policies carries the top-up when there is one.
PolicyStage(d, topUp) == [Transaction(d) EXCEPT !.creates = TRUE, !.tops = topUp]

DepositStage(d, r, topUp) ==
  [Transaction(d) EXCEPT !.puts = [Nothing EXCEPT ![r] = work[d].amount],
                         !.mints = {MintOf[r]}, !.opens = Opens(r), !.tops = topUp]

\* The wallet may hold less than the amount.
PrepareDeposit(d) ==
  /\ pc[d] = "prepare" /\ work[d].op = "deposit"
  /\ \/ Throw(d)
     \/ \E r \in work[d].reserves :
          Prepared(d, IF live # {} THEN <<DepositStage(d, r, TopUp(r))>>
                      ELSE <<PolicyStage(d, TopUp(r)), DepositStage(d, r, 0)>>)
  /\ UNCHANGED <<chain, network, begun, events, seen, since>>

TokenCleanup(d) == [m \in Mints |-> IF m \in seen[d].accounts THEN seen[d].idle[m] ELSE 0]

\* prepareEarnUsdcCleanup of the token accounts the caller has seen.
PrepareCleanup(d) ==
  /\ pc[d] = "prepare" /\ work[d].op = "cleanup"
  /\ IF seen[d].accounts = {} /\ sol = 0 /\ live = {} THEN GiveUp(d)
     ELSE Prepared(d, <<[Transaction(d) EXCEPT
                           !.pay = TokenCleanup(d),
                           !.closes = seen[d].accounts, !.sweep = sol, !.removes = live]>>)
  /\ UNCHANGED <<chain, network, begun, events, seen, since>>

\* prepareEarnVaultAccountsRefund, of one snapshot of the vault.
PrepareRefund(d) ==
  /\ pc[d] = "prepare" /\ work[d].op = "refund"
  /\ IF \/ \E m \in Mints \ {Usdc} : seen[d].idle[m] > 0
        \/ seen[d].accounts = {} /\ seen[d].sol = 0
     THEN GiveUp(d)
     ELSE Prepared(d, <<[Transaction(d) EXCEPT
                           !.pay = [NoPay EXCEPT ![Usdc] = seen[d].idle[Usdc]],
                           !.closes = seen[d].accounts, !.sweep = seen[d].sol]>>)
  /\ UNCHANGED <<chain, network, begun, events, seen, since>>

Prepare(d) ==
  \/ PrepareExit(d) \/ PreparePartial(d) \/ PrepareIdle(d) \/ PrepareDeposit(d)
  \/ PrepareCleanup(d) \/ PrepareRefund(d)
-----------------------------------------------------------------------------
(* Sending the plan, step by step.                                         *)

Send(d) ==
  /\ pc[d] = "send"
  /\ network' = network \cup {[Head(plan[d]) EXCEPT !.since = since[d]]}
  /\ plan' = [plan EXCEPT ![d] = Tail(@)] /\ Goto(d, "sent")
  /\ UNCHANGED <<chain, begun, events, work, seen, since>>

\* The device is done with the plan: its operation is over, or has failed.
Leave(d, where) ==
  /\ Goto(d, where) /\ plan' = [plan EXCEPT ![d] = <<>>]
  /\ work' = [work EXCEPT ![d] = IF where = "idle" THEN NoWork ELSE @]
  /\ seen' = [seen EXCEPT ![d] = Unseen]

\* The answer is lost: the owner starts over while the step is on its way.
AnswerLost(d) ==
  /\ pc[d] = "sent" /\ events < MaxEvents /\ events' = events + 1
  /\ \E t \in network : t.by = d /\ ~t.late
                        /\ network' = (network \ {t}) \cup {[t EXCEPT !.late = TRUE]}
  /\ Leave(d, "failed") /\ since' = [since EXCEPT ![d] = {}]
  /\ UNCHANGED <<chain, begun>>

\* The program's answer to t, for a step that is awaited.
Answer(t, landed) ==
  IF t.late THEN UNCHANGED device
  ELSE IF ~landed THEN Leave(t.by, "failed")
  ELSE IF plan[t.by] = <<>> THEN Leave(t.by, "idle")
  ELSE Goto(t.by, "send") /\ UNCHANGED <<work, seen, plan>>

\* Places changed under the other devices and the transactions on their way.
Change(places, doers, ts) ==
  /\ since' = [d \in Devices |->
        IF pc'[d] \in {"idle", "failed"} THEN {}
        ELSE IF d \in doers THEN since[d] ELSE since[d] \cup places]
  /\ network' = {[u EXCEPT !.since = @ \cup places] : u \in ts}
-----------------------------------------------------------------------------
(* The programs.                                                           *)

Sum(m, t) == idle[m] + Liquidity(t.takes, m)
Lamports(t) == sol + t.tops + Refunds(t.takes) - Cardinality(t.opens)

Accepts(t) ==
  /\ \A r \in Reserves : t.takes[r] <= shares[r] /\ (t.takes[r] > 0 => r \in open)
  /\ \A r \in Reserves : t.puts[r] > 0 => t.puts[r] >= rate[r] /\ r \in open \cup t.opens
  /\ t.opens \cap open = {} /\ Lamports(t) >= t.sweep
  /\ \A m \in Mints : t.pay[m] <= Sum(m, t)
  /\ t.closes \subseteq accounts \cup t.mints
  /\ \A m \in t.closes : t.pay[m] = Sum(m, t)
  /\ t.removes \subseteq live /\ (t.creates => pairs < MaxPairs)
  /\ \A r \in Reserves : shares[r] + t.puts[r] \div rate[r] <= MaxShares

\* A transaction takes effect as a whole.
Land(t) ==
  /\ t \in network /\ Accepts(t) /\ Answer(t, TRUE)
  /\ shares' = [r \in Reserves |-> shares[r] - t.takes[r] + t.puts[r] \div rate[r]]
  /\ open' = (open \cup t.opens) \ {r \in open : t.takes[r] > 0 /\ t.takes[r] = shares[r]}
  /\ idle' = [m \in Mints |-> Sum(m, t) - t.pay[m]]
  /\ accounts' = (accounts \cup t.mints) \ t.closes
  /\ sol' = Lamports(t) - t.sweep
  /\ pairs' = (IF t.creates THEN pairs + 1 ELSE pairs)
  /\ live' = (live \ t.removes) \cup (IF t.creates THEN {pairs + 1} ELSE {})
  /\ Change({r \in Reserves : t.puts[r] > 0} \cup {m \in Mints : idle'[m] > idle[m]}
              \cup {Used(m) : m \in {x \in Mints : idle'[x] < idle[x]}}
              \cup (IF sol' < sol THEN {Used("sol")} ELSE {}),
            IF t.late THEN {} ELSE {t.by}, network \ {t})
  /\ UNCHANGED <<rate, begun, events>>

Fails(t) ==
  /\ t \in network /\ ~Accepts(t) /\ Answer(t, FALSE)
  /\ Change({}, {}, network \ {t})
  /\ UNCHANGED <<chain, begun, events>>

Expires(t) ==
  /\ t \in network /\ (t.late \/ events < MaxEvents)
  /\ events' = (IF t.late THEN events ELSE events + 1)
  /\ Answer(t, FALSE) /\ Change({}, {}, network \ {t})
  /\ UNCHANGED <<chain, begun>>

Event(places) ==
  /\ events < MaxEvents /\ events' = events + 1
  /\ UNCHANGED <<begun, device>> /\ Change(places, {}, network)

Accrue(r) ==
  /\ Event({}) /\ shares[r] > 0 /\ rate[r] < MaxRate
  /\ rate' = [rate EXCEPT ![r] = @ + 1]
  /\ UNCHANGED <<shares, open, idle, accounts, sol, pairs, live>>

\* The delegate moves the position to another reserve, under the route policy.
Rebalance(r, s) ==
  /\ Event({s}) /\ live # {} /\ r # s /\ MintOf[r] = MintOf[s] /\ shares[r] > 0
  /\ shares[s] + (shares[r] * rate[r]) \div rate[s] <= MaxShares
  /\ shares' = [shares EXCEPT ![r] = 0, ![s] = @ + (shares[r] * rate[r]) \div rate[s]]
  /\ open' = open \cup {s}
  /\ UNCHANGED <<rate, idle, accounts, sol, pairs, live>>

\* Mutant: a pull into a token account the vault does not have.
PullIntoNothing ==
  /\ Event({Usdc})
  /\ idle' = [idle EXCEPT ![Usdc] = @ + 1]
  /\ UNCHANGED <<shares, rate, open, accounts, sol, pairs, live>>

\* Autodeposit pulls funds of the wallet into the vault's token account.
Pull ==
  /\ Event({Usdc})
  /\ idle' = [idle EXCEPT ![Usdc] = @ + 1] /\ accounts' = accounts \cup {Usdc}
  /\ UNCHANGED <<shares, rate, open, sol, pairs, live>>

DeviceStep(d) == Again(d) \/ Read(d) \/ Prepare(d) \/ Send(d)

Next ==
  \/ \E d \in Devices : Begin(d) \/ DeviceStep(d) \/ AnswerLost(d)
  \/ \E t \in network : Land(t) \/ Fails(t) \/ Expires(t)
  \/ \E r \in Reserves : Accrue(r) \/ \E s \in Reserves : Rebalance(r, s)
  \/ Pull

Spec == Init /\ [][Next]_vars

\* Reads are answered, prepared steps are sent and a transaction settles while its
\* blockhash is valid.  Nobody has to begin.
Fairness ==
  /\ \A d \in Devices : /\ WF_vars(DeviceStep(d))
                        /\ WF_vars(\E t \in network : t.by = d /\ ~t.late /\ (Land(t) \/ Fails(t)))
FairSpec == Spec /\ Fairness
-----------------------------------------------------------------------------
(* Properties.                                                             *)

\* Every variable stays in its range; what the vault holds is in accounts it has.
TypeOK ==
  /\ shares \in [Reserves -> 0 .. MaxShares] /\ rate \in [Reserves -> StartRate .. MaxRate]
  /\ open \subseteq Reserves /\ accounts \subseteq Mints /\ sol \in Nat
  /\ idle \in [Mints -> Nat] /\ \A m \in Mints : idle[m] > 0 => m \in accounts
  /\ \A r \in Reserves : shares[r] > 0 => r \in open
  /\ pairs \in 1 .. MaxPairs /\ live \subseteq 1 .. pairs /\ events \in 0 .. MaxEvents
  /\ since \in [Devices -> SUBSET Places] /\ \A t \in network : t.since \subseteq Places
  /\ pc \in [Devices -> {"idle", "reads", "prepare", "send", "sent", "failed"}]

Landed(t) == Cardinality(network') < Cardinality(network) /\ Land(t)
Arrived(t, p) == p \in t.since

\* The step that ends a full withdrawal, and whatever removes the Earn policies,
\* leaves nothing in the vault but what arrived after the caller had looked:
\* funds without a policy are stranded (ASK-1802).
ExitLeavesNothing ==
  [][\A t \in network : Landed(t) /\ (t.last \/ t.removes # {}) =>
       /\ \A r \in Reserves : shares'[r] > 0 => Arrived(t, r)
       /\ t.removes # {} => \A m \in Mints : idle'[m] > 0 => Arrived(t, m)]_vars

\* "The sweep can only undershoot, never overdraw": as long as nobody else uses the
\* vault's SOL or puts funds into the reserves an exit empties.
SweepNeverOverdraws ==
  \A t \in network :
    t.op = "exit" /\ Used("sol") \notin t.since
    /\ (\A r \in Reserves : r \notin t.since /\ t.takes[r] <= shares[r])
      => t.sweep <= Lamports(t)

\* A partial withdrawal of a reserve is not paid from the idle balance, however
\* Kamino rounds ("produced less liquidity than requested"), as long as nobody else
\* uses that balance: its amount and the simulation are separate reads.
PartialSparesIdle ==
  [][\A t \in network : Landed(t) /\ t.op = "partial" =>
       \A m \in Mints : idle'[m] >= idle[m] \/ Arrived(t, m) \/ Arrived(t, Used(m))]_vars

\* An owner who goes on trying ends with nothing left to do: no leftover amount,
\* lost answer or lost race makes a withdrawal fail for ever.
OperationsEnd == \A d \in Devices : []<>(pc[d] = "idle")
=============================================================================
