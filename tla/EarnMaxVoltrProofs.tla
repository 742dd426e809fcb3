-------------------------- MODULE EarnMaxVoltrProofs --------------------------
(***************************************************************************)
(* Proofs about EarnMaxVoltr: what is prepared takes effect at most once,  *)
(* an approved claim consumes the approved receipt, and the proceeds of a  *)
(* claim meet its floor.  All of it rests on what the next policy seed     *)
(* says of the operations fenced with it.                                  *)
(***************************************************************************)
EXTENDS EarnMaxVoltr, TLAPS

\* What has landed is behind the seed, or the basis, it was prepared for.
Spent(p) ==
  p.done => /\ p.op # "none"
            /\ p.op \in {"request", "claim"} => p.seed <= policySeed
            /\ p.op = "deposit" => p.basis < basis

\* A claim that may still land is for the receipt its consent names, and moves all
\* that is in the token account beside the floor.
Fit(p) ==
  p.op = "claim" /\ p.seed = policySeed + 1 =>
    /\ p.consent # 0 /\ receipt.lp > 0 /\ receipt.ours => p.consent = receipt.from
    /\ ~p.given => asset + p.floor <= p.pay

PlanInv(p) == p.seed <= policySeed + 1 /\ Spent(p) /\ Fit(p)

\* The seed a device read and the one an approval names are not ahead, and an
\* approval at the present seed is for the receipt that is pending.
DeviceInv(d) ==
  /\ seed[d] <= policySeed /\ consent[d].seed <= policySeed
  /\ consent[d].from # 0 /\ consent[d].seed = policySeed /\ receipt.lp > 0 /\ receipt.ours
       => consent[d].from = receipt.from

Inv ==
  /\ TypeOK
  /\ \A t \in network : PlanInv(t.plan)
  /\ \A d \in Devices : PlanInv(plan[d]) /\ DeviceInv(d)

Transactions == [by : Devices, plan : Plans, late : BOOLEAN]
-----------------------------------------------------------------------------
(* Types of what the actions compute.                                      *)

\* A quotient of naturals is a natural.
LEMMA DivNat == \A a \in Nat, b \in Nat \ {0} : a \div b \in Nat
  OBVIOUS

\* A product of naturals is a natural.
LEMMA TimesNat == \A a, b \in Nat : a * b \in Nat
  OBVIOUS

\* The lesser of two naturals is one of them.
LEMMA LeastNat == \A a, b \in Nat : Least(a, b) \in Nat /\ Least(a, b) <= a /\ Least(a, b) <= b
  BY DEF Least

\* The payout of the pending receipt is a natural.
LEMMA PayoutNat == TypeOK => Payout \in Nat
<1> SUFFICES ASSUME TypeOK PROVE Payout \in Nat
  OBVIOUS
<1>1. receipt.quote \in Nat /\ receipt.lp \in Nat /\ price \in Nat
  BY VoltrAssumption DEF TypeOK, Receipts
<1>2. receipt.lp * price \in Nat
  BY <1>1, TimesNat
<1> QED BY <1>1, <1>2, LeastNat DEF Payout

\* The empty records are records.
LEMMA NothingTyped ==
  /\ NoPlan \in Plans /\ NoConsent \in Approvals /\ NoReceipt \in Receipts
  /\ ~NoPlan.done /\ NoPlan.op = "none" /\ NoPlan.seed = 0
  BY DEF NoPlan, Plans, NoConsent, Approvals, NoReceipt, Receipts

\* The empty plan satisfies the plan invariant.
LEMMA NothingFits == policySeed \in Nat => PlanInv(NoPlan)
  BY NothingTyped DEF PlanInv, Spent, Fit
-----------------------------------------------------------------------------
(* Type correctness, action by action.                                     *)

\* A marked plan is a plan.
LEMMA MarkTyped ==
  \A p \in Plans : /\ [p EXCEPT !.done = TRUE] \in Plans /\ [p EXCEPT !.given = TRUE] \in Plans
  BY DEF Plans

\* Leave, Throw and Prepared keep the variables of the devices in their ranges.
LEMMA LeaveTyped ==
  ASSUME TypeOK, NEW d \in Devices, Leave(d), UNCHANGED <<chain, network>>
  PROVE  TypeOK'
BY NothingTyped DEF TypeOK, Leave, Goto, NoWork, chain

LEMMA ThrowTyped ==
  ASSUME TypeOK, NEW d \in Devices, Throw(d), UNCHANGED <<chain, network>>
  PROVE  TypeOK'
BY DEF TypeOK, Throw, Goto, chain

LEMMA PreparedTyped ==
  ASSUME TypeOK, NEW d \in Devices, NEW p \in Plans, Prepared(d, p), UNCHANGED <<chain, network>>
  PROVE  TypeOK'
BY DEF TypeOK, Prepared, Goto, chain

\* An approval is made of the pending receipt as it is.
LEMMA ConsentsTyped == TypeOK => \A c \in Consents : c \in Approvals
<1> SUFFICES ASSUME TypeOK, NEW c \in Consents PROVE c \in Approvals
  OBVIOUS
<1>1. CASE c = NoConsent
  BY <1>1, NothingTyped
<1>2. CASE c # NoConsent
  <2>1. PICK m \in {1, Payout} \ {0} :
          c = [lp |-> receipt.lp, min |-> m, seed |-> policySeed, from |-> receipt.from,
               expired |-> FALSE]
    BY <1>2 DEF Consents
  <2>2. m \in Nat
    BY PayoutNat
  <2>3. receipt.lp \in Nat /\ receipt.from \in Nat /\ policySeed \in Nat
    BY DEF TypeOK, Receipts
  <2> QED BY <2>1, <2>2, <2>3 DEF Approvals
<1> QED BY <1>1, <1>2

LEMMA AskTyped ==
  ASSUME TypeOK, NEW d \in Devices,
         NEW w \in [op : Operations \cup {"none"}, amount : Amounts \cup {0}], Ask(d, w)
  PROVE  TypeOK'
<1>1. PICK c \in IF w.op = "claim" THEN Consents ELSE {NoConsent} :
        consent' = [consent EXCEPT ![d] = c]
  BY DEF Ask
<1>2. c \in Approvals
  BY ConsentsTyped, NothingTyped
<1> QED BY <1>1, <1>2, NothingTyped DEF Ask, TypeOK, Goto, chain

\* A request and a claim behind a fence are plans.
LEMMA RequestTyped ==
  ASSUME NEW l \in Nat, NEW a \in BOOLEAN, NEW n \in Nat
  PROVE  [[NoPlan EXCEPT !.op = "request", !.lp = l, !.all = a] EXCEPT !.seed = n] \in Plans
BY DEF Plans, NoPlan

LEMMA ClaimTyped ==
  ASSUME NEW b \in Nat \X Nat \X Nat, NEW x \in Nat, NEW f \in Nat, NEW c \in Nat, NEW n \in Nat
  PROVE  [[NoPlan EXCEPT !.op = "claim", !.pin = b, !.pay = x, !.floor = f, !.consent = c]
            EXCEPT !.seed = n] \in Plans
BY DEF Plans, NoPlan

\* What is prepared is a plan.
LEMMA BuildTyped ==
  ASSUME TypeOK, NEW d \in Devices, Build(d)
  PROVE  TypeOK'
<1>1. /\ work[d].amount \in Nat /\ price \in Nat \ {0} /\ lp \in Nat /\ basis \in Nat
      /\ seed[d] \in Nat /\ asset \in Nat
  <2>1. work[d] \in [op : Operations \cup {"none"}, amount : Amounts \cup {0}]
    BY DEF TypeOK
  <2>2. work[d].amount \in Nat
    BY <2>1, VoltrAssumption
  <2>3. price \in Nat \ {0}
    BY VoltrAssumption DEF TypeOK
  <2> QED BY <2>2, <2>3 DEF TypeOK
<1>2. work[d].amount \div price \in Nat
  BY <1>1, DivNat
<1>3. CASE BuildDeposit(d)
  <2>1. CASE Leave(d)
    BY <1>3, <2>1, LeaveTyped DEF BuildDeposit
  <2>2. CASE Prepared(d, [NoPlan EXCEPT !.op = "deposit", !.amount = work[d].amount,
                                     !.lp = work[d].amount \div price,
                                     !.basis = basis, !.base = lp])
    <3>1. [NoPlan EXCEPT !.op = "deposit", !.amount = work[d].amount,
             !.lp = work[d].amount \div price, !.basis = basis, !.base = lp] \in Plans
      BY <1>1, <1>2, NothingTyped DEF Plans
    <3> QED BY <1>3, <2>2, <3>1, PreparedTyped DEF BuildDeposit
  <2> QED BY <1>3, <2>1, <2>2 DEF BuildDeposit
<1>4. CASE BuildRequest(d)
  <2> DEFINE p == Fenced(d, [NoPlan EXCEPT !.op = "request", !.lp = LpAsked(d),
                                           !.all = work[d].amount = 0])
  <2>1. CASE Leave(d)
    BY <1>4, <2>1, LeaveTyped DEF BuildRequest
  <2>2. CASE Prepared(d, p)
    <3>1. LpAsked(d) \in Nat
      BY <1>1, <1>2, LeastNat DEF LpAsked
    <3>2. seed[d] + 1 \in Nat /\ (work[d].amount = 0) \in BOOLEAN
      BY <1>1
    <3>3. p \in Plans
      BY <3>1, <3>2, RequestTyped, Zenon DEF Fenced
    <3> QED BY <1>4, <2>2, <3>3, PreparedTyped DEF BuildRequest
  <2> QED BY <1>4, <2>1, <2>2 DEF BuildRequest
<1>5. CASE BuildClaim(d)
  <2> DEFINE p == Fenced(d, [NoPlan EXCEPT !.op = "claim", !.pin = Bytes(receipt),
                                           !.pay = BaselineAndFloor(d), !.floor = Floor(d),
                                           !.consent = consent[d].from])
  <2>1. CASE Leave(d)
    BY <1>5, <2>1, LeaveTyped DEF BuildClaim
  <2>2. CASE Throw(d)
    BY <1>5, <2>2, ThrowTyped DEF BuildClaim
  <2>3. CASE Prepared(d, p)
    <3>1. consent[d].min \in Nat /\ consent[d].from \in Nat
      BY DEF TypeOK, Approvals
    <3>2. Floor(d) \in Nat
      BY <3>1, PayoutNat DEF Floor
    <3>3. BaselineAndFloor(d) \in Nat
      BY <1>1, <3>2 DEF BaselineAndFloor
    <3>4. Bytes(receipt) \in Nat \X Nat \X Nat
      BY DEF TypeOK, Receipts, Bytes
    <3>6. seed[d] + 1 \in Nat
      BY <1>1
    <3>5. p \in Plans
      BY <3>1, <3>2, <3>3, <3>4, <3>6, ClaimTyped, Zenon DEF Fenced
    <3> QED BY <1>5, <2>3, <3>5, PreparedTyped DEF BuildClaim
  <2> QED BY <1>5, <2>1, <2>2, <2>3 DEF BuildClaim
<1>6. CASE BuildRecover(d)
  <2>1. CASE Leave(d)
    BY <1>6, <2>1, LeaveTyped DEF BuildRecover
  <2>2. CASE Prepared(d, [NoPlan EXCEPT !.op = "recover", !.pay = asset])
    <3>1. [NoPlan EXCEPT !.op = "recover", !.pay = asset] \in Plans
      BY <1>1, NothingTyped DEF Plans
    <3> QED BY <1>6, <2>2, <3>1, PreparedTyped DEF BuildRecover
  <2> QED BY <1>6, <2>1, <2>2 DEF BuildRecover
<1> QED BY <1>3, <1>4, <1>5, <1>6 DEF Build

\* Sending, holding back and losing an answer.
LEMMA SendTyped ==
  ASSUME TypeOK, NEW d \in Devices, Send(d) \/ Resend(d) \/ Held(d) \/ AnswerLost(d)
  PROVE  TypeOK'
<1>1. [by |-> d, plan |-> plan[d], late |-> FALSE] \in Transactions
  BY DEF TypeOK, Transactions
<1>2. CASE Throw(d) /\ UNCHANGED <<chain, network>>
  BY <1>2, ThrowTyped
<1>3. CASE Sent(d) /\ Goto(d, "sent") /\ UNCHANGED <<chain, work, consent, seed, plan>>
  BY <1>1, <1>3 DEF TypeOK, Sent, Goto, chain, Transactions
<1>4. CASE AnswerLost(d)
  <2>1. \A t \in network : [t EXCEPT !.late = TRUE] \in Transactions
    BY DEF TypeOK, Transactions
  <2>2. network' \subseteq Transactions
    BY <1>4, <2>1 DEF AnswerLost, TypeOK, Transactions
  <2> QED BY <1>4, <2>2 DEF AnswerLost, TypeOK, Goto, chain, Transactions
<1> QED BY <1>2, <1>3, <1>4 DEF Send, Resend, Held

\* The answer to a transaction leaves transactions and plans.
LEMMA AnswerTyped ==
  ASSUME TypeOK, NEW t \in network, NEW landed \in BOOLEAN, Answer(t, landed)
  PROVE  /\ network' \subseteq Transactions
         /\ pc' \in [Devices -> {"idle", "settings", "build", "ready", "sent", "lost", "failed"}]
         /\ work' \in [Devices -> [op : Operations \cup {"none"}, amount : Amounts \cup {0}]]
         /\ consent' \in [Devices -> Approvals] /\ seed' \in [Devices -> Nat]
         /\ plan' \in [Devices -> Plans]
<1> DEFINE mark(p) == IF landed /\ p = t.plan THEN [p EXCEPT !.done = TRUE] ELSE p
<1>1. \A p \in Plans : mark(p) \in Plans
  BY MarkTyped
<1>2. network' = {[u EXCEPT !.plan = mark(u.plan)] : u \in network \ {t}}
  BY DEF Answer
<1>3. network \subseteq Transactions /\ t.by \in Devices
  BY DEF TypeOK, Transactions
<1>4. \A u \in Transactions : [u EXCEPT !.plan = mark(u.plan)] \in Transactions
  BY <1>1 DEF Transactions
<1>5. network' \subseteq Transactions
  BY <1>2, <1>3, <1>4
<1>6. \A d \in Devices : mark(plan[d]) \in Plans
  BY <1>1 DEF TypeOK
<1>7. CASE t.late
  <2>1. plan' = [d \in Devices |-> mark(plan[d])] /\ UNCHANGED <<pc, work, consent, seed>>
    BY <1>7 DEF Answer
  <2> HIDE DEF mark
  <2> QED BY <1>5, <1>6, <2>1 DEF TypeOK
<1>8. CASE ~t.late
  <2>1. /\ plan' = [d \in Devices |-> IF d = t.by /\ landed THEN NoPlan ELSE mark(plan[d])]
        /\ Goto(t.by, IF landed THEN "idle" ELSE "failed")
        /\ work' = IF landed THEN [work EXCEPT ![t.by] = NoWork] ELSE work
        /\ consent' = [consent EXCEPT ![t.by] = NoConsent]
        /\ seed' = [seed EXCEPT ![t.by] = 0]
    BY <1>8 DEF Answer
  <2> HIDE DEF mark
  <2>2. plan' \in [Devices -> Plans]
    BY <1>6, <2>1, NothingTyped
  <2>3. work' \in [Devices -> [op : Operations \cup {"none"}, amount : Amounts \cup {0}]]
    BY <2>1 DEF TypeOK, NoWork
  <2>4. pc' \in [Devices -> {"idle", "settings", "build", "ready", "sent", "lost", "failed"}]
    BY <2>1 DEF TypeOK, Goto
  <2> QED BY <1>5, <2>1, <2>2, <2>3, <2>4, NothingTyped DEF TypeOK
<1> QED BY <1>7, <1>8 DEF TypeOK, Transactions
\* What lands, or fails, keeps the types.
LEMMA SettleTyped ==
  ASSUME TypeOK, NEW t \in network, Settle(t)
  PROVE  TypeOK'
<1>0. t.plan \in Plans
  BY DEF TypeOK
<1>1. /\ lp \in Nat /\ asset \in Nat /\ price \in Nat /\ opened \in Nat /\ basis \in Nat
      /\ policySeed \in Nat /\ t.plan.lp \in Nat /\ t.plan.pay \in Nat
  BY <1>0, VoltrAssumption DEF TypeOK, Plans
<1>2. CASE LandDeposit(t)
  <2>1. Answer(t, TRUE)
    BY <1>2 DEF LandDeposit
  <2>2. lp' \in Nat /\ basis' \in Nat
    BY <1>1, <1>2 DEF LandDeposit
  <2>3. UNCHANGED <<asset, receipt, ready, opened, price, liquid, policySeed>>
    BY <1>2 DEF LandDeposit
  <2> QED BY <2>1, <2>2, <2>3, AnswerTyped DEF TypeOK, Transactions
<1>3. CASE LandRequest(t)
  <2> DEFINE e == Escrow(t.plan)
  <2>1. e \in 1 .. lp
    BY <1>3 DEF LandRequest, Accepts
  <2>2. e \in Nat /\ lp - e \in Nat
    BY <1>1, <2>1
  <2>3. e * price \in Nat
    BY <1>1, <2>2, TimesNat
  <2>4. [lp |-> e, quote |-> e * price, from |-> opened + 1, ours |-> TRUE] \in Receipts
    BY <1>1, <2>2, <2>3 DEF Receipts
  <2>6. /\ lp' = lp - e
        /\ receipt' = [lp |-> e, quote |-> e * price, from |-> opened + 1, ours |-> TRUE]
    BY <1>3 DEF LandRequest
  <2> HIDE DEF e
  <2>5. lp' \in Nat /\ receipt' \in Receipts
    BY <2>2, <2>4, <2>6
  <2>7. opened' = opened + 1 /\ ready' = FALSE /\ policySeed' = policySeed + 1
        /\ UNCHANGED <<asset, price, basis, liquid>> /\ Answer(t, TRUE)
    BY <1>3 DEF LandRequest
  <2>8. opened' \in Nat /\ policySeed' \in Nat
    BY <1>1, <2>7
  <2>9. ready' \in BOOLEAN
    BY <2>7
  <2> QED BY <2>5, <2>7, <2>8, <2>9, AnswerTyped DEF TypeOK, Transactions
<1>4. CASE LandClaim(t)
  <2>1. t.plan.pay <= asset + Payout
    BY <1>4 DEF LandClaim, Accepts
  <2>3. asset' = asset + Payout - t.plan.pay /\ Payout \in Nat
    BY <1>4, PayoutNat DEF LandClaim
  <2>2. asset' \in Nat
    BY <1>1, <2>1, <2>3
  <2>4. receipt' = NoReceipt /\ ready' = FALSE /\ policySeed' = policySeed + 1
        /\ basis' = basis + 1 /\ UNCHANGED <<lp, opened, price, liquid>> /\ Answer(t, TRUE)
    BY <1>4 DEF LandClaim
  <2>5. basis' \in Nat /\ policySeed' \in Nat
    BY <1>1, <2>4
  <2>6. ready' \in BOOLEAN
    BY <2>4
  <2> QED BY <2>2, <2>4, <2>5, <2>6, AnswerTyped, NothingTyped DEF TypeOK, Transactions
<1>5. CASE LandRecover(t)
  <2>1. t.plan.pay <= asset
    BY <1>5 DEF LandRecover, Accepts
  <2>2. asset' \in Nat
    BY <1>1, <1>5, <2>1 DEF LandRecover
  <2> QED BY <1>5, <2>2, AnswerTyped DEF LandRecover, TypeOK, Transactions
<1>6. CASE Fails(t)
  BY <1>6, AnswerTyped DEF Fails, TypeOK, Transactions, chain
<1> QED BY <1>2, <1>3, <1>4, <1>5, <1>6 DEF Settle

\* USDC that arrives marks transactions and plans.
LEMMA GivenTyped ==
  ASSUME TypeOK, Given
  PROVE  network' \subseteq Transactions /\ plan' \in [Devices -> Plans]
<1> DEFINE mark(p) == IF p.op = "claim" THEN [p EXCEPT !.given = TRUE] ELSE p
<1>1. \A p \in Plans : mark(p) \in Plans
  BY MarkTyped
<1>2. \A u \in Transactions : [u EXCEPT !.plan = mark(u.plan)] \in Transactions
  BY <1>1 DEF Transactions
<1>3. network' = {[u EXCEPT !.plan = mark(u.plan)] : u \in network}
      /\ plan' = [d \in Devices |-> mark(plan[d])]
  BY DEF Given
<1> HIDE DEF mark
<1>4. network \subseteq Transactions /\ \A d \in Devices : plan[d] \in Plans
  BY DEF TypeOK, Transactions
<1> QED BY <1>1, <1>2, <1>3, <1>4

\* What others do keeps the types.
LEMMA OthersTyped ==
  ASSUME TypeOK,
         \/ Mature \/ (\E p \in 1 .. MaxPrice : Reprice(p)) \/ Drain \/ Replenish
         \/ Donate \/ CreatePolicy \/ OutsideClaim \/ OutsideRequest
  PROVE  TypeOK'
<1>1. lp \in Nat /\ asset \in Nat /\ price \in Nat /\ opened \in Nat
  BY VoltrAssumption DEF TypeOK
<1>2. CASE Mature \/ Drain \/ Replenish \/ CreatePolicy
  <2>1. CASE Mature
    BY <2>1 DEF Mature, TypeOK, device
  <2>2. CASE Drain \/ Replenish
    BY <2>2 DEF Drain, Replenish, TypeOK, device
  <2>3. CASE CreatePolicy
    BY <2>3 DEF CreatePolicy, TypeOK, device
  <2> QED BY <1>2, <2>1, <2>2, <2>3
<1>3. ASSUME NEW p \in 1 .. MaxPrice, Reprice(p) PROVE TypeOK'
  BY <1>3 DEF Reprice, TypeOK, device
<1>4. CASE Donate
  BY <1>1, <1>4, GivenTyped DEF Donate, TypeOK, Transactions
<1>5. CASE OutsideClaim
  <2>1. asset' \in Nat
    BY <1>1, <1>5, PayoutNat DEF OutsideClaim
  <2>4. basis' = basis + 1 /\ receipt' = NoReceipt /\ ready' = FALSE
    BY <1>5 DEF OutsideClaim
  <2>2. basis' \in Nat /\ receipt' \in Receipts /\ ready' \in BOOLEAN
    <3>1. basis \in Nat
      BY DEF TypeOK
    <3>2. basis' \in Nat
      BY <2>4, <3>1
    <3>3. ready' \in BOOLEAN
      BY <2>4
    <3> QED BY <2>4, <3>2, <3>3, NothingTyped
  <2>3. Given /\ UNCHANGED <<lp, opened, price, liquid, policySeed, pc, work, consent, seed>>
    BY <1>5 DEF OutsideClaim
  <2>5. network' \subseteq Transactions /\ plan' \in [Devices -> Plans]
    BY <2>3, GivenTyped
  <2> QED BY <2>1, <2>2, <2>3, <2>5 DEF TypeOK, Transactions
<1>6. CASE OutsideRequest
  <2>1. [lp |-> 1, quote |-> price, from |-> opened + 1, ours |-> FALSE] \in Receipts
    BY <1>1 DEF Receipts
  <2>2. lp' \in Nat
    <3>1. lp > 0 /\ lp' = lp - 1
      BY <1>6 DEF OutsideRequest
    <3> QED BY <1>1, <3>1
  <2>3. opened' = opened + 1 /\ ready' = FALSE
        /\ UNCHANGED <<asset, price, basis, liquid, policySeed, network, device>>
    BY <1>6 DEF OutsideRequest
  <2>4. receipt' \in Receipts
    BY <1>6, <2>1 DEF OutsideRequest
  <2>5. opened' \in Nat
    BY <1>1, <2>3
  <2>6. ready' \in BOOLEAN
    BY <2>3
  <2> QED BY <2>2, <2>3, <2>4, <2>5, <2>6 DEF TypeOK, device
<1> QED BY <1>2, <1>3, <1>4, <1>5, <1>6

\* Every variable stays in its range: no balance goes below zero whatever is sent
\* twice, claimed elsewhere or given (TypeOK of EarnMaxVoltr).
LEMMA TypeStep == TypeOK /\ [Next]_vars => TypeOK'
<1> SUFFICES ASSUME TypeOK, [Next]_vars PROVE TypeOK'
  OBVIOUS
<1>1. ASSUME NEW d \in Devices, Begin(d) PROVE TypeOK'
  <2>1. PICK o \in Operations, a \in Amounts : Ask(d, [op |-> o, amount |-> a])
    BY <1>1 DEF Begin
  <2>2. [op |-> o, amount |-> a] \in [op : Operations \cup {"none"}, amount : Amounts \cup {0}]
    OBVIOUS
  <2> QED BY <2>1, <2>2, AskTyped
<1>2. ASSUME NEW d \in Devices, DeviceStep(d) PROVE TypeOK'
  <2>1. CASE PrepareAgain(d)
    BY <2>1, AskTyped DEF PrepareAgain, TypeOK
  <2>2. CASE ReadSettings(d)
    BY <2>2 DEF ReadSettings, TypeOK, Goto, chain
  <2> QED BY <1>2, <2>1, <2>2, BuildTyped, SendTyped DEF DeviceStep
<1>3. ASSUME NEW d \in Devices, Held(d) \/ AnswerLost(d) PROVE TypeOK'
  BY <1>3, SendTyped
<1>4. ASSUME NEW d \in Devices, ConsentExpires(d) PROVE TypeOK'
  <2>1. [consent[d] EXCEPT !.expired = TRUE] \in Approvals
    BY DEF TypeOK, Approvals
  <2> QED BY <1>4, <2>1 DEF ConsentExpires, TypeOK, chain
<1>5. ASSUME NEW t \in network, Settle(t) PROVE TypeOK'
  BY <1>5, SettleTyped
<1>6. ASSUME NEW t \in network, Expires(t) PROVE TypeOK'
  BY <1>6 DEF Expires, TypeOK, chain, device
<1>7. CASE \/ Mature \/ (\E p \in 1 .. MaxPrice : Reprice(p)) \/ Drain \/ Replenish
           \/ Donate \/ CreatePolicy \/ OutsideClaim \/ OutsideRequest
  BY <1>7, OthersTyped
<1>8. CASE UNCHANGED vars
  BY <1>8 DEF TypeOK, vars
<1> QED BY <1>1, <1>2, <1>3, <1>4, <1>5, <1>6, <1>7, <1>8 DEF Next

\* The initial state is in range.
LEMMA TypeInit == Init => TypeOK
<1> SUFFICES ASSUME Init PROVE TypeOK
  OBVIOUS
<1>3. [lp |-> 1, quote |-> 1, from |-> 1, ours |-> TRUE] \in Receipts
  BY DEF Receipts
<1>1. receipt \in Receipts /\ opened \in Nat
  <2>1. CASE receipt = NoReceipt /\ opened = 0
    BY <2>1, NothingTyped
  <2>2. CASE receipt = [lp |-> 1, quote |-> 1, from |-> 1, ours |-> TRUE] /\ opened = 1
    BY <1>3, <2>2
  <2> QED BY <2>1, <2>2 DEF Init
<1>2. NoWork \in [op : Operations \cup {"none"}, amount : Amounts \cup {0}]
  <2>1. "none" \in Operations \cup {"none"} /\ 0 \in Amounts \cup {0}
    OBVIOUS
  <2> QED BY <2>1, Zenon DEF NoWork
<1>4. lp \in Nat /\ asset \in Nat /\ basis \in Nat /\ policySeed \in Nat
      /\ price \in 1 .. MaxPrice
  BY VoltrAssumption DEF Init
<1>6. liquid \in BOOLEAN /\ ready \in BOOLEAN
  BY DEF Init
<1>5. /\ pc \in [Devices -> {"idle", "settings", "build", "ready", "sent", "lost", "failed"}]
      /\ work \in [Devices -> [op : Operations \cup {"none"}, amount : Amounts \cup {0}]]
      /\ consent \in [Devices -> Approvals] /\ seed \in [Devices -> Nat]
      /\ plan \in [Devices -> Plans] /\ network = {}
  BY <1>2, NothingTyped DEF Init
<1> QED BY <1>1, <1>4, <1>5, <1>6 DEF TypeOK

\* No balance, seed or amount ever leaves its range, whatever is sent twice, claimed
\* elsewhere or given (the arithmetic of plans.ts and of the programs).
THEOREM TypeCorrect == Spec => []TypeOK
BY TypeInit, TypeStep, PTL DEF Spec
-----------------------------------------------------------------------------
(* What a step does to the invariant.                                      *)

\* How the seed and the pending receipt may change: the seed goes up, or the
\* receipt stays, closes, or is replaced by one this client has not opened.
Advance ==
  /\ basis' >= basis
  /\ \/ policySeed' = policySeed + 1
     \/ policySeed' = policySeed /\ (receipt' = receipt \/ receipt'.lp = 0 \/ ~receipt'.ours)

\* q is p after a step that marked it, perhaps.
Carries(p, q) ==
  /\ q.op = p.op /\ q.seed = p.seed /\ q.pay = p.pay /\ q.floor = p.floor
  /\ q.consent = p.consent /\ q.basis = p.basis
  /\ p.given => q.given
  /\ policySeed' = policySeed + 1 \/ q.given \/ asset' <= asset \/ p.op # "claim"
  /\ q.done => \/ p.done
               \/ /\ p.op # "none"
                  /\ p.op \in {"request", "claim"} => p.seed <= policySeed'
                  /\ p.op = "deposit" => p.basis < basis'

\* The numbers an invariant of a plan is about.
LEMMA PlanNumbers ==
  ASSUME TypeOK, NEW p \in Plans
  PROVE  /\ p.seed \in Nat /\ p.pay \in Nat /\ p.floor \in Nat /\ p.basis \in Nat /\ p.consent \in Nat
         /\ policySeed \in Nat /\ asset \in Nat /\ basis \in Nat
         /\ receipt.lp \in Nat /\ receipt.from \in Nat
BY DEF TypeOK, Plans, Receipts

\* A plan carried over a step keeps its invariant.
LEMMA CarryPlan ==
  ASSUME TypeOK, TypeOK', NEW p \in Plans, NEW q \in Plans, PlanInv(p), Advance, Carries(p, q)
  PROVE  PlanInv(q)'
<1>1. /\ p.seed \in Nat /\ p.pay \in Nat /\ p.floor \in Nat /\ p.basis \in Nat
      /\ policySeed \in Nat /\ asset \in Nat /\ basis \in Nat
  BY PlanNumbers
<1>2. policySeed' \in Nat /\ asset' \in Nat /\ basis' \in Nat /\ receipt'.lp \in Nat
  BY DEF TypeOK, Receipts
<1>3. basis' >= basis /\ (policySeed' = policySeed + 1 \/ policySeed' = policySeed)
  BY DEF Advance
<1>4. /\ q.op = p.op /\ q.seed = p.seed /\ q.pay = p.pay /\ q.floor = p.floor
      /\ q.consent = p.consent /\ q.basis = p.basis
  BY DEF Carries
<1>8. p.seed <= policySeed + 1
  BY DEF PlanInv
<1>5. q.seed <= policySeed' + 1
  BY <1>1, <1>2, <1>3, <1>4, <1>8
<1>6. Spent(q)'
  <2>1. SUFFICES ASSUME q.done
                 PROVE  /\ q.op # "none"
                        /\ q.op \in {"request", "claim"} => q.seed <= policySeed'
                        /\ q.op = "deposit" => q.basis < basis'
    BY DEF Spent
  <2>2. CASE p.done
    <3>1. /\ p.op # "none"
          /\ p.op \in {"request", "claim"} => p.seed <= policySeed
          /\ p.op = "deposit" => p.basis < basis
      BY <2>2 DEF PlanInv, Spent
    <3> QED BY <1>1, <1>2, <1>3, <1>4, <3>1
  <2>3. CASE ~p.done
    BY <1>4, <2>1, <2>3 DEF Carries
  <2> QED BY <2>2, <2>3
<1>7. Fit(q)'
  <2>1. SUFFICES ASSUME q.op = "claim", q.seed = policySeed' + 1
                 PROVE  /\ q.consent # 0 /\ receipt'.lp > 0 /\ receipt'.ours => q.consent = receipt'.from
                        /\ ~q.given => asset' + q.floor <= q.pay
    BY DEF Fit
  <2>a. p.seed = policySeed' + 1
    BY <1>4, <2>1
  <2>b. \A a, b, c \in Nat : c <= a + 1 /\ c = b + 1 => b # a + 1
    OBVIOUS
  <2>2. policySeed' # policySeed + 1
    BY <1>1, <1>2, <1>8, <2>a, <2>b
  <2>3. policySeed' = policySeed
    BY <1>3, <2>2
  <2>4. /\ p.consent # 0 /\ receipt.lp > 0 /\ receipt.ours => p.consent = receipt.from
        /\ ~p.given => asset + p.floor <= p.pay
    BY <1>4, <2>1, <2>3 DEF PlanInv, Fit
  <2>5. receipt' = receipt \/ receipt'.lp = 0 \/ ~receipt'.ours
    BY <2>2 DEF Advance
  <2>6. q.consent # 0 /\ receipt'.lp > 0 /\ receipt'.ours => q.consent = receipt'.from
    BY <1>2, <1>4, <2>4, <2>5
  <2>7. ~q.given => asset' <= asset /\ ~p.given
    BY <1>4, <2>1, <2>2 DEF Carries
  <2>8. ~q.given => asset' + q.floor <= q.pay
    BY <1>1, <1>2, <1>4, <2>4, <2>7
  <2> QED BY <2>6, <2>8
<1> QED BY <1>5, <1>6, <1>7 DEF PlanInv

\* So does one that is not marked, as long as no USDC arrives.
LEMMA CarrySame ==
  ASSUME NEW p \in Plans, policySeed' = policySeed + 1 \/ asset' <= asset \/ p.op # "claim"
  PROVE  Carries(p, p)
BY DEF Carries

\* A device whose approval and seed stay, or are dropped, keeps its invariant.
LEMMA CarryDevice ==
  ASSUME TypeOK, TypeOK', NEW d \in Devices, DeviceInv(d), Advance,
         \/ consent'[d].seed = consent[d].seed /\ consent'[d].from = consent[d].from
         \/ consent'[d] = NoConsent,
         seed'[d] = seed[d] \/ seed'[d] = 0
  PROVE  DeviceInv(d)'
<1>1. /\ seed[d] \in Nat /\ consent[d].seed \in Nat /\ consent[d].from \in Nat
      /\ policySeed \in Nat /\ policySeed' \in Nat /\ receipt'.lp \in Nat
  BY DEF TypeOK, Approvals, Receipts
<1>2. policySeed' = policySeed + 1 \/ policySeed' = policySeed
  BY DEF Advance
<1>3. NoConsent.seed = 0 /\ NoConsent.from = 0
  BY DEF NoConsent
<1>4. seed'[d] <= policySeed' /\ consent'[d].seed <= policySeed'
  BY <1>1, <1>2, <1>3 DEF DeviceInv
<1>5. ASSUME consent'[d].from # 0, consent'[d].seed = policySeed', receipt'.lp > 0, receipt'.ours
      PROVE  consent'[d].from = receipt'.from
  <2>1. consent'[d].seed = consent[d].seed /\ consent'[d].from = consent[d].from
    BY <1>3, <1>5
  <2>2. policySeed' # policySeed + 1
    BY <1>1, <1>5, <2>1 DEF DeviceInv
  <2>3. policySeed' = policySeed /\ receipt' = receipt
    BY <1>1, <1>5, <2>2 DEF Advance
  <2> QED BY <1>5, <2>1, <2>3 DEF DeviceInv
<1> QED BY <1>4, <1>5 DEF DeviceInv
-----------------------------------------------------------------------------
(* The invariant, action by action.                                        *)

\* USDC arrives from nowhere only in a claim, which moves the seed on.
NoGift == policySeed' = policySeed + 1 \/ asset' <= asset

\* The plans sent and prepared are those there were before.
LEMMA StepKeeps ==
  ASSUME Inv, TypeOK', Advance, NoGift,
         \A u \in network' : (\E t \in network : u.plan = t.plan) \/ (\E d \in Devices : u.plan = plan[d]),
         \A d \in Devices : plan'[d] = plan[d] \/ plan'[d] = NoPlan,
         \A d \in Devices : DeviceInv(d)'
  PROVE  Inv'
<1>1. ASSUME NEW p \in Plans, PlanInv(p) PROVE PlanInv(p)'
  <2>1. Carries(p, p)
    BY CarrySame DEF NoGift
  <2> QED BY <1>1, <2>1, CarryPlan DEF Inv
<1>2. ASSUME NEW d \in Devices PROVE plan[d] \in Plans /\ PlanInv(plan[d])
  BY DEF Inv, TypeOK
<1>3. ASSUME NEW t \in network PROVE t.plan \in Plans /\ PlanInv(t.plan)
  BY DEF Inv, TypeOK
<1>4. ASSUME NEW u \in network' PROVE PlanInv(u.plan)'
  <2>1. CASE \E t \in network : u.plan = t.plan
    <3>1. PICK t \in network : u.plan = t.plan
      BY <2>1
    <3>2. PlanInv(t.plan)' /\ t.plan \in Plans
      BY <1>1, <1>3
    <3>3. PICK p \in Plans : p = t.plan
      BY <3>2
    <3>4. PlanInv(p)
      BY <1>3, <3>3
    <3>5. PlanInv(p)'
      BY <1>1, <3>4
    <3> QED BY <3>1, <3>3, <3>5 DEF PlanInv, Spent, Fit
  <2>2. CASE \E d \in Devices : u.plan = plan[d]
    <3>1. PICK d \in Devices : u.plan = plan[d]
      BY <2>2
    <3>2. PICK p \in Plans : p = plan[d]
      BY <1>2
    <3>3. PlanInv(p)
      BY <1>2, <3>2
    <3>4. PlanInv(p)'
      BY <1>1, <3>3
    <3> QED BY <3>1, <3>2, <3>4 DEF PlanInv, Spent, Fit
  <2> QED BY <2>1, <2>2
<1>5. ASSUME NEW d \in Devices PROVE PlanInv(plan[d])'
  <2>1. CASE plan'[d] = NoPlan
    <3>1. policySeed \in Nat
      BY DEF Inv, TypeOK
    <3>2. PlanInv(NoPlan)'
      BY <1>1, <3>1, NothingTyped, NothingFits
    <3> QED BY <2>1, <3>2 DEF PlanInv, Spent, Fit
  <2>2. CASE plan'[d] = plan[d]
    <3>2. PICK p \in Plans : p = plan[d]
      BY <1>2
    <3>3. PlanInv(p)
      BY <1>2, <3>2
    <3>4. PlanInv(p)'
      BY <1>1, <3>3
    <3> QED BY <2>2, <3>2, <3>4 DEF PlanInv, Spent, Fit
  <2> QED BY <2>1, <2>2
<1> QED BY <1>4, <1>5 DEF Inv
\* A step that leaves the chain alone.
LEMMA ChainKept == TypeOK /\ UNCHANGED chain => Advance /\ NoGift
BY DEF TypeOK, chain, Advance, NoGift

\* Approvals and seeds stay, or are dropped.
Dropped ==
  \A d \in Devices :
    /\ \/ consent'[d].seed = consent[d].seed /\ consent'[d].from = consent[d].from
       \/ consent'[d] = NoConsent
    /\ seed'[d] = seed[d] \/ seed'[d] = 0

LEMMA DevicesKeep == Inv /\ TypeOK' /\ Advance /\ Dropped => \A d \in Devices : DeviceInv(d)'
BY CarryDevice DEF Inv, Dropped

\* A device that asks anew has an approval of the receipt as it is.
LEMMA AskKeeps ==
  ASSUME Inv, TypeOK', NEW d \in Devices, NEW w, Ask(d, w)
  PROVE  Inv'
<1>1. PICK c \in Consents \cup {NoConsent} : consent' = [consent EXCEPT ![d] = c]
  BY DEF Ask
<1>2. /\ UNCHANGED <<chain, network, seed>> /\ plan' = [plan EXCEPT ![d] = NoPlan]
      /\ plan \in [Devices -> Plans] /\ consent \in [Devices -> Approvals]
  BY DEF Ask, Inv, TypeOK
<1>3. Advance /\ NoGift
  BY <1>2, ChainKept DEF Inv
<1>4. ASSUME NEW e \in Devices, e # d PROVE DeviceInv(e)'
  BY <1>1, <1>2, <1>3, <1>4, CarryDevice DEF Inv
<1>5. DeviceInv(d)'
  <2>1. consent'[d] = c
    BY <1>1, <1>2
  <2>2. seed'[d] <= policySeed' /\ receipt' = receipt /\ policySeed' = policySeed /\ policySeed \in Nat
    BY <1>2 DEF Inv, DeviceInv, chain, TypeOK
  <2>3. CASE c = NoConsent
    BY <2>1, <2>2, <2>3 DEF DeviceInv, NoConsent
  <2>4. CASE c # NoConsent
    <3>1. c.seed = policySeed /\ c.from = receipt.from
      BY <1>1, <2>4 DEF Consents
    <3> QED BY <2>1, <2>2, <3>1 DEF DeviceInv
  <2> QED BY <2>3, <2>4
<1>6. \A e \in Devices : DeviceInv(e)'
  BY <1>4, <1>5
<1>7. \A e \in Devices : plan'[e] = plan[e] \/ plan'[e] = NoPlan
  BY <1>2
<1>8. \A u \in network' : \E t \in network : u.plan = t.plan
  BY <1>2
<1> QED BY <1>3, <1>6, <1>7, <1>8, StepKeeps

\* The seed read is the present one.
LEMMA ReadKeeps ==
  ASSUME Inv, TypeOK', NEW d \in Devices, ReadSettings(d)
  PROVE  Inv'
<1>2. /\ UNCHANGED <<chain, network, consent, plan>> /\ seed' = [seed EXCEPT ![d] = policySeed]
      /\ seed \in [Devices -> Nat] /\ policySeed \in Nat
  BY DEF ReadSettings, Inv, TypeOK
<1>3. Advance /\ NoGift
  BY <1>2, ChainKept DEF Inv
<1>4. ASSUME NEW e \in Devices PROVE DeviceInv(e)'
  <2>1. DeviceInv(e)
    BY DEF Inv
  <2>2. seed'[e] <= policySeed
    <3>1. CASE e = d
      BY <1>2, <3>1
    <3>2. CASE e # d
      BY <1>2, <2>1, <3>2 DEF DeviceInv
    <3> QED BY <3>1, <3>2
  <2> QED BY <1>2, <2>1, <2>2 DEF DeviceInv, chain
<1> QED BY <1>2, <1>3, <1>4, StepKeeps

\* What a device does when it gives up.
LEMMA DropKeeps ==
  ASSUME Inv, TypeOK', NEW d \in Devices, Leave(d) \/ Throw(d), UNCHANGED <<chain, network>>
  PROVE  Inv'
<1>1. Advance /\ NoGift
  BY ChainKept DEF Inv
<1>2. plan \in [Devices -> Plans] /\ consent \in [Devices -> Approvals] /\ seed \in [Devices -> Nat]
  BY DEF Inv, TypeOK
<1>3. Dropped
  BY <1>2 DEF Leave, Throw, Dropped
<1>4. \A e \in Devices : plan'[e] = plan[e] \/ plan'[e] = NoPlan
  BY <1>2 DEF Leave, Throw
<1>5. \A e \in Devices : DeviceInv(e)'
  BY <1>1, <1>3, DevicesKeep
<1> QED BY <1>1, <1>4, <1>5, StepKeeps

\* A plan that satisfies the plan invariant is prepared.
LEMMA PreparedKeeps ==
  ASSUME Inv, TypeOK', NEW d \in Devices, NEW p \in Plans, PlanInv(p), Prepared(d, p),
         UNCHANGED <<chain, network>>
  PROVE  Inv'
<1>1. UNCHANGED <<consent, seed>> /\ plan' = [plan EXCEPT ![d] = p] /\ plan \in [Devices -> Plans]
  BY DEF Prepared, Inv, TypeOK
<1>2. ASSUME NEW e \in Devices PROVE PlanInv(plan[e])' /\ DeviceInv(e)'
  <2>1. PlanInv(plan[e]) /\ DeviceInv(e)
    BY DEF Inv
  <2>2. DeviceInv(e)'
    BY <1>1, <2>1 DEF DeviceInv, chain
  <2>3. PlanInv(plan'[e])
    BY <1>1, <2>1
  <2> QED BY <2>2, <2>3 DEF PlanInv, Spent, Fit, chain
<1>3. \A t \in network' : PlanInv(t.plan)'
  BY DEF Inv, PlanInv, Spent, Fit, chain
<1> QED BY <1>2, <1>3 DEF Inv
\* Each operation is built to satisfy the plan invariant.
LEMMA BuildKeeps ==
  ASSUME Inv, TypeOK', NEW d \in Devices, Build(d)
  PROVE  Inv'
<1>0. UNCHANGED <<chain, network>>
  BY DEF Build, BuildDeposit, BuildRequest, BuildClaim, BuildRecover
<1>1. CASE Leave(d) \/ Throw(d)
  BY <1>0, <1>1, DropKeeps
<1>2. policySeed \in Nat /\ seed[d] \in Nat /\ seed[d] <= policySeed /\ asset \in Nat
  BY DEF Inv, DeviceInv, TypeOK
<1>3. CASE BuildDeposit(d) /\ ~Leave(d)
  <2> DEFINE p == [NoPlan EXCEPT !.op = "deposit", !.amount = work[d].amount,
                                 !.lp = work[d].amount \div price, !.basis = basis, !.base = lp]
  <2>1. Prepared(d, p)
    BY <1>3 DEF BuildDeposit
  <2>2. plan'[d] = p /\ plan'[d] \in Plans
    BY <2>1 DEF Prepared, Inv, TypeOK
  <2>3. p.op = "deposit" /\ p.seed = 0 /\ p.done = FALSE
    BY DEF NoPlan
  <2>4. PlanInv(p)
    <3> HIDE DEF p
    <3> QED BY <1>2, <2>3 DEF PlanInv, Spent, Fit
  <2> QED BY <1>0, <2>1, <2>2, <2>4, PreparedKeeps
<1>4. CASE BuildRequest(d) /\ ~Leave(d)
  <2> DEFINE p == Fenced(d, [NoPlan EXCEPT !.op = "request", !.lp = LpAsked(d),
                                           !.all = work[d].amount = 0])
  <2>1. Prepared(d, p)
    BY <1>4 DEF BuildRequest
  <2>2. plan'[d] = p /\ plan'[d] \in Plans
    BY <2>1 DEF Prepared, Inv, TypeOK
  <2>3. p.op = "request" /\ p.seed = seed[d] + 1 /\ p.done = FALSE
    BY DEF NoPlan, Fenced
  <2>4. PlanInv(p)
    <3> HIDE DEF p
    <3> QED BY <1>2, <2>3 DEF PlanInv, Spent, Fit
  <2> QED BY <1>0, <2>1, <2>2, <2>4, PreparedKeeps
<1>5. CASE BuildClaim(d) /\ ~Leave(d) /\ ~Throw(d)
  <2> DEFINE p == Fenced(d, [NoPlan EXCEPT !.op = "claim", !.pin = Bytes(receipt),
                                           !.pay = BaselineAndFloor(d), !.floor = Floor(d),
                                           !.consent = consent[d].from])
  <2>1. Prepared(d, p) /\ ConsentFits(d)
    BY <1>5 DEF BuildClaim
  <2>2. plan'[d] = p /\ plan'[d] \in Plans
    BY <2>1 DEF Prepared, Inv, TypeOK
  <2>3. /\ p.op = "claim" /\ p.seed = seed[d] + 1 /\ p.done = FALSE
        /\ p.pay = asset + Floor(d) /\ p.floor = Floor(d) /\ p.consent = consent[d].from
    BY DEF NoPlan, Fenced, BaselineAndFloor
  <2>4. p.floor \in Nat
    BY <2>2 DEF Plans
  <2>5. ASSUME p.seed = policySeed + 1, p.consent # 0, receipt.lp > 0, receipt.ours
        PROVE  p.consent = receipt.from
    <3>1. seed[d] = policySeed
      <4>1. \A a, b \in Nat : a + 1 = b + 1 => a = b
        OBVIOUS
      <4> HIDE DEF p
      <4> QED BY <1>2, <2>3, <2>5, <4>1
    <3>2. consent[d].from # 0
      BY <2>3, <2>5
    <3>3. consent[d] # NoConsent
      BY <3>2 DEF NoConsent
    <3>4. consent[d].seed = policySeed
      BY <2>1, <3>1, <3>3 DEF ConsentFits, Consented
    <3>5. consent[d].from = receipt.from
      BY <2>5, <3>2, <3>4 DEF Inv, DeviceInv
    <3> QED BY <2>3, <3>5
  <2>6. asset + p.floor <= p.pay
    <3>1. p.pay = asset + p.floor
      BY <2>3
    <3> HIDE DEF p
    <3> QED BY <1>2, <2>4, <3>1
  <2>7. Fit(p)
    BY <2>5, <2>6 DEF Fit
  <2>8. p.seed <= policySeed + 1
    <3> HIDE DEF p
    <3> QED BY <1>2, <2>3
  <2>9. PlanInv(p)
    BY <2>3, <2>7, <2>8 DEF PlanInv, Spent
  <2> QED BY <1>0, <2>1, <2>2, <2>9, PreparedKeeps
<1>6. CASE BuildRecover(d) /\ ~Leave(d)
  <2> DEFINE p == [NoPlan EXCEPT !.op = "recover", !.pay = asset]
  <2>1. Prepared(d, p)
    BY <1>6 DEF BuildRecover
  <2>2. plan'[d] = p /\ plan'[d] \in Plans
    BY <2>1 DEF Prepared, Inv, TypeOK
  <2>3. p.op = "recover" /\ p.seed = 0 /\ p.done = FALSE
    BY DEF NoPlan
  <2>4. PlanInv(p)
    <3> HIDE DEF p
    <3> QED BY <1>2, <2>3 DEF PlanInv, Spent, Fit
  <2> QED BY <1>0, <2>1, <2>2, <2>4, PreparedKeeps
<1> QED BY <1>1, <1>3, <1>4, <1>5, <1>6 DEF Build

\* Sending puts the device's plan into the network; a lost answer changes no plan.
LEMMA SendKeeps ==
  ASSUME Inv, TypeOK', NEW d \in Devices,
         Send(d) \/ Resend(d) \/ Held(d) \/ AnswerLost(d)
  PROVE  Inv'
<1>1. UNCHANGED chain
  BY DEF Send, Resend, Held, AnswerLost
<1>2. Advance /\ NoGift
  BY <1>1, ChainKept DEF Inv
<1>3. UNCHANGED <<consent, seed, plan>>
  BY DEF Send, Resend, Held, AnswerLost, Throw
<1>4. \A e \in Devices : DeviceInv(e)'
  BY <1>2, <1>3, DevicesKeep DEF Dropped
<1>5. \A u \in network' : (\E t \in network : u.plan = t.plan) \/ u.plan = plan[d]
  <2>1. CASE Sent(d)
    BY <2>1 DEF Sent
  <2>2. CASE UNCHANGED network
    BY <2>2
  <2>3. CASE AnswerLost(d)
    <3> SUFFICES ASSUME NEW u \in network' PROVE \E t \in network : u.plan = t.plan
      OBVIOUS
    <3>1. PICK t \in network : u = IF t.by = d THEN [t EXCEPT !.late = TRUE] ELSE t
      BY <2>3 DEF AnswerLost
    <3>2. t \in Transactions
      BY DEF Inv, TypeOK, Transactions
    <3>3. u.plan = t.plan
      BY <3>1, <3>2 DEF Transactions
    <3> QED BY <3>3
  <2> QED BY <2>1, <2>2, <2>3 DEF Send, Resend, Held
<1> QED BY <1>2, <1>3, <1>4, <1>5, StepKeeps
\* Plans that were marked, perhaps, carry the invariant on.
LEMMA MarkKeeps ==
  ASSUME Inv, TypeOK', Advance,
         \A u \in network' : \E t \in network : Carries(t.plan, u.plan),
         \A d \in Devices : plan'[d] = NoPlan \/ Carries(plan[d], plan'[d]),
         \A d \in Devices : DeviceInv(d)'
  PROVE  Inv'
<1>0. TypeOK /\ policySeed \in Nat
  BY DEF Inv, TypeOK
<1>9. policySeed' \in Nat
  BY DEF TypeOK
<1>10. \A n \in Nat : 0 <= n + 1
  OBVIOUS
<1>1. ASSUME NEW u \in network' PROVE PlanInv(u.plan)'
  <2>1. PICK t \in network : Carries(t.plan, u.plan)
    OBVIOUS
  <2>2. PICK p \in Plans : p = t.plan
    BY DEF Inv, TypeOK
  <2>3. PICK q \in Plans : q = u.plan
    BY DEF TypeOK
  <2>4. PlanInv(p) /\ Carries(p, q)
    BY <2>1, <2>2, <2>3 DEF Inv
  <2>5. PlanInv(q)'
    BY <1>0, <2>4, CarryPlan
  <2> QED BY <2>3, <2>5 DEF PlanInv, Spent, Fit
<1>2. ASSUME NEW d \in Devices PROVE PlanInv(plan[d])'
  <2>1. CASE plan'[d] = NoPlan
    <3>1. PlanInv(NoPlan)
      BY <1>0, NothingFits
    <3>3. NoPlan.seed <= policySeed' + 1
      BY <1>9, <1>10, NothingTyped, Zenon
    <3>4. PlanInv(NoPlan)'
      BY <3>3, NothingTyped DEF PlanInv, Spent, Fit
    <3> QED BY <2>1, <3>4 DEF PlanInv, Spent, Fit
  <2>2. CASE Carries(plan[d], plan'[d])
    <3>1. PICK p \in Plans : p = plan[d]
      BY DEF Inv, TypeOK
    <3>2. PICK q \in Plans : q = plan'[d]
      BY DEF TypeOK
    <3>3. PlanInv(p) /\ Carries(p, q)
      BY <2>2, <3>1, <3>2 DEF Inv
    <3>4. PlanInv(q)'
      BY <1>0, <3>3, CarryPlan
    <3> QED BY <3>2, <3>4 DEF PlanInv, Spent, Fit
  <2> QED BY <2>1, <2>2
<1> QED BY <1>1, <1>2 DEF Inv

\* What the landing of t does to the seed and the basis it is held to.
Spends(p) ==
  /\ p.op # "none"
  /\ p.op \in {"request", "claim"} => p.seed <= policySeed'
  /\ p.op = "deposit" => p.basis < basis'

\* The answer to a transaction marks what equals it, if it landed.
LEMMA AnswerKeeps ==
  ASSUME Inv, TypeOK', NEW t \in network, NEW landed \in BOOLEAN, Answer(t, landed),
         Advance, NoGift, landed => Spends(t.plan)
  PROVE  Inv'
<1> DEFINE mark(p) == IF landed /\ p = t.plan THEN [p EXCEPT !.done = TRUE] ELSE p
<1>1. ASSUME NEW p \in Plans PROVE Carries(p, mark(p))
  <2>1. CASE landed /\ p = t.plan
    <3>1. mark(p) = [p EXCEPT !.done = TRUE]
      BY <2>1
    <3>2. /\ mark(p).op = p.op /\ mark(p).seed = p.seed /\ mark(p).pay = p.pay
          /\ mark(p).floor = p.floor /\ mark(p).consent = p.consent /\ mark(p).basis = p.basis
          /\ mark(p).given = p.given
      BY <3>1 DEF Plans
    <3>3. Spends(p)
      BY <2>1
    <3> HIDE DEF mark
    <3> QED BY <3>2, <3>3 DEF Carries, NoGift, Spends
  <2>2. CASE ~(landed /\ p = t.plan)
    <3>1. mark(p) = p
      BY <2>2
    <3>2. Carries(p, p)
      BY CarrySame DEF NoGift
    <3> QED BY <3>1, <3>2
  <2> QED BY <2>1, <2>2
<1>2. network' = {[u EXCEPT !.plan = mark(u.plan)] : u \in network \ {t}}
  BY DEF Answer
<1>3. ASSUME NEW u \in network' PROVE \E v \in network : Carries(v.plan, u.plan)
  <2>1. PICK v \in network : u = [v EXCEPT !.plan = mark(v.plan)]
    BY <1>2
  <2>2. v \in Transactions /\ v.plan \in Plans
    BY DEF Inv, TypeOK, Transactions
  <2>3. u.plan = mark(v.plan)
    <3> HIDE DEF mark
    <3> QED BY <2>1, <2>2 DEF Transactions
  <2>4. Carries(v.plan, mark(v.plan))
    BY <1>1, <2>2
  <2> QED BY <2>3, <2>4
<1>4. ASSUME NEW d \in Devices PROVE plan'[d] = NoPlan \/ Carries(plan[d], plan'[d])
  <2>1. plan'[d] = NoPlan \/ plan'[d] = mark(plan[d])
    BY DEF Answer
  <2>2. plan[d] \in Plans
    BY DEF Inv, TypeOK
  <2>3. Carries(plan[d], mark(plan[d]))
    BY <1>1, <2>2
  <2> QED BY <2>1, <2>3
<1>5. Dropped
  <2>1. consent \in [Devices -> Approvals] /\ seed \in [Devices -> Nat]
    BY DEF Inv, TypeOK
  <2>2. \/ UNCHANGED <<consent, seed>>
        \/ consent' = [consent EXCEPT ![t.by] = NoConsent] /\ seed' = [seed EXCEPT ![t.by] = 0]
    BY DEF Answer
  <2> QED BY <2>1, <2>2 DEF Dropped
<1>6. \A d \in Devices : DeviceInv(d)'
  BY <1>5, DevicesKeep
<1> QED BY <1>3, <1>4, <1>6, MarkKeeps

\* A transaction that lands uses up its fence or its basis; one that fails changes
\* nothing.
LEMMA SettleKeeps ==
  ASSUME Inv, TypeOK', NEW t \in network, Settle(t)
  PROVE  Inv'
<1>1. t.plan \in Plans /\ TypeOK
  BY DEF Inv, TypeOK
<1>2. /\ t.plan.seed \in Nat /\ t.plan.pay \in Nat /\ t.plan.basis \in Nat
      /\ policySeed \in Nat /\ asset \in Nat /\ basis \in Nat
  BY <1>1, PlanNumbers
<1>3. CASE LandDeposit(t)
  <2>1. Answer(t, TRUE) /\ t.plan.op = "deposit" /\ Accepts(t.plan) /\ basis' = basis + 1
        /\ UNCHANGED <<asset, receipt, policySeed>>
    BY <1>3 DEF LandDeposit
  <2>2. DepositCertified(t.plan)
    BY <2>1 DEF Accepts
  <2>3. Advance
    BY <1>2, <2>1 DEF Advance
  <2>4. NoGift
    BY <1>2, <2>1 DEF NoGift
  <2>5. t.plan.basis < basis'
    BY <1>2, <2>1, <2>2 DEF DepositCertified
  <2>6. Spends(t.plan)
    BY <2>1, <2>5 DEF Spends
  <2> QED BY <2>1, <2>3, <2>4, <2>6, AnswerKeeps
<1>4. CASE LandRequest(t)
  <2>1. /\ Answer(t, TRUE) /\ t.plan.op = "request" /\ Accepts(t.plan)
        /\ policySeed' = policySeed + 1 /\ UNCHANGED <<asset, basis>>
    BY <1>4 DEF LandRequest
  <2>2. t.plan.seed = policySeed + 1
    BY <2>1 DEF Accepts, FenceHolds
  <2>3. Advance /\ NoGift
    BY <1>2, <2>1 DEF Advance, NoGift
  <2>4. t.plan.seed <= policySeed'
    BY <1>2, <2>1, <2>2
  <2>5. Spends(t.plan)
    BY <2>1, <2>4 DEF Spends
  <2> QED BY <2>1, <2>3, <2>5, AnswerKeeps
<1>5. CASE LandClaim(t)
  <2>1. /\ Answer(t, TRUE) /\ t.plan.op = "claim" /\ Accepts(t.plan)
        /\ policySeed' = policySeed + 1 /\ basis' = basis + 1
    BY <1>5 DEF LandClaim
  <2>2. t.plan.seed = policySeed + 1
    BY <2>1 DEF Accepts, FenceHolds
  <2>3. Advance /\ NoGift
    BY <1>2, <2>1 DEF Advance, NoGift
  <2>4. t.plan.seed <= policySeed'
    BY <1>2, <2>1, <2>2
  <2>5. Spends(t.plan)
    BY <2>1, <2>4 DEF Spends
  <2> QED BY <2>1, <2>3, <2>5, AnswerKeeps
<1>6. CASE LandRecover(t)
  <2>1. /\ Answer(t, TRUE) /\ t.plan.op = "recover" /\ asset' = asset - t.plan.pay
        /\ UNCHANGED <<receipt, policySeed, basis>>
    BY <1>6 DEF LandRecover
  <2>2. asset' <= asset /\ basis' >= basis
    BY <1>2, <2>1
  <2>3. Advance /\ NoGift
    BY <2>1, <2>2 DEF Advance, NoGift
  <2>4. Spends(t.plan)
    BY <2>1 DEF Spends
  <2> QED BY <2>1, <2>3, <2>4, AnswerKeeps
<1>7. CASE Fails(t)
  <2>1. Answer(t, FALSE) /\ UNCHANGED chain
    BY <1>7 DEF Fails
  <2>2. Advance /\ NoGift
    BY <1>1, <2>1, ChainKept
  <2> QED BY <2>1, <2>2, AnswerKeeps
<1> QED BY <1>3, <1>4, <1>5, <1>6, <1>7 DEF Settle
\* USDC that is given is written down in every claim there is.
LEMMA GivenKeeps ==
  ASSUME Inv, TypeOK', Advance, Given, UNCHANGED <<consent, seed>>
  PROVE  Inv'
<1> DEFINE mark(p) == IF p.op = "claim" THEN [p EXCEPT !.given = TRUE] ELSE p
<1>1. ASSUME NEW p \in Plans PROVE Carries(p, mark(p))
  <2>1. CASE p.op = "claim"
    <3>1. mark(p) = [p EXCEPT !.given = TRUE]
      BY <2>1
    <3>2. /\ mark(p).op = p.op /\ mark(p).seed = p.seed /\ mark(p).pay = p.pay
          /\ mark(p).floor = p.floor /\ mark(p).consent = p.consent /\ mark(p).basis = p.basis
          /\ mark(p).done = p.done /\ mark(p).given
      BY <3>1 DEF Plans
    <3> HIDE DEF mark
    <3> QED BY <3>2 DEF Carries
  <2>2. CASE p.op # "claim"
    <3>1. mark(p) = p
      BY <2>2
    <3>2. Carries(p, p)
      BY <2>2, CarrySame
    <3> QED BY <3>1, <3>2
  <2> QED BY <2>1, <2>2
<1>2. /\ network' = {[u EXCEPT !.plan = mark(u.plan)] : u \in network}
      /\ plan' = [d \in Devices |-> mark(plan[d])]
  BY DEF Given
<1>3. ASSUME NEW u \in network' PROVE \E v \in network : Carries(v.plan, u.plan)
  <2>1. PICK v \in network : u = [v EXCEPT !.plan = mark(v.plan)]
    BY <1>2
  <2>2. v \in Transactions /\ v.plan \in Plans
    BY DEF Inv, TypeOK, Transactions
  <2>3. u.plan = mark(v.plan)
    <3> HIDE DEF mark
    <3> QED BY <2>1, <2>2 DEF Transactions
  <2>4. Carries(v.plan, mark(v.plan))
    BY <1>1, <2>2
  <2> QED BY <2>3, <2>4
<1>4. ASSUME NEW d \in Devices PROVE Carries(plan[d], plan'[d])
  <2>1. plan'[d] = mark(plan[d]) /\ plan[d] \in Plans
    BY <1>2 DEF Inv, TypeOK
  <2>2. Carries(plan[d], mark(plan[d]))
    BY <1>1, <2>1
  <2> QED BY <2>1, <2>2
<1>5. \A d \in Devices : DeviceInv(d)'
  BY DevicesKeep DEF Dropped
<1> QED BY <1>3, <1>4, <1>5, MarkKeeps

\* What the others do: no receipt of theirs is ours.
LEMMA OthersKeep ==
  ASSUME Inv, TypeOK',
         \/ Mature \/ (\E p \in 1 .. MaxPrice : Reprice(p)) \/ Drain \/ Replenish
         \/ Donate \/ CreatePolicy \/ OutsideClaim \/ OutsideRequest
  PROVE  Inv'
<1>1. /\ policySeed \in Nat /\ asset \in Nat /\ basis \in Nat
  BY DEF Inv, TypeOK
<1>2. NoReceipt.lp = 0
  BY DEF NoReceipt
<1>3. CASE Donate \/ OutsideClaim
  <2>1. Given /\ UNCHANGED <<consent, seed, policySeed>>
    BY <1>3 DEF Donate, OutsideClaim
  <2>2. basis' >= basis
    BY <1>1, <1>3 DEF Donate, OutsideClaim
  <2>3. receipt' = receipt \/ receipt'.lp = 0
    BY <1>2, <1>3 DEF Donate, OutsideClaim
  <2>4. Advance
    BY <2>1, <2>2, <2>3 DEF Advance
  <2> QED BY <2>1, <2>4, GivenKeeps
<1>4. CASE \/ Mature \/ (\E p \in 1 .. MaxPrice : Reprice(p)) \/ Drain \/ Replenish
           \/ CreatePolicy \/ OutsideRequest
  <2>1. UNCHANGED <<network, plan, consent, seed, asset>>
    BY <1>4 DEF Mature, Reprice, Drain, Replenish, CreatePolicy, OutsideRequest, device
  <2>2. basis' >= basis
    BY <1>1, <1>4 DEF Mature, Reprice, Drain, Replenish, CreatePolicy, OutsideRequest
  <2>3. \/ policySeed' = policySeed + 1
        \/ policySeed' = policySeed /\ (receipt' = receipt \/ ~receipt'.ours)
    BY <1>4 DEF Mature, Reprice, Drain, Replenish, CreatePolicy, OutsideRequest
  <2>4. Advance
    BY <2>2, <2>3 DEF Advance
  <2>5. NoGift
    BY <1>1, <2>1 DEF NoGift
  <2>6. \A d \in Devices : DeviceInv(d)'
    BY <2>1, <2>4, DevicesKeep DEF Dropped
  <2> QED BY <2>1, <2>4, <2>5, <2>6, StepKeeps
<1> QED BY <1>3, <1>4

\* Late transactions vanish; approvals expire.
LEMMA EndKeeps ==
  ASSUME Inv, TypeOK',
         (\E t \in network : Expires(t)) \/ (\E d \in Devices : ConsentExpires(d)) \/ UNCHANGED vars
  PROVE  Inv'
<1>1. UNCHANGED chain /\ UNCHANGED <<seed, plan>> /\ network' \subseteq network
  BY DEF Expires, ConsentExpires, device, vars, chain
<1>2. Advance /\ NoGift
  BY <1>1, ChainKept DEF Inv
<1>3. ASSUME NEW e \in Devices
      PROVE  consent'[e].seed = consent[e].seed /\ consent'[e].from = consent[e].from
  <2>1. CASE UNCHANGED consent
    BY <2>1
  <2>2. CASE \E d \in Devices : ConsentExpires(d)
    <3>1. PICK d \in Devices : consent' = [consent EXCEPT ![d].expired = TRUE]
      BY <2>2 DEF ConsentExpires
    <3>2. consent \in [Devices -> Approvals]
      BY DEF Inv, TypeOK
    <3> QED BY <3>1, <3>2 DEF Approvals
  <2> QED BY <2>1, <2>2 DEF Expires, device, vars
<1>4. \A d \in Devices : DeviceInv(d)'
  BY <1>1, <1>2, <1>3, DevicesKeep DEF Dropped
<1> QED BY <1>1, <1>2, <1>4, StepKeeps

\* Every step of the specification keeps the invariant.
LEMMA InvStep == Inv /\ [Next]_vars => Inv'
<1> SUFFICES ASSUME Inv, [Next]_vars PROVE Inv'
  OBVIOUS
<1>0. TypeOK'
  BY TypeStep DEF Inv
<1>1. ASSUME NEW d \in Devices, Begin(d) PROVE Inv'
  <2>1. PICK w : Ask(d, w)
    BY <1>1 DEF Begin
  <2> QED BY <1>0, <2>1, AskKeeps
<1>2. ASSUME NEW d \in Devices, DeviceStep(d) PROVE Inv'
  <2>1. CASE PrepareAgain(d)
    BY <1>0, <2>1, AskKeeps DEF PrepareAgain
  <2> QED BY <1>0, <1>2, <2>1, ReadKeeps, BuildKeeps, SendKeeps DEF DeviceStep
<1>3. ASSUME NEW d \in Devices, Held(d) \/ AnswerLost(d) PROVE Inv'
  BY <1>0, <1>3, SendKeeps
<1>4. ASSUME NEW d \in Devices, ConsentExpires(d) PROVE Inv'
  BY <1>0, <1>4, EndKeeps
<1>5. ASSUME NEW t \in network, Settle(t) PROVE Inv'
  BY <1>0, <1>5, SettleKeeps
<1>6. ASSUME NEW t \in network, Expires(t) PROVE Inv'
  BY <1>0, <1>6, EndKeeps
<1>7. CASE \/ Mature \/ (\E p \in 1 .. MaxPrice : Reprice(p)) \/ Drain \/ Replenish
           \/ Donate \/ CreatePolicy \/ OutsideClaim \/ OutsideRequest
  BY <1>0, <1>7, OthersKeep
<1>8. CASE UNCHANGED vars
  BY <1>0, <1>8, EndKeeps
<1> QED BY <1>1, <1>2, <1>3, <1>4, <1>5, <1>6, <1>7, <1>8 DEF Next

\* It holds at first.
LEMMA InvInit == Init => Inv
<1> SUFFICES ASSUME Init PROVE Inv
  OBVIOUS
<1>1. TypeOK
  BY TypeInit
<1>2. policySeed = 0 /\ network = {} /\ \A d \in Devices : plan[d] = NoPlan
  BY DEF Init
<1>3. PlanInv(NoPlan)
  BY <1>2, NothingFits
<1>4. \A d \in Devices : DeviceInv(d)
  BY <1>2 DEF Init, DeviceInv, NoConsent
<1> QED BY <1>1, <1>2, <1>3, <1>4 DEF Inv

\* So it holds always.
LEMMA Invariance == Spec => []Inv
BY InvInit, InvStep, PTL DEF Spec
-----------------------------------------------------------------------------
\* A deposit, a request or a claim that has landed does not land again, whatever is
\* sent again after a lost answer and by whom: the seed of its fence is used up, and
\* so is the basis of a deposit (voltrWithdrawalFence, voltrDepositPlan).
THEOREM OnceOnly == Spec => []TakesEffectOnce
<1>1. Inv => TakesEffectOnce
  <2> SUFFICES ASSUME Inv, NEW t \in network, t.plan.done, t.plan.op # "recover", Accepts(t.plan)
               PROVE  FALSE
    BY DEF TakesEffectOnce
  <2>1. t.plan \in Plans /\ PlanInv(t.plan) /\ TypeOK
    BY DEF Inv, TypeOK
  <2>2. t.plan.seed \in Nat /\ t.plan.basis \in Nat /\ policySeed \in Nat /\ basis \in Nat
    BY <2>1, PlanNumbers
  <2>3. CASE t.plan.op = "deposit"
    <3>1. t.plan.basis < basis
      BY <2>1, <2>3 DEF PlanInv, Spent
    <3>2. t.plan.basis = basis
      BY <2>3 DEF Accepts, DepositCertified
    <3> QED BY <2>2, <3>1, <3>2
  <2>4. CASE t.plan.op \in {"request", "claim"}
    <3>1. t.plan.seed <= policySeed
      BY <2>1, <2>4 DEF PlanInv, Spent
    <3>2. t.plan.seed = policySeed + 1
      BY <2>4 DEF Accepts, FenceHolds
    <3> QED BY <2>2, <3>1, <3>2
  <2>5. t.plan.op # "none"
    BY <2>1 DEF PlanInv, Spent
  <2> QED BY <2>1, <2>3, <2>4, <2>5 DEF Plans
<1> QED BY <1>1, Invariance, PTL

\* What a landing claim has: the fence of the seed it was prepared at.
LEMMA ClaimFits ==
  ASSUME Inv, NEW t \in network, Claims(t)
  PROVE  /\ t.plan.consent # 0 /\ receipt.ours => t.plan.consent = receipt.from
         /\ ~t.plan.given => asset + t.plan.floor <= t.plan.pay
         /\ t.plan.pay <= asset + Payout
<1>1. t.plan.op = "claim" /\ Accepts(t.plan) /\ receipt.lp > 0
  BY DEF Claims, LandClaim
<1>2. t.plan.seed = policySeed + 1 /\ t.plan.pay <= asset + Payout
  BY <1>1 DEF Accepts, FenceHolds
<1> QED BY <1>1, <1>2 DEF Inv, PlanInv, Fit

\* A claim under an approved minimum consumes the receipt the owner approved: the
\* approval is of the seed the claim is fenced with, and a receipt of this client
\* that is opened or claimed moves that seed on (voltrClaimPlan).
THEOREM ApprovedOnly == Spec => ConsentedReceipt
<1>1. Inv => \A t \in network : Claims(t) /\ t.plan.consent # 0 /\ receipt.ours =>
                                  t.plan.consent = receipt.from
  BY ClaimFits
<1> QED BY <1>1, Invariance, PTL DEF ConsentedReceipt

\* The proceeds of a claim meet its floor at any later price, unless USDC was given
\* to the owner meanwhile: what was in the account moves with the floor, so that it
\* cannot stand in for proceeds (voltrClaimPlan).
THEOREM FloorMet == Spec => ProceedsMeetFloor
<1>1. ASSUME Inv, NEW t \in network, Claims(t), ~t.plan.given PROVE Payout >= t.plan.floor
  <2>1. TypeOK /\ t.plan \in Plans
    BY <1>1 DEF Inv, TypeOK
  <2>2. asset \in Nat /\ t.plan.floor \in Nat /\ t.plan.pay \in Nat
    BY <2>1, PlanNumbers
  <2>3. Payout \in Nat
    BY <2>1, PayoutNat
  <2>4. asset + t.plan.floor <= t.plan.pay /\ t.plan.pay <= asset + Payout
    BY <1>1, ClaimFits
  <2> QED BY <2>2, <2>3, <2>4
<1>2. Inv => \A t \in network : Claims(t) /\ ~t.plan.given => Payout >= t.plan.floor
  BY <1>1
<1> QED BY <1>2, Invariance, PTL DEF ProceedsMeetFloor
=============================================================================
