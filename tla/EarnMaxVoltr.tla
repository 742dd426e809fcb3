----------------------------- MODULE EarnMaxVoltr -----------------------------
(***************************************************************************)
(* Earn MAX: the owner's position in a Voltr vault, held by the smart      *)
(* account (packages/smart-account-vaults/src/voltr).                      *)
(*                                                                         *)
(* A deposit lands on the pricing basis a server certified or not at all.  *)
(* A withdrawal is requested, cools down and is claimed, perhaps under a   *)
(* minimum the owner approved.  Requests and claims carry a fence: they    *)
(* create and remove a policy at the next policy seed, so that of all that *)
(* is prepared at one seed a single transaction lands; a claim also pins   *)
(* the receipt it consumes.  Devices prepare and send concurrently, send   *)
(* again after a lost answer, and others change prices, seeds, balances.   *)
(***************************************************************************)
EXTENDS Integers, FiniteSets

CONSTANTS
  Devices,
  Amounts,      \* raw USDC of a deposit or a request; 0 stands for "max"
  Operations,   \* what the devices do
  MaxPrice,     \* bound: raw USDC per LP
  StartLp, StartAsset, \* LP and USDC of the position at the start
  MaxBegun,     \* bound: operations begun
  MaxEvents     \* bound: lost answers, expiries and what others do

ASSUME VoltrAssumption ==
  /\ Amounts \subseteq Nat /\ MaxPrice \in Nat \ {0}
  /\ StartLp \in Nat /\ StartAsset \in Nat
  /\ MaxBegun \in Nat /\ MaxEvents \in Nat
  /\ Operations \subseteq {"deposit", "request", "claim", "recover"}

VARIABLES
  lp, asset,    \* LP and USDC of the authority's token accounts
  receipt,      \* the one pending withdrawal
  ready,        \* its cooldown has passed
  opened,       \* receipts opened so far
  price, basis, \* USDC per LP, and the state of the vault a certificate pins
  liquid,       \* the vault's idle USDC covers a claim
  policySeed,   \* Settings.policySeed
  network,
  pc, work, consent, seed, plan, \* of each device
  begun, events

chain == <<lp, asset, receipt, ready, opened, price, basis, liquid, policySeed>>
device == <<pc, work, consent, seed, plan>>
vars == <<lp, asset, receipt, ready, opened, price, basis, liquid, policySeed, network,
          pc, work, consent, seed, plan, begun, events>>

Least(a, b) == IF a <= b THEN a ELSE b

\* ours: opened by this client, behind a fence.
NoReceipt == [lp |-> 0, quote |-> 0, from |-> 0, ours |-> TRUE]
NoConsent == [lp |-> 0, min |-> 0, seed |-> 0, from |-> 0, expired |-> FALSE]
NoWork == [op |-> "none", amount |-> 0]

\* A prepared operation; seed is the fence's.  done: it has landed before.
\* given: USDC has reached the token account since the position was read.
NoPlan ==
  [op |-> "none", seed |-> 0, lp |-> 0, all |-> FALSE, pin |-> <<0, 0, 0>>, pay |-> 0, floor |-> 0,
   amount |-> 0, basis |-> 0, base |-> 0, consent |-> 0, done |-> FALSE, given |-> FALSE]

\* Bytes 72 .. 104 of the receipt.
Bytes(r) == <<r.lp, r.quote, r.from>>

\* The program pays the lesser of the quote of the request and the present value.
Payout == Least(receipt.quote, receipt.lp * price)

Init ==
  /\ lp = StartLp /\ asset = StartAsset /\ price = 1 /\ basis = 0 /\ liquid = TRUE
  /\ \/ receipt = NoReceipt /\ opened = 0
     \/ receipt = [lp |-> 1, quote |-> 1, from |-> 1, ours |-> TRUE] /\ opened = 1
  /\ ready = FALSE /\ policySeed = 0
  /\ network = {} /\ begun = 0 /\ events = 0
  /\ pc = [d \in Devices |-> "idle"] /\ work = [d \in Devices |-> NoWork]
  /\ consent = [d \in Devices |-> NoConsent] /\ seed = [d \in Devices |-> 0]
  /\ plan = [d \in Devices |-> NoPlan]

Goto(d, where) == pc' = [pc EXCEPT ![d] = where]
Leave(d) ==
  /\ Goto(d, "idle") /\ work' = [work EXCEPT ![d] = NoWork]
  /\ consent' = [consent EXCEPT ![d] = NoConsent] /\ seed' = [seed EXCEPT ![d] = 0]
  /\ plan' = [plan EXCEPT ![d] = NoPlan]
Throw(d) == Goto(d, "failed") /\ UNCHANGED <<work, consent, seed, plan>>
-----------------------------------------------------------------------------
(* Preparing (prepareEarnMaxVoltr): Settings, then the position, then the  *)
(* checks; what is built holds until it is sent.                           *)

\* A minimum the owner approves for the receipt as it is now, or none: a public
\* claim needs no consent.
Consents ==
  {NoConsent} \cup
  (IF receipt.lp = 0 THEN {}
   ELSE {[lp |-> receipt.lp, min |-> m, seed |-> policySeed, from |-> receipt.from,
          expired |-> FALSE] : m \in {1, Payout} \ {0}})

\* Mutant: an approval once given is never asked for again.
AskKeepingConsent(d, w) ==
  /\ work' = [work EXCEPT ![d] = w]
  /\ \E c \in IF w.op = "claim" THEN Consents ELSE {NoConsent} :
       consent' = IF consent[d] = NoConsent THEN [consent EXCEPT ![d] = c] ELSE consent
  /\ plan' = [plan EXCEPT ![d] = NoPlan] /\ Goto(d, "settings")
  /\ UNCHANGED <<chain, network, seed, events>>

Ask(d, w) ==
  /\ work' = [work EXCEPT ![d] = w]
  /\ \E c \in IF w.op = "claim" THEN Consents ELSE {NoConsent} :
       consent' = [consent EXCEPT ![d] = c]
  /\ plan' = [plan EXCEPT ![d] = NoPlan] /\ Goto(d, "settings")
  /\ UNCHANGED <<chain, network, seed, events>>

Begin(d) ==
  /\ pc[d] = "idle" /\ begun < MaxBegun /\ begun' = begun + 1
  /\ \E o \in Operations, a \in Amounts :
       /\ o = "deposit" => a > 0
       /\ o \in {"claim", "recover"} => a = 0
       /\ Ask(d, [op |-> o, amount |-> a])

\* The owner tries again, after a look at the chain; or sends what was prepared
\* again, when only its answer was lost.
PrepareAgain(d) ==
  /\ pc[d] \in {"failed", "lost"} /\ Ask(d, work[d]) /\ UNCHANGED begun

ReadSettings(d) ==
  /\ pc[d] = "settings"
  /\ seed' = [seed EXCEPT ![d] = policySeed] /\ Goto(d, "build")
  /\ UNCHANGED <<chain, network, work, consent, plan, begun, events>>

Prepared(d, p) ==
  Goto(d, "ready") /\ plan' = [plan EXCEPT ![d] = p] /\ UNCHANGED <<work, consent, seed>>

\* voltrWithdrawalFence, of the seed read first.
Fenced(d, p) == [p EXCEPT !.seed = seed[d] + 1]

\* The certificate's bounds on the LP it mints are those of the price at the time.
BuildDeposit(d) ==
  /\ pc[d] = "build" /\ work[d].op = "deposit"
  /\ IF work[d].amount \div price = 0 THEN Leave(d)
     ELSE Prepared(d, [NoPlan EXCEPT !.op = "deposit", !.amount = work[d].amount,
                                     !.lp = work[d].amount \div price,
                                     !.basis = basis, !.base = lp])
  /\ UNCHANGED <<chain, network, begun, events>>

LpAsked(d) == IF work[d].amount = 0 THEN lp ELSE Least(work[d].amount \div price, lp)

\* voltrRequestWithdrawalPlan: one withdrawal at a time.
BuildRequest(d) ==
  /\ pc[d] = "build" /\ work[d].op = "request"
  /\ IF receipt.lp > 0 \/ LpAsked(d) = 0 THEN Leave(d)
     ELSE Prepared(d, Fenced(d, [NoPlan EXCEPT !.op = "request", !.lp = LpAsked(d),
                                               !.all = work[d].amount = 0]))
  /\ UNCHANGED <<chain, network, begun, events>>

Consented(d) == consent[d] # NoConsent

\* One raw unit covers the rounding of a public claim.
Floor(d) ==
  IF Consented(d) THEN consent[d].min ELSE IF Payout > 1 THEN Payout - 1 ELSE Payout

\* Mutant: the consent of an earlier receipt is taken for the one pending.
ConsentFitsLp(d) ==
  Consented(d) => /\ consent[d].lp = receipt.lp /\ ~consent[d].expired
                  /\ Payout >= consent[d].min

\* needs_consent, expired, waiting_price, and the seed the consent names.
ConsentFits(d) ==
  Consented(d) => /\ consent[d].lp = receipt.lp /\ ~consent[d].expired
                  /\ Payout >= consent[d].min
                  /\ consent[d].seed = seed[d]

\* Mutant: the transfer moves the floor alone.
FloorAlone(d) == Floor(d)

\* "Only new proceeds can meet the floor": what is there moves with it.
BaselineAndFloor(d) == asset + Floor(d)

\* voltrClaimPlan: not without a receipt, before its time, or beyond the liquidity.
BuildClaim(d) ==
  /\ pc[d] = "build" /\ work[d].op = "claim"
  /\ IF receipt.lp = 0 THEN Leave(d)
     ELSE IF ~ready \/ ~liquid \/ Floor(d) = 0 \/ ~ConsentFits(d) THEN Throw(d)
     ELSE Prepared(d, Fenced(d, [NoPlan EXCEPT !.op = "claim", !.pin = Bytes(receipt),
                                               !.pay = BaselineAndFloor(d), !.floor = Floor(d),
                                               !.consent = consent[d].from]))
  /\ UNCHANGED <<chain, network, begun, events>>

\* voltrRecoverClaimRemainderPlan, without a fence.
BuildRecover(d) ==
  /\ pc[d] = "build" /\ work[d].op = "recover"
  /\ IF asset = 0 THEN Leave(d)
     ELSE Prepared(d, [NoPlan EXCEPT !.op = "recover", !.pay = asset])
  /\ UNCHANGED <<chain, network, begun, events>>
-----------------------------------------------------------------------------
(* Sending (sendPreparedWithWallet).                                       *)

Sent(d) == network' = network \cup {[by |-> d, plan |-> plan[d], late |-> FALSE]}

\* A protected claim is not broadcast when its consent has expired.
Send(d) ==
  /\ pc[d] = "ready"
  /\ IF consent[d].expired THEN Throw(d) /\ UNCHANGED network
     ELSE Sent(d) /\ Goto(d, "sent") /\ UNCHANGED <<work, consent, seed, plan>>
  /\ UNCHANGED <<chain, begun, events>>

Resend(d) ==
  /\ pc[d] = "lost"
  /\ IF consent[d].expired THEN Throw(d) /\ UNCHANGED network
     ELSE Sent(d) /\ Goto(d, "sent") /\ UNCHANGED <<work, consent, seed, plan>>
  /\ UNCHANGED <<chain, begun, events>>

Event == events < MaxEvents /\ events' = events + 1

\* The accounting before a protected broadcast holds the claim.
Held(d) ==
  /\ pc[d] = "ready" /\ Consented(d) /\ Event /\ Throw(d)
  /\ UNCHANGED <<chain, network, begun>>

AnswerLost(d) ==
  /\ pc[d] = "sent" /\ Event /\ Goto(d, "lost")
  /\ network' = {IF t.by = d THEN [t EXCEPT !.late = TRUE] ELSE t : t \in network}
  /\ UNCHANGED <<chain, work, consent, seed, plan, begun>>

\* The answer to t: what equals t, on its way or not sent yet, has now landed.
Answer(t, landed) ==
  LET mark(p) == IF landed /\ p = t.plan THEN [p EXCEPT !.done = TRUE] ELSE p
  IN /\ network' = {[u EXCEPT !.plan = mark(u.plan)] : u \in network \ {t}}
     /\ IF t.late
        THEN plan' = [d \in Devices |-> mark(plan[d])] /\ UNCHANGED <<pc, work, consent, seed>>
        ELSE /\ plan' = [d \in Devices |-> IF d = t.by /\ landed THEN NoPlan ELSE mark(plan[d])]
             /\ Goto(t.by, IF landed THEN "idle" ELSE "failed")
             /\ work' = IF landed THEN [work EXCEPT ![t.by] = NoWork] ELSE work
             /\ consent' = [consent EXCEPT ![t.by] = NoConsent]
             /\ seed' = [seed EXCEPT ![t.by] = 0]
  /\ UNCHANGED <<begun, events>>
-----------------------------------------------------------------------------
(* The programs and everybody else.                                        *)

Escrow(p) == IF p.all THEN lp ELSE p.lp
\* Mutant: there is no fence.
NoFence(p) == TRUE

\* The policy of the fence is created at the next policy seed.
FenceHolds(p) == p.seed = policySeed + 1

\* The Lighthouse assertions before and after the deposit.
DepositCertified(p) ==
  p.basis = basis /\ p.base = lp /\ p.amount \div price = p.lp

Accepts(p) ==
  CASE p.op = "deposit" -> DepositCertified(p)
    [] p.op = "request" -> FenceHolds(p) /\ receipt.lp = 0 /\ Escrow(p) \in 1 .. lp
    [] p.op = "claim"   -> /\ FenceHolds(p) /\ receipt.lp > 0 /\ ready /\ liquid
                           /\ p.pin = Bytes(receipt) /\ p.pay <= asset + Payout
    [] p.op = "recover" -> p.pay <= asset

LandDeposit(t) ==
  /\ t \in network /\ t.plan.op = "deposit" /\ Accepts(t.plan) /\ Answer(t, TRUE)
  /\ lp' = lp + t.plan.lp /\ basis' = basis + 1
  /\ UNCHANGED <<asset, receipt, ready, opened, price, liquid, policySeed>>

LandRequest(t) ==
  /\ t \in network /\ t.plan.op = "request" /\ Accepts(t.plan) /\ Answer(t, TRUE)
  /\ LET e == Escrow(t.plan)
     IN lp' = lp - e /\ receipt' = [lp |-> e, quote |-> e * price, from |-> opened + 1, ours |-> TRUE]
  /\ opened' = opened + 1 /\ ready' = FALSE /\ policySeed' = policySeed + 1
  /\ UNCHANGED <<asset, price, basis, liquid>>

LandClaim(t) ==
  /\ t \in network /\ t.plan.op = "claim" /\ Accepts(t.plan) /\ Answer(t, TRUE)
  /\ asset' = asset + Payout - t.plan.pay
  /\ receipt' = NoReceipt /\ ready' = FALSE /\ policySeed' = policySeed + 1 /\ basis' = basis + 1
  /\ UNCHANGED <<lp, opened, price, liquid>>

LandRecover(t) ==
  /\ t \in network /\ t.plan.op = "recover" /\ Accepts(t.plan) /\ Answer(t, TRUE)
  /\ asset' = asset - t.plan.pay
  /\ UNCHANGED <<lp, receipt, ready, opened, price, basis, liquid, policySeed>>

Fails(t) == t \in network /\ ~Accepts(t.plan) /\ Answer(t, FALSE) /\ UNCHANGED chain

\* The blockhash of t is no longer valid.
Expires(t) ==
  /\ t \in network /\ t.late /\ network' = network \ {t}
  /\ UNCHANGED <<chain, device, begun, events>>

ConsentExpires(d) ==
  /\ Consented(d) /\ ~consent[d].expired /\ Event
  /\ consent' = [consent EXCEPT ![d].expired = TRUE]
  /\ UNCHANGED <<chain, network, pc, work, seed, plan, begun>>

Mature ==
  /\ receipt.lp > 0 /\ ~ready /\ ready' = TRUE
  /\ UNCHANGED <<lp, asset, receipt, opened, price, basis, liquid, policySeed, network, device,
                 begun, events>>

\* Fees accrue and locked profit is released as time passes; other depositors and
\* reports change the pinned state as well.
Reprice(p) ==
  /\ Event /\ p # price /\ price' = p /\ basis' \in {basis, basis + 1}
  /\ UNCHANGED <<lp, asset, receipt, ready, opened, liquid, policySeed, network, device, begun>>

Drain ==
  /\ Event /\ liquid /\ liquid' = FALSE
  /\ UNCHANGED <<lp, asset, receipt, ready, opened, price, basis, policySeed, network, device, begun>>

Replenish ==
  /\ ~liquid /\ liquid' = TRUE
  /\ UNCHANGED <<lp, asset, receipt, ready, opened, price, basis, policySeed, network, device,
                 begun, events>>

Given ==
  LET mark(p) == IF p.op = "claim" THEN [p EXCEPT !.given = TRUE] ELSE p
  IN /\ network' = {[t EXCEPT !.plan = mark(t.plan)] : t \in network}
     /\ plan' = [d \in Devices |-> mark(plan[d])]

\* Somebody sends USDC to the authority's token account.
Donate ==
  /\ Event /\ asset' = asset + 1 /\ Given
  /\ UNCHANGED <<lp, receipt, ready, opened, price, basis, liquid, policySeed, pc, work, consent,
                 seed, begun>>

\* Another part of the wallet creates a policy.
CreatePolicy ==
  /\ Event /\ policySeed' = policySeed + 1
  /\ UNCHANGED <<lp, asset, receipt, ready, opened, price, basis, liquid, network, device, begun>>

\* Another client of the vault claims, or requests, without a fence.
OutsideClaim ==
  /\ Event /\ receipt.lp > 0 /\ ready /\ liquid
  /\ asset' = asset + Payout /\ receipt' = NoReceipt /\ ready' = FALSE /\ basis' = basis + 1 /\ Given
  /\ UNCHANGED <<lp, opened, price, liquid, policySeed, pc, work, consent, seed, begun>>

OutsideRequest ==
  /\ Event /\ receipt.lp = 0 /\ lp > 0
  /\ receipt' = [lp |-> 1, quote |-> price, from |-> opened + 1, ours |-> FALSE]
  /\ lp' = lp - 1 /\ opened' = opened + 1 /\ ready' = FALSE
  /\ UNCHANGED <<asset, price, basis, liquid, policySeed, network, device, begun>>

Build(d) == BuildDeposit(d) \/ BuildRequest(d) \/ BuildClaim(d) \/ BuildRecover(d)
DeviceStep(d) == PrepareAgain(d) \/ ReadSettings(d) \/ Build(d) \/ Send(d) \/ Resend(d)
Settle(t) == LandDeposit(t) \/ LandRequest(t) \/ LandClaim(t) \/ LandRecover(t) \/ Fails(t)

Next ==
  \/ \E d \in Devices : Begin(d) \/ DeviceStep(d) \/ Held(d) \/ AnswerLost(d) \/ ConsentExpires(d)
  \/ \E t \in network : Settle(t) \/ Expires(t)
  \/ Mature \/ (\E p \in 1 .. MaxPrice : Reprice(p)) \/ Drain \/ Replenish
  \/ Donate \/ CreatePolicy \/ OutsideClaim \/ OutsideRequest

Spec == Init /\ [][Next]_vars

\* Reads are answered, an awaited transaction settles, the cooldown passes and the
\* vault's manager restores liquidity.  Nobody has to begin, a late transaction may
\* land, fail or expire.
Fairness ==
  /\ \A d \in Devices : /\ WF_vars(DeviceStep(d))
                        /\ WF_vars(\E t \in network : t.by = d /\ ~t.late /\ Settle(t))
  /\ WF_vars(Mature) /\ WF_vars(Replenish)
FairSpec == Spec /\ Fairness
-----------------------------------------------------------------------------
(* Properties.                                                             *)

Receipts == [lp : Nat, quote : Nat, from : Nat, ours : BOOLEAN]
Approvals == [lp : Nat, min : Nat, seed : Nat, from : Nat, expired : BOOLEAN]
Plans ==
  [op : {"none", "deposit", "request", "claim", "recover"}, seed : Nat, lp : Nat,
   all : BOOLEAN, pin : Nat \X Nat \X Nat, pay : Nat, floor : Nat, amount : Nat,
   basis : Nat, base : Nat, consent : Nat, done : BOOLEAN, given : BOOLEAN]

\* Every variable stays in its range; no balance ever goes below zero.
TypeOK ==
  /\ lp \in Nat /\ asset \in Nat /\ opened \in Nat /\ basis \in Nat /\ policySeed \in Nat
  /\ price \in 1 .. MaxPrice /\ liquid \in BOOLEAN /\ ready \in BOOLEAN
  /\ receipt \in Receipts
  /\ network \subseteq [by : Devices, plan : Plans, late : BOOLEAN]
  /\ pc \in [Devices -> {"idle", "settings", "build", "ready", "sent", "lost", "failed"}]
  /\ work \in [Devices -> [op : Operations \cup {"none"}, amount : Amounts \cup {0}]]
  /\ consent \in [Devices -> Approvals] /\ seed \in [Devices -> Nat]
  /\ plan \in [Devices -> Plans]

\* What is prepared and sent, again and again after lost answers, by any device,
\* deposits, requests or claims at most once.
TakesEffectOnce ==
  \A t \in network : t.plan.done /\ t.plan.op # "recover" => ~Accepts(t.plan)

Claims(t) == receipt.lp > 0 /\ receipt' = NoReceipt /\ LandClaim(t)

\* A claim under an approved minimum consumes the receipt the owner approved it for,
\* whatever other devices claimed and requested meanwhile.
ConsentedReceipt ==
  [][\A t \in network : Claims(t) /\ t.plan.consent # 0 /\ receipt.ours =>
       t.plan.consent = receipt.from]_vars

\* The proceeds of a claim meet its floor, also when the price falls between the
\* preparation and the landing: USDC that was there before does not make up for it.
ProceedsMeetFloor ==
  [][\A t \in network : Claims(t) /\ ~t.plan.given => Payout >= t.plan.floor]_vars

\* Whoever goes on trying is done some day: no claim is blocked for ever by a fence,
\* an approval, a lost answer or another device.
OperationsEnd == \A d \in Devices : []<>(pc[d] = "idle")
=============================================================================
