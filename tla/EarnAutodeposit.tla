---------------------------- MODULE EarnAutodeposit ----------------------------
(***************************************************************************)
(* Autodeposit of a wallet's USDC into its Earn vault (packages/smart-     *)
(* account-vaults/src/client.ts): a sweep policy at a policy seed, a       *)
(* recurring delegation at a nonce, and the token approval of the wallet's *)
(* subscription authority.                                                 *)
(*                                                                         *)
(* A setup is prepared in stages, one at a time or the last two as a       *)
(* batch, each from its own reads of the chain.  Devices prepare, send,    *)
(* lose answers, retry and close concurrently; Earn creates route policies *)
(* at the same seeds, other applications replace the token approval.       *)
(***************************************************************************)
EXTENDS Naturals, FiniteSets

CONSTANTS
  Devices,
  MaxSeed,      \* bound: policy seeds ever used
  UsedSeeds,    \* how many of them may have been used and closed at the start
  Nonces,       \* one setup of the wallet per nonce
  MaxAmount,    \* amounts per period are 1 .. MaxAmount
  Entries,      \* "stage": prepare...Setup, "batch": prepare...SetupBatch
  Lags,         \* by how many policies a read of Settings may be behind
  MaxFaults,    \* bound: answers lost and transactions expired
  MaxForeign    \* bound: policies and approvals of others

Seeds == 1 .. MaxSeed
Amounts == 1 .. MaxAmount

ASSUME AutodepositAssumption ==
  /\ MaxSeed \in Nat /\ UsedSeeds \in 0 .. MaxSeed /\ MaxAmount \in Nat /\ MaxFaults \in Nat /\ MaxForeign \in Nat
  /\ Entries \subseteq {"stage", "batch"} /\ Lags \subseteq Nat
  /\ Nonces \subseteq Nat \ {0}

VARIABLES
  policySeed,   \* Settings.policySeed
  policies,     \* the policy of every seed: its kind and maxAmountPerPeriodRaw
  authority,    \* the subscription authority of the wallet exists
  delegations,  \* amountPerPeriodRaw of every nonce's delegation, 0: none
  approval,     \* the delegate of the wallet's token account
  network,      \* transactions sent and not settled
  rows,         \* autodeposits the application has recorded
  closed,       \* the ones whose close has landed
  faults, foreign,
  pc, entry, setup, \* of each device: where it is, what it was asked for
  seed, next,   \* policySeed and nextPolicySeed of the stage
  delegationSeen, approvalSeen,
  plan,         \* operations prepared
  landed        \* those of them it knows to have landed

chain == <<policySeed, policies, authority, delegations, approval>>
history == <<rows, closed, faults, foreign>>
args == <<entry, setup>>
reads == <<seed, next, delegationSeen, approvalSeen>>
vars == <<policySeed, policies, authority, delegations, approval, network, rows, closed,
          faults, foreign, pc, entry, setup, seed, next, delegationSeen, approvalSeen,
          plan, landed>>

Stages == {"initialize_subscription_authority", "create_policy",
           "create_recurring_delegation", "approve_token_delegate"}
Transactions == [by : Devices, op : Stages \cup {"close"}, seed : 0 .. MaxSeed + 1,
                 nonce : Nonces, amount : Amounts, late : BOOLEAN,
                 revoke : SUBSET {"delegation", "approval"}]
\* whole: every stage the setup was prepared for has landed.
Rows == [seed : 0 .. MaxSeed + 1, nonce : Nonces, amount : Amounts, whole : BOOLEAN]

\* "made" is the nonce of the setup a sweep policy was created for.
NoPolicy == [kind |-> "none", max |-> 0, made |-> 0]
Route == [kind |-> "route", max |-> 0, made |-> 0]
At(n) == IF n \in Seeds THEN policies[n] ELSE NoPolicy

\* hasExpectedSplTokenDelegateAuthority, hasSufficientExpectedSplTokenDelegate:
\* "short" is an approval of our authority that is used up below the amount of
\* a period.
Ours == {"ours", "short"}

\* The policy of an earlier seed may have been closed.
Init ==
  /\ policySeed \in 0 .. UsedSeeds /\ policies = [n \in Seeds |-> NoPolicy]
  /\ authority \in BOOLEAN
  /\ delegations = [n \in Nonces |-> 0]
  /\ approval = "none"
  /\ network = {} /\ rows = {} /\ closed = {} /\ faults = 0 /\ foreign = 0
  /\ pc = [d \in Devices |-> "idle"]
  /\ entry = [d \in Devices |-> "stage"]
  /\ setup = [d \in Devices |-> [nonce |-> 0, amount |-> 0, asked |-> 0]]
  /\ seed = [d \in Devices |-> 0] /\ next = [d \in Devices |-> 0]
  /\ delegationSeen = [d \in Devices |-> FALSE]
  /\ approvalSeen = [d \in Devices |-> FALSE]
  /\ plan = [d \in Devices |-> {}] /\ landed = [d \in Devices |-> {}]

\* Where a device is when nothing it was asked for is under way.
Resting == {"idle", "done", "exists", "refused", "missing"}

Goto(d, where) == pc' = [pc EXCEPT ![d] = where]
Throw(d, why) == Goto(d, why) /\ UNCHANGED plan
Prepare(d, ops) == Goto(d, "ready") /\ plan' = [plan EXCEPT ![d] = ops]
-----------------------------------------------------------------------------
(* Preparing a setup.                                                      *)

\* The seed a stage is asked for is the one the stage before it persisted.
StartSetup(d) ==
  /\ pc[d] \in Resting
  /\ \E n \in Nonces, a \in Amounts, e \in Entries :
       /\ \A x \in Devices \ {d} : setup[x].nonce # n
       /\ delegations[n] = 0 /\ \A r \in rows \cup closed : r.nonce # n
       /\ setup' = [setup EXCEPT ![d] = [nonce |-> n, amount |-> a, asked |-> 0]]
       /\ entry' = [entry EXCEPT ![d] = e]
  /\ Goto(d, "authority")
  /\ UNCHANGED <<chain, network, history, reads, plan, landed>>

ReadAuthority(d) ==
  /\ pc[d] = "authority"
  /\ IF authority THEN Goto(d, "settings") /\ UNCHANGED <<seed, plan>>
     ELSE /\ Prepare(d, {"initialize_subscription_authority"})
          /\ seed' = [seed EXCEPT ![d] = IF setup[d].asked = 0 THEN 1 ELSE setup[d].asked]
  /\ UNCHANGED <<chain, network, history, args, next, delegationSeen, approvalSeen, landed>>

ReadSettings(d, lag) ==
  /\ pc[d] = "settings" /\ lag <= policySeed
  /\ next' = [next EXCEPT ![d] = policySeed - lag + 1]
  /\ seed' = [seed EXCEPT ![d] = IF setup[d].asked = 0 THEN next'[d] ELSE setup[d].asked]
  /\ Goto(d, "accounts")
  /\ UNCHANGED <<chain, network, history, args, delegationSeen, approvalSeen, plan, landed>>

\* Mutant: the seed asked for is never given up.
SeedIsKept(d) == FALSE

\* Nothing is at the seed asked for and it is not the next one: take that.
SeedIsGone(d) ==
  /\ setup[d].asked # 0 /\ seed[d] = setup[d].asked
  /\ seed[d] # next[d] /\ At(seed[d]).kind = "none"

SwitchSeed(d) ==
  /\ pc[d] = "accounts" /\ SeedIsGone(d)
  /\ seed' = [seed EXCEPT ![d] = next[d]]
  /\ UNCHANGED <<chain, network, history, pc, args, next, delegationSeen, approvalSeen,
                 plan, landed>>

\* Mutant: any policy at the seed is adopted.
NothingCollides(d) == FALSE

\* isSubscriptionSweepPolicy of what is at the seed.
Collides(d) == At(seed[d]).kind = "route"
PolicyExists(d) == At(seed[d]).kind # "none"

\* Policy and delegation are there: repair the approval, or nothing is to do.
RepairApproval(d) ==
  IF approval = "ours" THEN Throw(d, "exists") ELSE Prepare(d, {"approve_token_delegate"})

ReadAccounts(d) ==
  /\ pc[d] = "accounts" /\ ~SeedIsGone(d)
  /\ \/ Collides(d) /\ Throw(d, "collides")
     \/ /\ ~Collides(d) /\ PolicyExists(d)
        /\ IF delegations[setup[d].nonce] # 0 THEN RepairApproval(d)
           ELSE Prepare(d, {"create_recurring_delegation"})
     \/ /\ ~PolicyExists(d)
        /\ IF entry[d] = "stage" THEN Prepare(d, {"create_policy"})
           ELSE Goto(d, "second") /\ UNCHANGED plan
  /\ delegationSeen' = [delegationSeen EXCEPT ![d] = delegations[setup[d].nonce] # 0]
  /\ UNCHANGED <<chain, network, history, args, seed, next, approvalSeen, landed>>

\* The second stage of a batch assumes the policy of the first.  Evidence the
\* first one left is used while it is fresh and says there is no delegation.
SecondFromEvidence(d) ==
  /\ pc[d] = "second" /\ ~delegationSeen[d]
  /\ Prepare(d, {"create_policy", "create_recurring_delegation"})
  /\ UNCHANGED <<chain, network, history, args, reads, landed>>

SecondFromReads(d) ==
  /\ pc[d] = "second"
  /\ IF Collides(d) THEN Throw(d, "collides")
     ELSE IF delegations[setup[d].nonce] = 0
     THEN Prepare(d, {"create_policy", "create_recurring_delegation"})
     ELSE IF approval = "ours" THEN Throw(d, "exists")
     ELSE Prepare(d, {"create_policy"})
  /\ UNCHANGED <<chain, network, history, args, reads, landed>>

PrepareSetup(d) ==
  \/ ReadAuthority(d) \/ (\E lag \in Lags : ReadSettings(d, lag)) \/ SwitchSeed(d) \/ ReadAccounts(d)
  \/ SecondFromEvidence(d) \/ SecondFromReads(d)
-----------------------------------------------------------------------------
(* Preparing a close, of a recorded autodeposit.                           *)

StartClose(d) ==
  /\ pc[d] \in Resting
  /\ \E r \in rows :
       /\ setup' = [setup EXCEPT ![d] = [nonce |-> r.nonce, amount |-> r.amount, asked |-> r.seed]]
       /\ seed' = [seed EXCEPT ![d] = r.seed]
  /\ Goto(d, "shape")
  /\ UNCHANGED <<chain, network, history, entry, next, delegationSeen, approvalSeen, plan, landed>>

MayClose(d) == At(seed[d]).kind # "route"

ReadShape(d) ==
  /\ pc[d] = "shape"
  /\ Goto(d, IF MayClose(d) THEN "fetch" ELSE "refused")
  /\ UNCHANGED <<chain, network, history, args, reads, plan, landed>>

\* prepareClosePoliciesSync fetches the policy again, and throws without one.
FetchPolicy(d) ==
  /\ pc[d] = "fetch"
  /\ Goto(d, IF At(seed[d]).kind = "none" THEN "missing" ELSE "delegation")
  /\ UNCHANGED <<chain, network, history, args, reads, plan, landed>>

ReadDelegation(d) ==
  /\ pc[d] = "delegation"
  /\ delegationSeen' = [delegationSeen EXCEPT ![d] = delegations[setup[d].nonce] # 0]
  /\ Goto(d, "approval")
  /\ UNCHANGED <<chain, network, history, args, seed, next, approvalSeen, plan, landed>>

ReadApproval(d) ==
  /\ pc[d] = "approval"
  /\ approvalSeen' = [approvalSeen EXCEPT ![d] = approval \in Ours]
  /\ Prepare(d, {"close"})
  /\ UNCHANGED <<chain, network, history, args, seed, next, delegationSeen, landed>>

PrepareClose(d) == ReadShape(d) \/ FetchPolicy(d) \/ ReadDelegation(d) \/ ReadApproval(d)
-----------------------------------------------------------------------------
(* Sending what was prepared, and going on from what became of it.         *)

Transaction(d, op) ==
  [by |-> d, op |-> op, seed |-> seed[d], nonce |-> setup[d].nonce,
   amount |-> setup[d].amount, late |-> FALSE,
   revoke |-> IF op # "close" THEN {}
              ELSE {x \in {"delegation", "approval"} :
                      (x = "delegation" /\ delegationSeen[d]) \/ (x = "approval" /\ approvalSeen[d])}]

Sent(d) == {t \in network : t.by = d /\ ~t.late}

Send(d) ==
  /\ pc[d] = "ready"
  /\ network' = network \cup {Transaction(d, op) : op \in plan[d]}
  /\ landed' = [landed EXCEPT ![d] = {}]
  /\ Goto(d, "sent")
  /\ UNCHANGED <<chain, history, args, reads, plan>>

Final == {"create_recurring_delegation", "approve_token_delegate"}
Row(d) == [seed |-> seed[d], nonce |-> setup[d].nonce, amount |-> setup[d].amount,
           whole |-> landed[d] = plan[d]]

\* Mutant: the seed of the stage before is not handed on.
SettledForgetting(d) ==
  /\ pc[d] = "sent" /\ Sent(d) = {}
  /\ IF landed[d] \cap Final # {} THEN rows' = rows \cup {Row(d)} ELSE UNCHANGED rows
  /\ Goto(d, IF plan[d] = {"close"} \/ landed[d] \cap Final # {} THEN "done" ELSE "authority")
  /\ UNCHANGED <<chain, network, closed, faults, foreign, args, reads, plan, landed>>

\* Everything sent has settled: the setup is recorded when its last stage has
\* landed, and goes on with the next stage, or the same one, until it has.
Settled(d) ==
  /\ pc[d] = "sent" /\ Sent(d) = {}
  /\ IF landed[d] \cap Final # {} THEN rows' = rows \cup {Row(d)} ELSE UNCHANGED rows
  /\ IF plan[d] = {"close"} \/ landed[d] \cap Final # {}
     THEN Goto(d, "done") /\ UNCHANGED setup
     ELSE Goto(d, "authority") /\ setup' = [setup EXCEPT ![d].asked = seed[d]]
  /\ UNCHANGED <<chain, network, closed, faults, foreign, entry, reads, plan, landed>>

\* The answer is lost: a setup is prepared again while its transactions are on
\* their way, a close is left alone.
AnswerLost(d) ==
  /\ pc[d] = "sent" /\ Sent(d) # {} /\ faults < MaxFaults
  /\ faults' = faults + 1
  /\ network' = (network \ Sent(d)) \cup {[t EXCEPT !.late = TRUE] : t \in Sent(d)}
  /\ IF plan[d] = {"close"} THEN Goto(d, "done") /\ UNCHANGED setup
     ELSE Goto(d, "authority") /\ setup' = [setup EXCEPT ![d].asked = seed[d]]
  /\ UNCHANGED <<chain, rows, closed, foreign, entry, reads, plan, landed>>

\* "Retry the setup."  The error names the seed that collides: when that is the
\* one asked for, the caller asks for none.
Retry(d) ==
  /\ pc[d] = "collides"
  /\ Goto(d, "authority")
  /\ setup' = [setup EXCEPT ![d].asked = IF @ = seed[d] THEN 0 ELSE @]
  /\ UNCHANGED <<chain, network, history, entry, reads, plan, landed>>
-----------------------------------------------------------------------------
(* The programs and everybody else.                                        *)

Accepts(t) ==
  CASE t.op = "initialize_subscription_authority" -> ~authority
    [] t.op = "create_policy" -> t.seed = policySeed + 1
    [] t.op = "create_recurring_delegation" -> authority /\ delegations[t.nonce] = 0
    [] t.op = "approve_token_delegate" -> authority
    [] t.op = "close" -> /\ At(t.seed).kind # "none"
                         /\ "delegation" \in t.revoke => delegations[t.nonce] # 0

Tell(t) ==
  landed' = IF t.late THEN landed ELSE [landed EXCEPT ![t.by] = @ \cup {t.op}]

LandSetup(t) ==
  /\ t \in network /\ Accepts(t) /\ t.op \in Stages
  /\ t.op = "create_policy" => policySeed < MaxSeed
  /\ network' = network \ {t} /\ Tell(t)
  /\ authority' = (authority \/ t.op = "initialize_subscription_authority")
  /\ policySeed' = IF t.op = "create_policy" THEN t.seed ELSE policySeed
  /\ policies' = IF t.op = "create_policy"
                 THEN [policies EXCEPT ![t.seed] = [kind |-> "sweep", max |-> t.amount,
                                                    made |-> t.nonce]]
                 ELSE policies
  /\ delegations' = IF t.op = "create_recurring_delegation"
                    THEN [delegations EXCEPT ![t.nonce] = t.amount] ELSE delegations
  /\ approval' = IF t.op \in Final THEN "ours" ELSE approval
  /\ UNCHANGED <<history, pc, args, reads, plan>>

\* Mutant: a close removes the delegation and the approval only.
LandCloseKeepingPolicy(t) ==
  /\ t \in network /\ Accepts(t) /\ t.op = "close"
  /\ network' = network \ {t} /\ Tell(t)
  /\ delegations' = IF "delegation" \in t.revoke
                    THEN [delegations EXCEPT ![t.nonce] = 0] ELSE delegations
  /\ approval' = IF "approval" \in t.revoke THEN "none" ELSE approval
  /\ rows' = {r \in rows : r.seed # t.seed \/ r.nonce # t.nonce}
  /\ closed' = closed \cup (rows \ rows')
  /\ UNCHANGED <<policySeed, policies, authority, faults, foreign, pc, args, reads, plan>>

\* One transaction: revoke the delegation, remove the policy, revoke the approval.
LandClose(t) ==
  /\ t \in network /\ Accepts(t) /\ t.op = "close"
  /\ network' = network \ {t} /\ Tell(t)
  /\ policies' = [policies EXCEPT ![t.seed] = NoPolicy]
  /\ delegations' = IF "delegation" \in t.revoke
                    THEN [delegations EXCEPT ![t.nonce] = 0] ELSE delegations
  /\ approval' = IF "approval" \in t.revoke THEN "none" ELSE approval
  /\ rows' = {r \in rows : r.seed # t.seed \/ r.nonce # t.nonce}
  /\ closed' = closed \cup (rows \ rows')
  /\ UNCHANGED <<policySeed, authority, faults, foreign, pc, args, reads, plan>>

Fails(t) ==
  /\ t \in network /\ ~Accepts(t)
  /\ network' = network \ {t}
  /\ UNCHANGED <<chain, history, pc, args, reads, plan, landed>>

Expires(t) ==
  /\ t \in network /\ (t.late \/ faults < MaxFaults)
  /\ network' = network \ {t}
  /\ faults' = IF t.late THEN faults ELSE faults + 1
  /\ UNCHANGED <<chain, rows, closed, foreign, pc, args, reads, plan, landed>>

\* A deposit creates a route policy at the next seed.
CreateRoute ==
  /\ policySeed < MaxSeed /\ foreign < MaxForeign
  /\ policySeed' = policySeed + 1
  /\ policies' = [policies EXCEPT ![policySeed + 1] = Route]
  /\ foreign' = foreign + 1
  /\ UNCHANGED <<authority, delegations, approval, network, rows, closed, faults, pc, args,
                 reads, plan, landed>>

\* The owner approves another application, a token account has one delegate, or
\* what our authority was approved for is used up.
ForeignApproval ==
  /\ foreign < MaxForeign
  /\ \/ approval # "foreign" /\ approval' = "foreign"
     \/ approval = "ours" /\ approval' = "short"
  /\ foreign' = foreign + 1
  /\ UNCHANGED <<policySeed, policies, authority, delegations, network, rows, closed, faults,
                 pc, args, reads, plan, landed>>

DeviceStep(d) == PrepareSetup(d) \/ PrepareClose(d) \/ Send(d) \/ Settled(d) \/ Retry(d)
NetworkStep(t) == LandSetup(t) \/ LandClose(t) \/ Fails(t)

Next ==
  \/ \E d \in Devices : StartSetup(d) \/ StartClose(d) \/ DeviceStep(d) \/ AnswerLost(d)
  \/ \E t \in network : NetworkStep(t) \/ Expires(t)
  \/ CreateRoute \/ ForeignApproval

Spec == Init /\ [][Next]_vars

\* Every read is answered, prepared stages are sent, a transaction settles while
\* its blockhash is valid, and a setup is retried.  Reads of Settings are not
\* stale for ever.  Nobody has to begin.
Fairness ==
  /\ \A d \in Devices : WF_vars(DeviceStep(d)) /\ SF_vars(ReadSettings(d, 0))
  /\ WF_vars(\E t \in network : NetworkStep(t))
FairSpec == Spec /\ Fairness
-----------------------------------------------------------------------------
(* Properties.                                                             *)

\* Every variable stays in its range, and a device that was asked for something
\* knows the setup it works for.
TypeOK ==
  /\ policySeed \in 0 .. MaxSeed
  /\ policies \in [Seeds -> [kind : {"none", "route", "sweep"}, max : 0 .. MaxAmount,
                          made : Nonces \cup {0}]]
  /\ authority \in BOOLEAN /\ delegations \in [Nonces -> 0 .. MaxAmount]
  /\ approval \in {"none", "foreign", "short", "ours"}
  /\ network \subseteq Transactions /\ rows \subseteq Rows /\ closed \subseteq Rows
  /\ faults \in 0 .. MaxFaults /\ foreign \in 0 .. MaxForeign
  /\ pc \in [Devices -> {"idle", "authority", "settings", "accounts", "second", "ready",
                          "sent", "done", "collides", "exists", "shape", "fetch",
                          "delegation", "approval", "refused", "missing"}]
  /\ entry \in [Devices -> {"stage", "batch"}]
  /\ setup \in [Devices -> [nonce : Nonces \cup {0}, amount : 0 .. MaxAmount,
                            asked : 0 .. MaxSeed + 1]]
  /\ \A d \in Devices : pc[d] # "idle" => setup[d].nonce \in Nonces /\ setup[d].amount \in Amounts
  /\ seed \in [Devices -> 0 .. MaxSeed + 1] /\ next \in [Devices -> 0 .. MaxSeed + 1]
  /\ delegationSeen \in [Devices -> BOOLEAN] /\ approvalSeen \in [Devices -> BOOLEAN]
  /\ plan \in [Devices -> SUBSET (Stages \cup {"close"})]
  /\ landed \in [Devices -> SUBSET (Stages \cup {"close"})]

\* What assertEarnUsdcAutodepositCanonicalArtifacts asks of policy and delegation.
Canonical(r) ==
  /\ At(r.seed).kind = "sweep" /\ At(r.seed).max = r.amount
  /\ delegations[r.nonce] = r.amount

\* A setup may have gone on with the sweep policy of another one, which may be for
\* another amount.
Adopted(r) == At(r.seed).kind = "sweep" /\ At(r.seed).made # r.nonce

\* A setup whose stages have all landed leaves exactly the artifacts the server
\* accepts, whatever was lost, retried, or taken by others on the way.  With an
\* adopted policy its delegation is right, and it goes when that policy does.
CompletedIsCanonical ==
  \A r \in rows : r.whole /\ (\A c \in closed : c.seed # r.seed) =>
    Canonical(r) \/ (Adopted(r) /\ delegations[r.nonce] = r.amount)

\* A retried setup goes on with the policy of its earlier attempt, also when that
\* one lands late: no second sweep policy is ever left behind for it.
OnePolicyPerSetup ==
  \A m, n \in Seeds : policies[m].kind = "sweep" /\ policies[m].made = policies[n].made => m = n

\* What the policy, the delegation and the approval let prepare...Pull transfer.
PullAccepted(r) ==
  /\ At(r.seed).kind = "sweep" /\ approval \in Ours
  /\ delegations[r.nonce] \in 1 .. At(r.seed).max

\* A closed autodeposit never moves funds again, also when a transaction of its
\* setup lands after the close and restores delegation and approval.
ClosedStaysClosed == \A r \in closed : ~PullAccepted(r)

\* Every setup ends: each stage goes on from what the last one left on chain.
SetupsEnd == \A d \in Devices : []<>(pc[d] \in Resting)
=============================================================================
