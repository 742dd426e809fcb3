---------------------------- MODULE SpendingLimits ----------------------------
(***************************************************************************)
(* Spending-limit policies of a smart account: what the client prepares    *)
(* to create, change and remove them and their signers (packages/          *)
(* smart-account-vaults/src/client.ts), what it shows of them (src/        *)
(* spending-limits.ts), and the agents that spend under them meanwhile.    *)
(*                                                                         *)
(* A change is prepared from a read of the policy and replaces all of it   *)
(* when it lands: at once, or when a proposal has its votes.               *)
(***************************************************************************)
EXTENDS Naturals, FiniteSets

CONSTANTS
  Managers,     \* wallets that change policies
  Agents,       \* wallets that spend under them
  Grants,       \* permission sets managers grant
  Amounts,      \* limits managers set
  FirstLimit,   \* limit of the policy the account has in the beginning
  FirstPerUse,  \* what it allows in one use
  Accumulating, \* values of its accumulateUnused
  Periods,      \* periods managers set
  DefaultAdds,  \* managers also add agents without naming a policy
  AgentsPause,  \* agents do not spend while a change is on its way
  MaxPolicies,  \* bound: policy seeds ever used
  MaxTime,      \* bound: the clock
  Period,       \* length of a recurring period
  None

Permissions == {"initiate", "vote", "execute"}
AllPeriods == {"one_time", "recurring"}
Seeds == 1 .. MaxPolicies
Times == 0 .. MaxTime

ASSUME LimitsAssumption ==
  /\ Agents # {}
  /\ Grants \subseteq (SUBSET Permissions) \ {{}}
  /\ IsFiniteSet(Amounts) /\ Amounts \subseteq Nat /\ FirstLimit \in Nat \ {0}
  /\ FirstPerUse \in 1 .. FirstLimit
  /\ Periods \subseteq AllPeriods
  /\ Accumulating \subseteq BOOLEAN /\ DefaultAdds \in BOOLEAN /\ AgentsPause \in BOOLEAN
  /\ MaxPolicies \in Nat \ {0} /\ MaxTime \in Nat /\ Period \in Nat \ {0}
  /\ None \notin [remaining : Nat, lastReset : Times]

VARIABLES
  now,         \* the cluster's clock
  policySeed,  \* Settings.policySeed
  policy,      \* the policy account at each seed
  prepared,    \* the change each manager has prepared, and what it read
  ledger       \* of each policy: the period of its last use, what was spent
               \* in it and the highest limit in force since that use

vars == <<now, policySeed, policy, prepared, ledger>>

NoPolicy == [exists |-> FALSE]
Idle == [kind |-> "none"]
Nobody == [a \in Agents |-> {}]
Smaller(x, y) == IF x < y THEN x ELSE y
Larger(x, y) == IF x > y THEN x ELSE y

Existing == {p \in Seeds : policy[p].exists}
SignersOf(p) == {a \in Agents : policy[p].signers[a] # {}}

Init ==
  /\ now = 0
  /\ policySeed = 1
  /\ \E carries \in Accumulating :
       policy = [p \in Seeds |->
         IF p = 1
         THEN [exists |-> TRUE, signers |-> [a \in Agents |-> Permissions],
               maxPerPeriod |-> FirstLimit, maxPerUse |-> FirstPerUse,
               remaining |-> FirstLimit, lastReset |-> 0,
               period |-> "recurring", accumulateUnused |-> carries]
         ELSE NoPolicy]
  /\ prepared = [m \in Managers |-> Idle]
  /\ ledger = [p \in Seeds |-> [opened |-> 0, spent |-> 0, cap |-> IF p = 1 THEN FirstLimit ELSE 0]]

-----------------------------------------------------------------------------
(* What the client puts into a change: createSpendingLimitPolicyCreation-  *)
(* Payload over the policy it has read.                                    *)

\* Mutant: the limit per use is kept when the limit per period falls below it.
KeptMaxPerUse(base, amount) ==
  IF base.maxPerUse = base.maxPerPeriod THEN amount ELSE base.maxPerUse

ResolveUpdatedMaxPerUse(base, amount) ==
  IF base.maxPerUse = base.maxPerPeriod \/ base.maxPerUse > amount
  THEN amount ELSE base.maxPerUse

\* Mutant: the remaining amount starts over.
FreshUsageState(base, amount) == [remaining |-> amount, lastReset |-> base.lastReset]

ResolveUpdatedUsageState(base, amount) ==
  [remaining |-> Smaller(base.remaining, amount), lastReset |-> base.lastReset]

UpdatePayload(base, amount, period) ==
  [maxPerPeriod |-> amount, maxPerUse |-> ResolveUpdatedMaxPerUse(base, amount),
   usage |-> ResolveUpdatedUsageState(base, amount), period |-> period,
   accumulateUnused |-> base.accumulateUnused]

CreationPayload(amount, period) ==
  [maxPerPeriod |-> amount, maxPerUse |-> amount, usage |-> None,
   period |-> period, accumulateUnused |-> FALSE]

\* Only the signers change: the limit stays the one that was read.
SameLimit(p) == UpdatePayload(policy[p], policy[p].maxPerPeriod, policy[p].period)

Prepare(m, op) ==
  /\ prepared[m] = Idle
  /\ prepared' = [prepared EXCEPT ![m] = op]
  /\ UNCHANGED <<now, policySeed, policy, ledger>>

Update(p, signers, payload) ==
  [kind |-> "update", on |-> p, signers |-> signers, payload |-> payload, read |-> policy[p]]

Create(signers, payload) ==
  [kind |-> "create", on |-> policySeed + 1, signers |-> signers, payload |-> payload,
   read |-> policySeed]

Remove(p) == [kind |-> "remove", on |-> p, read |-> policy[p]]

\* prepareAddInitiateSigner with policyPda.
AddAgent(m) ==
  \E p \in Existing, a \in Agents, granted \in Grants :
    /\ ~ granted \subseteq policy[p].signers[a]
    /\ Prepare(m, Update(p, [policy[p].signers EXCEPT ![a] = @ \cup granted], SameLimit(p)))

\* prepareAddInitiateSigner without: a policy of its own, with limit 0.
AddAgentByDefault(m) ==
  /\ DefaultAdds
  /\ \E a \in Agents, granted \in Grants :
       Prepare(m, Create([Nobody EXCEPT ![a] = granted], CreationPayload(0, "recurring")))

UpdatePermissions(m) ==
  \E p \in Existing : \E a \in SignersOf(p), granted \in Grants :
    Prepare(m, Update(p, [policy[p].signers EXCEPT ![a] = granted], SameLimit(p)))

\* Without policyPda the first policy of the scan that has the agent is taken.
RemoveAgent(m) ==
  \E p \in Existing : \E a \in SignersOf(p) :
    Prepare(m, IF SignersOf(p) = {a} THEN Remove(p)
               ELSE Update(p, [policy[p].signers EXCEPT ![a] = {}], SameLimit(p)))

\* prepareSetSpendingLimitPolicy, of an existing policy or a new one.
SetLimit(m) ==
  \E amount \in Amounts, period \in Periods :
    \/ \E p \in Existing :
         Prepare(m, Update(p, policy[p].signers, UpdatePayload(policy[p], amount, period)))
    \/ \E a \in Agents :
         Prepare(m, Create([Nobody EXCEPT ![a] = Permissions], CreationPayload(amount, period)))

RemovePolicy(m) == \E p \in Existing : Prepare(m, Remove(p))

-----------------------------------------------------------------------------
(* The program.                                                            *)

PeriodsPassed(lastReset, period) ==
  IF period = "recurring" /\ now > lastReset + Period
  THEN (now - lastReset) \div Period ELSE 0

\* The checks of the program on the limit of a policy, by its error codes
\* (SpendingLimitInvariant...).
ValidPayload(payload) ==
  /\ payload.maxPerPeriod > 0
  /\ payload.maxPerUse <= payload.maxPerPeriod
  /\ payload.usage # None =>
       ~payload.accumulateUnused /\ payload.usage.remaining <= payload.maxPerPeriod

Accepts(op) ==
  /\ op.kind = "create" => op.on = policySeed + 1
  /\ op.kind \in {"update", "remove"} => policy[op.on].exists
  /\ op.kind \in {"create", "update"} => ValidPayload(op.payload) /\ op.signers # Nobody

Written(op) ==
  LET usage == IF op.payload.usage # None THEN op.payload.usage
               ELSE [remaining |-> op.payload.maxPerPeriod, lastReset |-> now]
  IN  [exists |-> TRUE, signers |-> op.signers,
       maxPerPeriod |-> op.payload.maxPerPeriod, maxPerUse |-> op.payload.maxPerUse,
       remaining |-> usage.remaining, lastReset |-> usage.lastReset,
       period |-> op.payload.period, accumulateUnused |-> op.payload.accumulateUnused]

\* The period a use of policy p now falls in: a period starts at its first use.
Running(p) ==
  LET passed == PeriodsPassed(ledger[p].opened, policy[p].period)
  IN  IF passed = 0 THEN ledger[p]
      ELSE [opened |-> ledger[p].opened + passed * Period, spent |-> 0,
            cap |-> policy[p].maxPerPeriod]

Done(m) == prepared' = [prepared EXCEPT ![m] = Idle]

Land(m) ==
  LET op == prepared[m] IN
  /\ op # Idle /\ Accepts(op) /\ op.on \in Seeds
  /\ policySeed' = IF op.kind = "create" THEN op.on ELSE policySeed
  /\ policy' = [policy EXCEPT ![op.on] = IF op.kind = "remove" THEN NoPolicy ELSE Written(op)]
  /\ ledger' = [ledger EXCEPT ![op.on] =
       CASE op.kind = "create" -> [opened |-> now, spent |-> 0, cap |-> op.payload.maxPerPeriod]
         [] op.kind = "update" /\ op.payload.period = policy[op.on].period ->
              [ledger[op.on] EXCEPT !.cap = Larger(@, op.payload.maxPerPeriod)]
         [] op.kind = "update" /\ op.payload.period # policy[op.on].period ->
              [ledger[op.on] EXCEPT !.spent = 0, !.cap = op.payload.maxPerPeriod]
         [] op.kind = "remove" -> [opened |-> 0, spent |-> 0, cap |-> 0]]
  /\ Done(m) /\ UNCHANGED now

\* It is refused, voted down or expires.
Lost(m) ==
  /\ prepared[m] # Idle
  /\ Done(m) /\ UNCHANGED <<now, policySeed, policy, ledger>>

\* What the program lets through now, after the reset it makes first.
Spendable(p) ==
  LET passed == PeriodsPassed(policy[p].lastReset, policy[p].period)
  IN  IF passed = 0 THEN policy[p].remaining
      ELSE IF policy[p].accumulateUnused
      THEN policy[p].remaining + passed * policy[p].maxPerPeriod
      ELSE policy[p].maxPerPeriod

\* The reset a use leaves behind.
LastReset(p) ==
  policy[p].lastReset + PeriodsPassed(policy[p].lastReset, policy[p].period) * Period

\* prepareUseSolSpendingLimitPolicy and its execution; what it reads of the
\* policy never changes.
Spend(a) ==
  \E p \in Existing : \E amount \in 1 .. Smaller(Spendable(p), policy[p].maxPerUse) :
    /\ policy[p].signers[a] = Permissions
    /\ AgentsPause => \A m \in Managers : prepared[m] = Idle
    /\ policy' = [policy EXCEPT ![p] =
         [policy[p] EXCEPT !.remaining = Spendable(p) - amount, !.lastReset = LastReset(p)]]
    /\ ledger' = [ledger EXCEPT ![p] = [Running(p) EXCEPT !.spent = @ + amount]]
    /\ UNCHANGED <<now, policySeed, prepared>>

Tick == now < MaxTime /\ now' = now + 1 /\ UNCHANGED <<policySeed, policy, prepared, ledger>>

Change(m) ==
  \/ AddAgent(m) \/ AddAgentByDefault(m) \/ UpdatePermissions(m) \/ RemoveAgent(m)
  \/ SetLimit(m) \/ RemovePolicy(m)

Next ==
  \/ \E m \in Managers : Change(m) \/ Land(m) \/ Lost(m)
  \/ \E a \in Agents : Spend(a)
  \/ Tick

Spec == Init /\ [][Next]_vars

-----------------------------------------------------------------------------
(* What the client shows: getEffectiveSpendingLimitRemainingAmount and     *)
(* getSpendingLimitNextReset.                                              *)

\* Mutant: the limit is shown as reset on the boundary itself.
EffectiveAtBoundary(p, t) ==
  LET elapsed == t - policy[p].lastReset
      passed == IF policy[p].period = "one_time" THEN 0 ELSE elapsed \div Period
  IN  IF passed = 0 THEN policy[p].remaining
      ELSE IF policy[p].accumulateUnused
      THEN policy[p].remaining + policy[p].maxPerPeriod * passed
      ELSE policy[p].maxPerPeriod

EffectiveRemaining(p, t) ==
  LET elapsed == t - policy[p].lastReset
      passed == elapsed \div Period
  IN  IF policy[p].period = "one_time" \/ elapsed <= Period THEN policy[p].remaining
      ELSE IF policy[p].accumulateUnused
      THEN policy[p].remaining + policy[p].maxPerPeriod * passed
      ELSE policy[p].maxPerPeriod

NextReset(p, t) ==
  LET elapsed == IF t > policy[p].lastReset THEN t - policy[p].lastReset ELSE 0
  IN  policy[p].lastReset + (elapsed \div Period + 1) * Period

-----------------------------------------------------------------------------
(* Properties.                                                             *)

PolicyAccounts ==
  {NoPolicy} \cup
  [exists : {TRUE}, signers : [Agents -> SUBSET Permissions], maxPerPeriod : Nat,
   maxPerUse : Nat, remaining : Nat, lastReset : Times, period : AllPeriods,
   accumulateUnused : BOOLEAN]

Payloads ==
  [maxPerPeriod : Nat, maxPerUse : Nat, period : AllPeriods, accumulateUnused : BOOLEAN,
   usage : {None} \cup [remaining : Nat, lastReset : Times]]
AllSigners == [Agents -> SUBSET Permissions]

Operations ==
  {Idle}
  \cup [kind : {"update"}, on : Seeds, signers : AllSigners, payload : Payloads, read : PolicyAccounts]
  \cup [kind : {"create"}, on : Nat, signers : AllSigners, payload : Payloads, read : Nat]
  \cup [kind : {"remove"}, on : Seeds, read : PolicyAccounts]

\* Every variable stays in its range, and an existing policy has a signer.
TypeOK ==
  /\ now \in Times /\ policySeed \in Seeds
  /\ policy \in [Seeds -> PolicyAccounts]
  /\ \A p \in Existing : p <= policySeed /\ SignersOf(p) # {}
  /\ prepared \in [Managers -> Operations]
  /\ ledger \in [Seeds -> [opened : Times, spent : Nat, cap : Nat]]

\* However managers raise, lower and hand on a limit, agents never spend more
\* in one period than the highest limit in force during it: a change of the
\* policy does not give spent amounts back (resolveUpdatedUsageState).  A change
\* between one-time and recurring limits starts a new period.
SpentWithinLimit ==
  \A p \in Existing : ~policy[p].accumulateUnused => ledger[p].spent <= ledger[p].cap

\* Two kinds of change the program never accepts: the policy that is prepared
\* by default for a new agent has limit 0, and a policy that carries unused
\* amounts over takes no usage state.
AlwaysRefused(payload) == payload.maxPerPeriod = 0 \/ payload.accumulateUnused

\* The program accepts every other change as long as nobody has changed what it
\* was prepared from: the payload the client derives from any policy it may
\* read satisfies the program's own rules.
PreparedIsAccepted ==
  \A m \in Managers :
    LET op == prepared[m] IN
    /\ op.kind = "remove" /\ op.read = policy[op.on] => Accepts(op)
    /\ op.kind = "update" /\ op.read = policy[op.on] /\ ~AlwaysRefused(op.payload)
         => Accepts(op)
    /\ op.kind = "create" /\ op.read = policySeed /\ ~AlwaysRefused(op.payload)
         => Accepts(op)

\* The remaining amount the overview shows is the amount the program would let
\* an agent spend at that moment, through every reset and change of period.
ShownIsSpendable == \A p \in Existing : EffectiveRemaining(p, now) = Spendable(p)

\* A used-up limit is not restored before the reset the overview announces
\* (getSpendingLimitNextReset).
NextResetIsNext ==
  \A p \in Existing : policy[p].period = "recurring" =>
    \A t \in now .. MaxTime :
      t <= NextReset(p, now) => EffectiveRemaining(p, t) = EffectiveRemaining(p, now)

=============================================================================
