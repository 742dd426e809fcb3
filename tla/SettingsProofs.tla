---------------------------- MODULE SettingsProofs ----------------------------
(***************************************************************************)
(* The Settings and the policies of an account, for every number of        *)
(* managers, agents, members, policies, amounts and transactions.          *)
(*                                                                         *)
(* SpendingLimits: the program accepts every change of a limit that nobody *)
(* has overtaken, the amount the overview shows is the amount that can be  *)
(* spent, and agents that pause spend no more than the limit.              *)
(* Proposals: what a member is shown is what it votes on, and what it      *)
(* prepares from a current read is accepted.                               *)
(***************************************************************************)
EXTENDS SpendingLimits, Proposals, TLAPS

\* What is prepared satisfies the program's rules on a payload, and remembers a
\* read that it was prepared from.
OperationOK(op) ==
  /\ op.kind \in {"update", "create"} =>
       /\ op.signers # Nobody
       /\ op.payload.maxPerUse <= op.payload.maxPerPeriod
       /\ op.payload.usage # None => op.payload.usage.remaining <= op.payload.maxPerPeriod
  /\ op.kind \in {"update", "remove"} => op.read.exists
  /\ op.kind = "create" => op.on = op.read + 1

PreparedInv == \A m \in Managers : OperationOK(prepared[m])
Inv == TypeOK /\ PreparedInv

-----------------------------------------------------------------------------
(* Arithmetic of periods.                                                  *)

LEMMA Division ==
  ASSUME NEW x \in Nat, NEW y \in Nat \ {0}
  PROVE  x \div y \in Nat /\ (x \div y) * y <= x
BY Z3

LEMMA Product ==
  ASSUME NEW x \in Nat, NEW y \in Nat PROVE x * y \in Nat /\ x * y = y * x
BY Z3

\* The periods that have passed since x end at x or later, and not after now.
LEMMA PeriodsPassedRange ==
  ASSUME now \in Times, NEW x \in Times, NEW kind
  PROVE  /\ PeriodsPassed(x, kind) \in Nat
         /\ PeriodsPassed(x, kind) * Period \in Nat
         /\ x + PeriodsPassed(x, kind) * Period \in Times
<1> USE LimitsAssumption DEF Times
<1>1. CASE kind = "recurring" /\ now > x + Period
  <2>1. now - x \in Nat /\ Period \in Nat \ {0}
    BY <1>1
  <2> DEFINE q == (now - x) \div Period
  <2>2. q \in Nat /\ q * Period <= now - x
    BY <2>1, Division
  <2>3. q * Period \in Nat
    BY <2>1, <2>2, Product
  <2>4. PeriodsPassed(x, kind) = q
    BY <1>1 DEF PeriodsPassed
  <2> HIDE DEF q
  <2> QED BY <2>1, <2>2, <2>3, <2>4
<1>2. CASE ~(kind = "recurring" /\ now > x + Period)
  <2>1. PeriodsPassed(x, kind) = 0
    BY <1>2 DEF PeriodsPassed
  <2>2. 0 * Period = 0
    OBVIOUS
  <2> QED BY <2>1, <2>2
<1> QED BY <1>1, <1>2

-----------------------------------------------------------------------------
(* Policies and payloads.                                                  *)

LEMMA PolicyFields ==
  ASSUME TypeOK, NEW p \in Existing
  PROVE  /\ p \in Seeds /\ policy[p] \in PolicyAccounts /\ policy[p].exists
         /\ policy[p].signers \in AllSigners
         /\ policy[p].maxPerPeriod \in Nat /\ policy[p].maxPerUse \in Nat
         /\ policy[p].remaining \in Nat /\ policy[p].lastReset \in Times
         /\ policy[p].period \in AllPeriods /\ policy[p].accumulateUnused \in BOOLEAN
<1>1. p \in Seeds /\ policy[p].exists /\ policy[p] \in PolicyAccounts
  BY DEF Existing, TypeOK
<1>2. policy[p] # NoPolicy
  BY <1>1 DEF NoPolicy
<1> QED BY <1>1, <1>2 DEF PolicyAccounts, AllSigners

LEMMA HasSigner ==
  ASSUME TypeOK, NEW p \in Existing PROVE policy[p].signers # Nobody
BY PolicyFields DEF TypeOK, SignersOf, Nobody

LEMMA UpdatePayloadOK ==
  ASSUME TypeOK, NEW p \in Existing, NEW amount \in Nat, NEW period \in AllPeriods
  PROVE  LET payload == UpdatePayload(policy[p], amount, period)
         IN  /\ payload \in Payloads
             /\ payload.maxPerUse <= payload.maxPerPeriod
             /\ payload.usage # None => payload.usage.remaining <= payload.maxPerPeriod
<1> DEFINE use == ResolveUpdatedMaxPerUse(policy[p], amount)
           usage == ResolveUpdatedUsageState(policy[p], amount)
<1>1. use \in Nat /\ use <= amount
  BY PolicyFields DEF ResolveUpdatedMaxPerUse
<1>2. usage \in [remaining : Nat, lastReset : Times] /\ usage.remaining <= amount
  BY PolicyFields DEF ResolveUpdatedUsageState, Smaller
<1>3. policy[p].accumulateUnused \in BOOLEAN
  BY PolicyFields
<1>4. UpdatePayload(policy[p], amount, period) =
        [maxPerPeriod |-> amount, maxPerUse |-> use, usage |-> usage, period |-> period,
         accumulateUnused |-> policy[p].accumulateUnused]
  BY DEF UpdatePayload
<1> HIDE DEF use, usage
<1> QED BY <1>1, <1>2, <1>3, <1>4 DEF Payloads

LEMMA CreationPayloadOK ==
  ASSUME NEW amount \in Nat, NEW period \in AllPeriods
  PROVE  LET payload == CreationPayload(amount, period)
         IN  /\ payload \in Payloads
             /\ payload.maxPerUse <= payload.maxPerPeriod
             /\ payload.usage = None
BY DEF CreationPayload, Payloads

\* A change of an existing policy that keeps a signer.
LEMMA UpdateOK ==
  ASSUME TypeOK, NEW p \in Existing, NEW holders \in AllSigners, holders # Nobody,
         NEW amount \in Nat, NEW period \in AllPeriods
  PROVE  LET op == Update(p, holders, UpdatePayload(policy[p], amount, period))
         IN  op \in Operations /\ OperationOK(op)
<1> DEFINE payload == UpdatePayload(policy[p], amount, period)
<1>1. /\ payload \in Payloads /\ payload.maxPerUse <= payload.maxPerPeriod
      /\ payload.usage # None => payload.usage.remaining <= payload.maxPerPeriod
  BY UpdatePayloadOK
<1> HIDE DEF payload
<1>2. p \in Seeds /\ policy[p] \in PolicyAccounts /\ policy[p].exists
  BY PolicyFields
<1>3. Update(p, holders, payload) \in Operations
  BY <1>1, <1>2 DEF Update, Operations
<1>4. OperationOK(Update(p, holders, payload))
  BY <1>1, <1>2 DEF Update, OperationOK
<1> QED BY <1>3, <1>4 DEF payload

LEMMA SameLimitOK ==
  ASSUME TypeOK, NEW p \in Existing, NEW holders \in AllSigners, holders # Nobody
  PROVE  LET op == Update(p, holders, SameLimit(p)) IN op \in Operations /\ OperationOK(op)
BY PolicyFields, UpdateOK DEF SameLimit

LEMMA CreateOK ==
  ASSUME TypeOK, NEW holders \in AllSigners, holders # Nobody,
         NEW amount \in Nat, NEW period \in AllPeriods
  PROVE  LET op == Create(holders, CreationPayload(amount, period))
         IN  op \in Operations /\ OperationOK(op)
<1> DEFINE payload == CreationPayload(amount, period)
<1>1. /\ payload \in Payloads /\ payload.maxPerUse <= payload.maxPerPeriod
      /\ payload.usage = None
  BY CreationPayloadOK
<1>2. policySeed \in Nat
  BY LimitsAssumption DEF TypeOK, Seeds
<1> HIDE DEF payload
<1>3. Create(holders, payload) \in Operations
  BY <1>1, <1>2 DEF Create, Operations
<1>4. OperationOK(Create(holders, payload))
  BY <1>1, <1>2 DEF Create, OperationOK
<1> QED BY <1>3, <1>4 DEF payload

LEMMA RemoveOK ==
  ASSUME TypeOK, NEW p \in Existing
  PROVE  Remove(p) \in Operations /\ OperationOK(Remove(p))
BY PolicyFields DEF Remove, Operations, OperationOK

-----------------------------------------------------------------------------
(* Every step preserves the invariant.                                     *)

LEMMA InitInv == Init => Inv
<1> SUFFICES ASSUME Init PROVE Inv
  OBVIOUS
<1> USE LimitsAssumption DEF Init
<1>1. now \in Times /\ policySeed \in Seeds /\ policySeed = 1
  BY DEF Times, Seeds
<1>2. PICK carries \in Accumulating :
        policy = [p \in Seeds |->
          IF p = 1
          THEN [exists |-> TRUE, signers |-> [a \in Agents |-> Permissions],
                maxPerPeriod |-> FirstLimit, maxPerUse |-> FirstPerUse,
                remaining |-> FirstLimit, lastReset |-> 0,
                period |-> "recurring", accumulateUnused |-> carries]
          ELSE NoPolicy]
  BY Zenon
<1>3. [a \in Agents |-> Permissions] \in [Agents -> SUBSET Permissions]
  OBVIOUS
<1>4. policy \in [Seeds -> PolicyAccounts]
  BY <1>2, <1>3 DEF PolicyAccounts, AllPeriods, Times
<1>5. \A p \in Seeds : policy[p].exists => p = 1
  BY <1>2 DEF NoPolicy
<1>6. policy[1].signers = [a \in Agents |-> Permissions]
  BY <1>1, <1>2
<1>7. \A p \in Existing : p <= policySeed /\ SignersOf(p) # {}
  BY <1>1, <1>5, <1>6 DEF Existing, SignersOf, Permissions
<1>8. prepared \in [Managers -> Operations]
  BY DEF Operations
<1>9. ledger \in [Seeds -> [opened : Times, spent : Nat, cap : Nat]]
  BY DEF Times
<1>10. PreparedInv
  BY DEF PreparedInv, OperationOK, Idle
<1> QED BY <1>1, <1>4, <1>7, <1>8, <1>9, <1>10 DEF Inv, TypeOK

\* A manager with nothing prepared prepares a sound operation.
LEMMA PrepareStep ==
  ASSUME Inv, NEW m \in Managers, NEW op \in Operations, OperationOK(op), Prepare(m, op)
  PROVE  Inv'
<1> USE DEF Prepare
<1>1. prepared' = [prepared EXCEPT ![m] = op] /\ UNCHANGED <<now, policySeed, policy, ledger>>
  OBVIOUS
<1>2. TypeOK'
  BY <1>1 DEF Inv, TypeOK, Existing, SignersOf
<1>3. PreparedInv'
  <2>1. ASSUME NEW x \in Managers PROVE OperationOK(prepared'[x])
    BY <1>1 DEF Inv, PreparedInv, TypeOK
  <2> QED BY <2>1 DEF PreparedInv, OperationOK
<1> QED BY <1>2, <1>3 DEF Inv

LEMMA ChangeStep ==
  ASSUME Inv, NEW m \in Managers, Change(m) PROVE Inv'
<1> USE DEF Inv
<1>g. /\ \A granted \in Grants : granted \in SUBSET Permissions /\ granted # {}
      /\ \A amount \in Amounts : amount \in Nat
      /\ \A period \in Periods : period \in AllPeriods
  BY LimitsAssumption
<1>n. ASSUME NEW holders \in AllSigners, NEW a \in Agents, holders[a] # {} PROVE holders # Nobody
  BY <1>n DEF Nobody
<1>1. CASE AddAgent(m)
  <2>1. PICK p \in Existing, a \in Agents, granted \in Grants :
          Prepare(m, Update(p, [policy[p].signers EXCEPT ![a] = @ \cup granted], SameLimit(p)))
    BY <1>1, Zenon DEF AddAgent
  <2> DEFINE holders == [policy[p].signers EXCEPT ![a] = @ \cup granted]
  <2>2. holders \in AllSigners /\ holders[a] # {}
    BY <1>g, PolicyFields DEF AllSigners
  <2> HIDE DEF holders
  <2>3. holders # Nobody
    BY <2>2, <1>n
  <2> QED BY <2>1, <2>2, <2>3, SameLimitOK, PrepareStep DEF holders
<1>2. CASE AddAgentByDefault(m)
  <2>1. PICK a \in Agents, granted \in Grants :
          Prepare(m, Create([Nobody EXCEPT ![a] = granted], CreationPayload(0, "recurring")))
    BY <1>2, Zenon DEF AddAgentByDefault
  <2> DEFINE holders == [Nobody EXCEPT ![a] = granted]
  <2>2. holders \in AllSigners /\ holders[a] # {}
    BY <1>g DEF AllSigners, Nobody
  <2> HIDE DEF holders
  <2>3. holders # Nobody
    BY <2>2, <1>n
  <2>4. 0 \in Nat /\ "recurring" \in AllPeriods
    BY DEF AllPeriods
  <2> QED BY <2>1, <2>2, <2>3, <2>4, CreateOK, PrepareStep DEF holders
<1>3. CASE UpdatePermissions(m)
  <2>1. PICK p \in Existing : \E a \in SignersOf(p), granted \in Grants :
          Prepare(m, Update(p, [policy[p].signers EXCEPT ![a] = granted], SameLimit(p)))
    BY <1>3, Zenon DEF UpdatePermissions
  <2>2. PICK a \in SignersOf(p), granted \in Grants :
          Prepare(m, Update(p, [policy[p].signers EXCEPT ![a] = granted], SameLimit(p)))
    BY <2>1
  <2> DEFINE holders == [policy[p].signers EXCEPT ![a] = granted]
  <2>3. a \in Agents
    BY DEF SignersOf
  <2>4. holders \in AllSigners /\ holders[a] # {}
    BY <1>g, <2>3, PolicyFields DEF AllSigners
  <2> HIDE DEF holders
  <2>5. holders # Nobody
    BY <2>3, <2>4, <1>n
  <2> QED BY <2>2, <2>4, <2>5, SameLimitOK, PrepareStep DEF holders
<1>4. CASE RemoveAgent(m)
  <2>1. PICK p \in Existing : \E a \in SignersOf(p) :
          Prepare(m, IF SignersOf(p) = {a} THEN Remove(p)
                     ELSE Update(p, [policy[p].signers EXCEPT ![a] = {}], SameLimit(p)))
    BY <1>4, Zenon DEF RemoveAgent
  <2>2. PICK a \in SignersOf(p) :
          Prepare(m, IF SignersOf(p) = {a} THEN Remove(p)
                     ELSE Update(p, [policy[p].signers EXCEPT ![a] = {}], SameLimit(p)))
    BY <2>1
  <2>3. CASE SignersOf(p) = {a}
    BY <2>2, <2>3, RemoveOK, PrepareStep
  <2>4. CASE SignersOf(p) # {a}
    <3> DEFINE holders == [policy[p].signers EXCEPT ![a] = {}]
    <3>1. PICK b \in SignersOf(p) : b # a
      BY <2>4
    <3>2. holders \in AllSigners /\ b \in Agents /\ holders[b] # {}
      BY <3>1, PolicyFields DEF AllSigners, SignersOf
    <3> HIDE DEF holders
    <3>3. holders # Nobody
      BY <3>2, <1>n
    <3> QED BY <2>2, <2>4, <3>2, <3>3, SameLimitOK, PrepareStep DEF holders
  <2> QED BY <2>3, <2>4
<1>5. CASE SetLimit(m)
  <2>1. PICK amount \in Amounts, period \in Periods :
          \/ \E p \in Existing :
               Prepare(m, Update(p, policy[p].signers, UpdatePayload(policy[p], amount, period)))
          \/ \E a \in Agents :
               Prepare(m, Create([Nobody EXCEPT ![a] = Permissions], CreationPayload(amount, period)))
    BY <1>5, Zenon DEF SetLimit
  <2>2. amount \in Nat /\ period \in AllPeriods
    BY <1>g
  <2>3. ASSUME NEW p \in Existing,
               Prepare(m, Update(p, policy[p].signers, UpdatePayload(policy[p], amount, period)))
        PROVE  Inv'
    <3>1. policy[p].signers \in AllSigners /\ policy[p].signers # Nobody
      BY PolicyFields, HasSigner
    <3> QED BY <2>2, <2>3, <3>1, UpdateOK, PrepareStep
  <2>4. ASSUME NEW a \in Agents,
               Prepare(m, Create([Nobody EXCEPT ![a] = Permissions], CreationPayload(amount, period)))
        PROVE  Inv'
    <3> DEFINE holders == [Nobody EXCEPT ![a] = Permissions]
    <3>1. holders \in AllSigners /\ holders[a] # {}
      BY DEF AllSigners, Nobody, Permissions
    <3> HIDE DEF holders
    <3>2. holders # Nobody
      BY <3>1, <1>n
    <3> QED BY <2>2, <2>4, <3>1, <3>2, CreateOK, PrepareStep DEF holders
  <2> QED BY <2>1, <2>3, <2>4
<1>6. CASE RemovePolicy(m)
  BY <1>6, RemoveOK, PrepareStep, Zenon DEF RemovePolicy
<1> QED BY <1>1, <1>2, <1>3, <1>4, <1>5, <1>6, Zenon DEF Change

\* The manager's operation is gone, whatever became of it.
LEMMA DoneType ==
  ASSUME Inv, NEW m \in Managers, Done(m)
  PROVE  prepared' \in [Managers -> Operations] /\ PreparedInv'
<1> USE DEF Inv, Done
<1>1. prepared' \in [Managers -> Operations]
  BY DEF TypeOK, Operations
<1>2. ASSUME NEW x \in Managers PROVE OperationOK(prepared'[x])
  BY DEF PreparedInv, OperationOK, TypeOK, Idle
<1> QED BY <1>1, <1>2 DEF PreparedInv, OperationOK

LEMMA RunningType ==
  ASSUME TypeOK, NEW p \in Seeds, policy[p].maxPerPeriod \in Nat
  PROVE  Running(p) \in [opened : Times, spent : Nat, cap : Nat]
<1> USE DEF TypeOK
<1>1. ledger[p] \in [opened : Times, spent : Nat, cap : Nat] /\ now \in Times
  OBVIOUS
<1>2. ledger[p].opened \in Times
  BY <1>1
<1> DEFINE passed == PeriodsPassed(ledger[p].opened, policy[p].period)
<1>3. ledger[p].opened + passed * Period \in Times
  BY <1>1, <1>2, PeriodsPassedRange
<1>4. Running(p) = IF passed = 0 THEN ledger[p]
                   ELSE [opened |-> ledger[p].opened + passed * Period, spent |-> 0,
                         cap |-> policy[p].maxPerPeriod]
  BY DEF Running
<1> HIDE DEF passed
<1> QED BY <1>1, <1>3, <1>4

LEMMA WrittenType ==
  ASSUME TypeOK, NEW op \in Operations, op.kind \in {"create", "update"}
  PROVE  /\ Written(op) \in PolicyAccounts /\ Written(op).exists
         /\ Written(op).signers = op.signers
         /\ op.signers \in AllSigners /\ op.payload.maxPerPeriod \in Nat
<1>1. op.payload \in Payloads /\ op.signers \in AllSigners
  BY DEF Operations, Idle
<1>2. now \in Times
  BY DEF TypeOK
<1> DEFINE usage == IF op.payload.usage # None THEN op.payload.usage
                    ELSE [remaining |-> op.payload.maxPerPeriod, lastReset |-> now]
<1>3. usage.remaining \in Nat /\ usage.lastReset \in Times
  BY <1>1, <1>2 DEF Payloads
<1>4. Written(op) =
        [exists |-> TRUE, signers |-> op.signers,
         maxPerPeriod |-> op.payload.maxPerPeriod, maxPerUse |-> op.payload.maxPerUse,
         remaining |-> usage.remaining, lastReset |-> usage.lastReset,
         period |-> op.payload.period, accumulateUnused |-> op.payload.accumulateUnused]
  BY DEF Written
<1> HIDE DEF usage
<1> QED BY <1>1, <1>3, <1>4 DEF PolicyAccounts, Payloads, AllSigners

LEMMA LandStep ==
  ASSUME Inv, NEW m \in Managers, Land(m) PROVE Inv'
<1> USE DEF Inv
<1> DEFINE op == prepared[m]
<1>1. op \in Operations /\ OperationOK(op) /\ op # Idle
  BY DEF TypeOK, PreparedInv, Land
<1>2. /\ Accepts(op) /\ op.on \in Seeds /\ Done(m) /\ now' = now
      /\ policySeed' = IF op.kind = "create" THEN op.on ELSE policySeed
      /\ policy' = [policy EXCEPT ![op.on] = IF op.kind = "remove" THEN NoPolicy ELSE Written(op)]
  BY DEF Land
<1>3. op.kind \in {"update", "create", "remove"}
  BY <1>1 DEF Operations
<1>4. prepared' \in [Managers -> Operations] /\ PreparedInv'
  BY <1>2, DoneType
<1>5. policySeed' \in Seeds /\ policySeed <= policySeed' /\ policySeed \in Nat
  <2>1. policySeed \in Seeds
    BY DEF TypeOK
  <2> QED BY <1>2, <2>1, LimitsAssumption DEF Accepts, Seeds
<1>6. op.kind = "update" => policy[op.on].exists /\ op.on <= policySeed
  BY <1>2 DEF Accepts, TypeOK, Existing
<1>7. ledger' \in [Seeds -> [opened : Times, spent : Nat, cap : Nat]]
  <2> DEFINE Entry ==
       CASE op.kind = "create" -> [opened |-> now, spent |-> 0, cap |-> op.payload.maxPerPeriod]
         [] op.kind = "update" /\ op.payload.period = policy[op.on].period ->
              [ledger[op.on] EXCEPT !.cap = Larger(@, op.payload.maxPerPeriod)]
         [] op.kind = "update" /\ op.payload.period # policy[op.on].period ->
              [ledger[op.on] EXCEPT !.spent = 0, !.cap = op.payload.maxPerPeriod]
         [] op.kind = "remove" -> [opened |-> 0, spent |-> 0, cap |-> 0]
  <2>1. ledger' = [ledger EXCEPT ![op.on] = Entry]
    BY Zenon DEF Land
  <2>2. Entry \in [opened : Times, spent : Nat, cap : Nat]
    <3>1. CASE op.kind = "create"
      BY <1>1, <3>1, WrittenType DEF TypeOK
    <3>2. CASE op.kind = "update"
      <4>1. op.payload.maxPerPeriod \in Nat
        BY <1>1, <3>2, WrittenType
      <4>2. ledger[op.on] \in [opened : Times, spent : Nat, cap : Nat]
        BY <1>2 DEF TypeOK
      <4> HIDE DEF op
      <4> QED BY <3>2, <4>1, <4>2 DEF Larger
    <3>3. CASE op.kind = "remove"
      BY <3>3, LimitsAssumption DEF Times
    <3> QED BY <1>3, <3>1, <3>2, <3>3
  <2> HIDE DEF Entry
  <2> QED BY <1>2, <2>1, <2>2 DEF TypeOK
<1>8. CASE op.kind = "remove"
  <2>1. policy' = [policy EXCEPT ![op.on] = NoPolicy] /\ policySeed' = policySeed
    BY <1>2, <1>8
  <2>2. policy' \in [Seeds -> PolicyAccounts]
    BY <2>1 DEF TypeOK, PolicyAccounts
  <2>3. \A p \in Existing' : p \in Existing /\ policy'[p] = policy[p]
    BY <1>2, <2>1 DEF Existing, NoPolicy, TypeOK
  <2>4. \A p \in Existing' : p <= policySeed' /\ SignersOf(p)' # {}
    BY <2>1, <2>3 DEF TypeOK, SignersOf
  <2> QED BY <1>2, <1>4, <1>5, <1>7, <2>2, <2>4 DEF TypeOK
<1>9. CASE op.kind \in {"create", "update"}
  <2>1. policy' = [policy EXCEPT ![op.on] = Written(op)]
    BY <1>2, <1>9
  <2>2. /\ Written(op) \in PolicyAccounts /\ Written(op).signers = op.signers
        /\ op.signers \in AllSigners /\ op.signers # Nobody
    BY <1>1, <1>9, WrittenType DEF OperationOK
  <2>3. policy' \in [Seeds -> PolicyAccounts]
    BY <2>1, <2>2 DEF TypeOK
  <2>4. op.on <= policySeed'
    BY <1>2, <1>3, <1>6, <1>5, <1>9 DEF Seeds
  <2>5. PICK a \in Agents : op.signers[a] # {}
    BY <2>2 DEF AllSigners, Nobody
  <2>6. ASSUME NEW p \in Existing' PROVE p <= policySeed' /\ SignersOf(p)' # {}
    <3>1. CASE p = op.on
      <4>1. policy'[p].signers[a] # {}
        BY <1>2, <2>1, <2>2, <2>5, <3>1 DEF TypeOK
      <4> QED BY <2>4, <3>1, <4>1 DEF SignersOf
    <3>2. CASE p # op.on
      <4>1. p \in Existing /\ policy'[p] = policy[p] /\ p \in Nat
        BY <1>2, <2>1, <3>2 DEF Existing, TypeOK, Seeds
      <4> QED BY <1>5, <4>1 DEF TypeOK, SignersOf, Seeds
    <3> QED BY <3>1, <3>2
  <2> QED BY <1>2, <1>4, <1>5, <1>7, <2>3, <2>6 DEF TypeOK
<1> QED BY <1>3, <1>8, <1>9

LEMMA LostStep ==
  ASSUME Inv, NEW m \in Managers, Lost(m) PROVE Inv'
<1>1. prepared' \in [Managers -> Operations] /\ PreparedInv'
  BY DoneType DEF Lost
<1> QED BY <1>1 DEF Inv, TypeOK, Lost, Existing, SignersOf

LEMMA SpendableType ==
  ASSUME TypeOK, NEW p \in Existing PROVE Spendable(p) \in Nat
<1>1. /\ policy[p].lastReset \in Times /\ policy[p].remaining \in Nat
      /\ policy[p].maxPerPeriod \in Nat /\ now \in Times
  BY PolicyFields DEF TypeOK
<1> DEFINE passed == PeriodsPassed(policy[p].lastReset, policy[p].period)
<1>2. passed \in Nat
  BY <1>1, PeriodsPassedRange
<1>3. passed * policy[p].maxPerPeriod \in Nat
  BY <1>1, <1>2, Product
<1>4. Spendable(p) =
        IF passed = 0 THEN policy[p].remaining
        ELSE IF policy[p].accumulateUnused
        THEN policy[p].remaining + passed * policy[p].maxPerPeriod
        ELSE policy[p].maxPerPeriod
  BY DEF Spendable
<1> HIDE DEF passed
<1> QED BY <1>1, <1>3, <1>4

LEMMA SpendStep ==
  ASSUME Inv, NEW a \in Agents, Spend(a) PROVE Inv'
<1> USE DEF Inv
<1>p. PICK p \in Existing : \E amount \in 1 .. Smaller(Spendable(p), policy[p].maxPerUse) :
        /\ policy' = [policy EXCEPT ![p] =
             [policy[p] EXCEPT !.remaining = Spendable(p) - amount, !.lastReset = LastReset(p)]]
        /\ ledger' = [ledger EXCEPT ![p] = [Running(p) EXCEPT !.spent = @ + amount]]
        /\ UNCHANGED <<now, policySeed, prepared>>
  BY Zenon DEF Spend
<1>1. PICK amount \in 1 .. Smaller(Spendable(p), policy[p].maxPerUse) :
        /\ policy' = [policy EXCEPT ![p] =
             [policy[p] EXCEPT !.remaining = Spendable(p) - amount, !.lastReset = LastReset(p)]]
        /\ ledger' = [ledger EXCEPT ![p] = [Running(p) EXCEPT !.spent = @ + amount]]
        /\ UNCHANGED <<now, policySeed, prepared>>
  BY <1>p
<1>2. Spendable(p) - amount \in Nat /\ amount \in Nat
  BY SpendableType, PolicyFields DEF Smaller
<1>3. LastReset(p) \in Times
  BY PolicyFields, PeriodsPassedRange DEF TypeOK, LastReset
<1> DEFINE left == Spendable(p) - amount
           reset == LastReset(p)
<1>4. policy' = [policy EXCEPT ![p] = [policy[p] EXCEPT !.remaining = left, !.lastReset = reset]]
  BY <1>1
<1>5. left \in Nat /\ reset \in Times
  BY <1>2, <1>3
<1> HIDE DEF left, reset
<1>6. /\ p \in Seeds /\ policy[p] \in PolicyAccounts /\ policy[p] # NoPolicy /\ policy[p].exists
  BY PolicyFields DEF NoPolicy
<1> DEFINE after == [policy[p] EXCEPT !.remaining = left, !.lastReset = reset]
<1>7. after \in PolicyAccounts /\ after.signers = policy[p].signers
  BY <1>5, <1>6 DEF PolicyAccounts
<1> HIDE DEF after
<1>8. policy' = [policy EXCEPT ![p] = after]
  BY <1>4 DEF after
<1>9. policy' \in [Seeds -> PolicyAccounts]
  BY <1>7, <1>8 DEF TypeOK
<1>10. \A x \in Existing' : x \in Existing /\ policy'[x].signers = policy[x].signers
  BY <1>6, <1>7, <1>8 DEF Existing, TypeOK
<1>11. \A x \in Existing' : x <= policySeed' /\ SignersOf(x)' # {}
  BY <1>1, <1>10 DEF TypeOK, SignersOf
<1>12. Running(p) \in [opened : Times, spent : Nat, cap : Nat]
  BY <1>6, RunningType, PolicyFields
<1>13. [Running(p) EXCEPT !.spent = @ + amount] \in [opened : Times, spent : Nat, cap : Nat]
  BY <1>2, <1>12
<1>14. ledger' \in [Seeds -> [opened : Times, spent : Nat, cap : Nat]]
  BY <1>1, <1>13 DEF TypeOK
<1>15. TypeOK'
  BY <1>1, <1>9, <1>11, <1>14 DEF TypeOK
<1>16. PreparedInv'
  BY <1>1 DEF PreparedInv, OperationOK
<1> QED BY <1>15, <1>16

LEMMA TickStep == ASSUME Inv, Tick PROVE Inv'
BY LimitsAssumption
   DEF Inv, TypeOK, Tick, Times, Existing, SignersOf, PreparedInv, OperationOK

LEMMA NextInv == Inv /\ [Next]_vars => Inv'
<1> SUFFICES ASSUME Inv, [Next]_vars PROVE Inv'
  OBVIOUS
<1>1. ASSUME NEW m \in Managers, Change(m) \/ Land(m) \/ Lost(m) PROVE Inv'
  BY <1>1, ChangeStep, LandStep, LostStep, Zenon
<1>2. ASSUME NEW a \in Agents, Spend(a) PROVE Inv'
  BY <1>2, SpendStep
<1>3. CASE Tick
  BY <1>3, TickStep
<1>4. CASE UNCHANGED vars
  BY <1>4 DEF vars, Inv, TypeOK, Existing, SignersOf, PreparedInv, OperationOK
<1> QED BY <1>1, <1>2, <1>3, <1>4, Zenon DEF Next

LEMMA InvHolds == Spec => []Inv
BY InitInv, NextInv, PTL DEF Spec

-----------------------------------------------------------------------------
(* What follows from it.                                                   *)

LEMMA InvAccepted == Inv => PreparedIsAccepted
<1> SUFFICES ASSUME Inv, NEW m \in Managers
             PROVE  LET op == prepared[m] IN
                    /\ op.kind = "remove" /\ op.read = policy[op.on] => Accepts(op)
                    /\ op.kind = "update" /\ op.read = policy[op.on] /\ ~AlwaysRefused(op.payload)
                         => Accepts(op)
                    /\ op.kind = "create" /\ op.read = policySeed /\ ~AlwaysRefused(op.payload)
                         => Accepts(op)
  BY DEF PreparedIsAccepted
<1> DEFINE op == prepared[m]
<1>1. op \in Operations /\ OperationOK(op)
  BY DEF Inv, TypeOK, PreparedInv
<1> HIDE DEF op
<1>2. op.kind = "remove" /\ op.read = policy[op.on] => Accepts(op)
  BY <1>1 DEF OperationOK, Accepts
<1>3. ASSUME op.kind \in {"update", "create"}, ~AlwaysRefused(op.payload)
      PROVE  ValidPayload(op.payload) /\ op.signers # Nobody
  <2>1. op.payload \in Payloads
    BY <1>1, <1>3 DEF Operations, Idle
  <2>2. op.payload.maxPerPeriod > 0 /\ ~op.payload.accumulateUnused
    BY <1>3, <2>1 DEF Payloads, AlwaysRefused
  <2> QED BY <1>1, <1>3, <2>2 DEF OperationOK, ValidPayload
<1>4. op.kind = "update" /\ op.read = policy[op.on] /\ ~AlwaysRefused(op.payload) => Accepts(op)
  BY <1>1, <1>3 DEF OperationOK, Accepts
<1>5. op.kind = "create" /\ op.read = policySeed /\ ~AlwaysRefused(op.payload) => Accepts(op)
  BY <1>1, <1>3 DEF OperationOK, Accepts
<1> QED BY <1>2, <1>4, <1>5 DEF op

LEMMA InvShown == Inv => ShownIsSpendable
<1> SUFFICES ASSUME Inv, NEW p \in Existing PROVE EffectiveRemaining(p, now) = Spendable(p)
  BY DEF ShownIsSpendable
<1>1. /\ policy[p].lastReset \in Times /\ policy[p].remaining \in Nat
      /\ policy[p].maxPerPeriod \in Nat /\ now \in Times /\ policy[p].period \in AllPeriods
  BY PolicyFields DEF Inv, TypeOK
<1> DEFINE passed == (now - policy[p].lastReset) \div Period
<1>2. CASE policy[p].period = "one_time" \/ now <= policy[p].lastReset + Period
  <2>1. PeriodsPassed(policy[p].lastReset, policy[p].period) = 0
    BY <1>1, <1>2, LimitsAssumption DEF PeriodsPassed, Times
  <2>2. policy[p].period = "one_time" \/ now - policy[p].lastReset <= Period
    BY <1>1, <1>2, LimitsAssumption DEF Times
  <2> QED BY <2>1, <2>2 DEF Spendable, EffectiveRemaining
<1>3. CASE policy[p].period = "recurring" /\ now > policy[p].lastReset + Period
  <2>1. PeriodsPassed(policy[p].lastReset, policy[p].period) = passed
    BY <1>3 DEF PeriodsPassed
  <2>2. now - policy[p].lastReset \in Nat /\ now - policy[p].lastReset > Period
    BY <1>1, <1>3, LimitsAssumption DEF Times
  <2>3. passed \in Nat /\ passed # 0
    BY <2>2, LimitsAssumption, Z3
  <2>4. passed * policy[p].maxPerPeriod = policy[p].maxPerPeriod * passed
    BY <1>1, <2>3, Product
  <2>5. ~(policy[p].period = "one_time" \/ now - policy[p].lastReset <= Period)
    BY <1>1, <1>3, <2>2, LimitsAssumption DEF Times
  <2>6. EffectiveRemaining(p, now) =
          IF policy[p].accumulateUnused
          THEN policy[p].remaining + policy[p].maxPerPeriod * passed
          ELSE policy[p].maxPerPeriod
    BY <2>5 DEF EffectiveRemaining
  <2>7. Spendable(p) =
          IF policy[p].accumulateUnused
          THEN policy[p].remaining + passed * policy[p].maxPerPeriod
          ELSE policy[p].maxPerPeriod
    BY <2>1, <2>3 DEF Spendable
  <2> QED BY <2>4, <2>6, <2>7
<1> QED BY <1>1, <1>2, <1>3, LimitsAssumption DEF AllPeriods, Times

\* Every variable keeps its range, for any number of managers, agents, policies
\* and amounts; the prepared operations carry well-formed payloads.
THEOREM LimitsTypeCorrect == Spec => []TypeOK
<1>1. Inv => TypeOK
  BY DEF Inv
<1> QED BY <1>1, InvHolds, PTL

\* The program accepts every change that nobody has overtaken, apart from the
\* two kinds it never accepts, for any limits and whatever was spent before.
THEOREM CurrentIsAccepted == Spec => []PreparedIsAccepted
BY InvHolds, InvAccepted, PTL

\* The overview shows what can be spent, for any limits, periods and times.
THEOREM OverviewIsRight == Spec => []ShownIsSpendable
BY InvHolds, InvShown, PTL
-----------------------------------------------------------------------------
(* Nobody spends a limit twice, as long as agents wait for changes on      *)
(* their way.                                                              *)

\* The period the program counts in is the one that really runs, and what it
\* would still let through in it fits under the limit.
BudgetInv ==
  \A p \in Existing :
    /\ policy[p].lastReset = ledger[p].opened
    /\ ~policy[p].accumulateUnused => ledger[p].spent + policy[p].remaining <= ledger[p].cap

\* So does what a change on its way would let through; a new policy starts full.
Fits(op) ==
  /\ op.kind = "create" => op.payload.usage = None
  /\ op.kind = "update" =>
       /\ op.on <= policySeed
       /\ op.payload.usage \in [remaining : Nat, lastReset : Times]
       /\ op.on \in Existing /\ ~op.payload.accumulateUnused =>
            /\ op.payload.usage.lastReset = ledger[op.on].opened
            /\ op.payload.usage.remaining + ledger[op.on].spent
                 <= Larger(ledger[op.on].cap, op.payload.maxPerPeriod)

ChangeInv == \A m \in Managers : Fits(prepared[m])

LEMMA LedgerFields ==
  ASSUME TypeOK, NEW p \in Seeds
  PROVE  /\ ledger[p].opened \in Times /\ ledger[p].spent \in Nat /\ ledger[p].cap \in Nat
BY DEF TypeOK

\* Every change of an existing policy is built over what was read of it.
LEMMA ChangeForm ==
  ASSUME Inv, NEW m \in Managers, Change(m)
  PROVE  \E op : /\ Prepare(m, op)
                 /\ \/ op.kind # "update" /\ (op.kind = "create" => op.payload.usage = None)
                    \/ \E p \in Existing, amount \in Nat, period \in AllPeriods : \E holders :
                         op = Update(p, holders, UpdatePayload(policy[p], amount, period))
<1>g. /\ \A amount \in Amounts : amount \in Nat
      /\ \A period \in Periods : period \in AllPeriods
  BY LimitsAssumption
<1>s. ASSUME NEW p \in Existing, NEW holders, Prepare(m, Update(p, holders, SameLimit(p)))
      PROVE  \E op : /\ Prepare(m, op)
                     /\ \E q \in Existing, amount \in Nat, period \in AllPeriods : \E granted :
                          op = Update(q, granted, UpdatePayload(policy[q], amount, period))
  BY <1>s, PolicyFields, Zenon DEF SameLimit, Inv
<1>c. ASSUME NEW holders, NEW amount, NEW period,
             Prepare(m, Create(holders, CreationPayload(amount, period)))
      PROVE  \E op : /\ Prepare(m, op)
                     /\ op.kind # "update" /\ (op.kind = "create" => op.payload.usage = None)
  <2>1. /\ Create(holders, CreationPayload(amount, period)).kind # "update"
        /\ Create(holders, CreationPayload(amount, period)).payload.usage = None
    BY DEF Create, CreationPayload
  <2> QED BY <1>c, <2>1, Zenon
<1>r. ASSUME NEW p, Prepare(m, Remove(p))
      PROVE  \E op : /\ Prepare(m, op)
                     /\ op.kind # "update" /\ (op.kind = "create" => op.payload.usage = None)
  <2>1. Remove(p).kind # "update" /\ Remove(p).kind # "create"
    BY DEF Remove
  <2> QED BY <1>r, <2>1, Zenon
<1>1. CASE AddAgent(m)
  BY <1>1, <1>s, Zenon DEF AddAgent
<1>2. CASE AddAgentByDefault(m)
  BY <1>2, <1>c, Zenon DEF AddAgentByDefault
<1>3. CASE UpdatePermissions(m)
  BY <1>3, <1>s, Zenon DEF UpdatePermissions
<1>4. CASE RemoveAgent(m)
  <2>1. PICK p \in Existing : \E a \in SignersOf(p) :
          Prepare(m, IF SignersOf(p) = {a} THEN Remove(p)
                     ELSE Update(p, [policy[p].signers EXCEPT ![a] = {}], SameLimit(p)))
    BY <1>4, Zenon DEF RemoveAgent
  <2>2. PICK a \in SignersOf(p) :
          Prepare(m, IF SignersOf(p) = {a} THEN Remove(p)
                     ELSE Update(p, [policy[p].signers EXCEPT ![a] = {}], SameLimit(p)))
    BY <2>1
  <2>3. CASE SignersOf(p) = {a}
    BY <1>r, <2>2, <2>3, Zenon
  <2>4. CASE SignersOf(p) # {a}
    BY <1>s, <2>2, <2>4, Zenon
  <2> QED BY <2>3, <2>4
<1>5. CASE SetLimit(m)
  <2>1. PICK amount \in Amounts, period \in Periods :
          \/ \E p \in Existing :
               Prepare(m, Update(p, policy[p].signers, UpdatePayload(policy[p], amount, period)))
          \/ \E a \in Agents :
               Prepare(m, Create([Nobody EXCEPT ![a] = Permissions], CreationPayload(amount, period)))
    BY <1>5, Zenon DEF SetLimit
  <2>2. CASE \E p \in Existing :
               Prepare(m, Update(p, policy[p].signers, UpdatePayload(policy[p], amount, period)))
    BY <1>g, <2>2, Zenon
  <2>3. CASE \E a \in Agents :
               Prepare(m, Create([Nobody EXCEPT ![a] = Permissions], CreationPayload(amount, period)))
    BY <1>c, <2>3, Zenon
  <2> QED BY <2>1, <2>2, <2>3
<1>6. CASE RemovePolicy(m)
  BY <1>6, <1>r, Zenon DEF RemovePolicy
<1> QED BY <1>1, <1>2, <1>3, <1>4, <1>5, <1>6, Zenon DEF Change

\* Preparing a change takes no more than what is left.
LEMMA ChangeBudget ==
  ASSUME Inv, BudgetInv, ChangeInv, NEW m \in Managers, Change(m)
  PROVE  BudgetInv' /\ ChangeInv'
<1>1. PICK op : /\ Prepare(m, op)
                /\ \/ op.kind # "update" /\ (op.kind = "create" => op.payload.usage = None)
                   \/ \E p \in Existing, amount \in Nat, period \in AllPeriods : \E holders :
                        op = Update(p, holders, UpdatePayload(policy[p], amount, period))
  BY ChangeForm
<1>2. prepared' = [prepared EXCEPT ![m] = op] /\ UNCHANGED <<now, policySeed, policy, ledger>>
  BY <1>1 DEF Prepare
<1>3. Fits(op)
  <2>1. CASE op.kind # "update" /\ (op.kind = "create" => op.payload.usage = None)
    BY <2>1 DEF Fits
  <2>2. ASSUME NEW p \in Existing, NEW amount \in Nat, NEW period \in AllPeriods, NEW holders,
               op = Update(p, holders, UpdatePayload(policy[p], amount, period))
        PROVE  Fits(op)
    <3> DEFINE usage == ResolveUpdatedUsageState(policy[p], amount)
    <3>1. /\ op.on = p /\ op.payload.usage = usage /\ op.payload.maxPerPeriod = amount
          /\ op.payload.accumulateUnused = policy[p].accumulateUnused
          /\ op.kind = "update"
      BY <2>2 DEF Update, UpdatePayload
    <3>2. /\ usage.remaining \in Nat /\ usage.lastReset = policy[p].lastReset
          /\ usage.remaining <= policy[p].remaining
          /\ usage \in [remaining : Nat, lastReset : Times]
          /\ policy[p].remaining \in Nat
      BY PolicyFields DEF ResolveUpdatedUsageState, Smaller, Inv
    <3> HIDE DEF usage
    <3>3. p <= policySeed /\ ledger[p].spent \in Nat /\ ledger[p].cap \in Nat
      BY PolicyFields, LedgerFields DEF Inv, TypeOK
    <3>4. ASSUME ~policy[p].accumulateUnused
          PROVE  usage.remaining + ledger[p].spent <= Larger(ledger[p].cap, amount)
      BY <3>2, <3>3, <3>4 DEF BudgetInv, Larger
    <3> QED BY <3>1, <3>2, <3>3, <3>4 DEF Fits, BudgetInv
  <2> QED BY <1>1, <2>1, <2>2
<1>4. BudgetInv'
  BY <1>2 DEF BudgetInv, Existing
<1>5. ASSUME NEW x \in Managers PROVE Fits(prepared[x])' 
  <2>1. prepared'[x] = op \/ prepared'[x] = prepared[x]
    BY <1>2 DEF Inv, TypeOK
  <2> QED BY <1>2, <1>3, <2>1 DEF ChangeInv, Fits, Existing
<1> QED BY <1>4, <1>5 DEF ChangeInv

\* A change that lands takes the place of what is left, and a new period starts
\* with nothing spent.
LEMMA LandBudget ==
  ASSUME Inv, BudgetInv, ChangeInv, NEW m \in Managers, Land(m)
  PROVE  BudgetInv' /\ ChangeInv'
<1> DEFINE op == prepared[m]
<1>1. op \in Operations /\ OperationOK(op) /\ Fits(op)
  BY DEF Inv, TypeOK, PreparedInv, ChangeInv
<1>2. /\ Accepts(op) /\ op.on \in Seeds /\ now' = now /\ op # Idle
      /\ prepared' = [prepared EXCEPT ![m] = Idle]
      /\ policySeed' = IF op.kind = "create" THEN op.on ELSE policySeed
      /\ policy' = [policy EXCEPT ![op.on] = IF op.kind = "remove" THEN NoPolicy ELSE Written(op)]
  BY DEF Land, Done
<1>3. op.kind \in {"update", "create", "remove"}
  BY <1>1, <1>2 DEF Operations
<1>4. /\ op.kind = "create" =>
           ledger' = [ledger EXCEPT ![op.on] =
             [opened |-> now, spent |-> 0, cap |-> op.payload.maxPerPeriod]]
      /\ op.kind = "update" /\ op.payload.period = policy[op.on].period =>
           ledger' = [ledger EXCEPT ![op.on] =
             [ledger[op.on] EXCEPT !.cap = Larger(@, op.payload.maxPerPeriod)]]
      /\ op.kind = "update" /\ op.payload.period # policy[op.on].period =>
           ledger' = [ledger EXCEPT ![op.on] =
             [ledger[op.on] EXCEPT !.spent = 0, !.cap = op.payload.maxPerPeriod]]
      /\ op.kind = "remove" =>
           ledger' = [ledger EXCEPT ![op.on] = [opened |-> 0, spent |-> 0, cap |-> 0]]
  BY DEF Land
<1>5. /\ policy \in [Seeds -> PolicyAccounts] /\ policySeed \in Nat /\ op.on \in Nat
      /\ ledger \in [Seeds -> [opened : Times, spent : Nat, cap : Nat]]
      /\ prepared \in [Managers -> Operations] /\ now \in Times
  BY <1>2, LimitsAssumption DEF Inv, TypeOK, Seeds
<1> DEFINE q == op.on
<1>6. \A p \in Seeds \ {q} : policy'[p] = policy[p] /\ ledger'[p] = ledger[p]
  BY <1>2, <1>3, <1>4, <1>5
<1>7. ASSUME op.kind = "update"
      PROVE  /\ q \in Existing /\ ~op.payload.accumulateUnused
             /\ policy'[q].lastReset = ledger'[q].opened
             /\ ledger'[q].opened = ledger[q].opened
             /\ ledger'[q].spent + policy'[q].remaining <= ledger'[q].cap
             /\ \/ ledger'[q].spent = 0
                \/ ledger'[q].spent = ledger[q].spent /\ ledger[q].cap <= ledger'[q].cap
  <2>1. /\ op.payload.usage \in [remaining : Nat, lastReset : Times]
        /\ op.payload.usage # None
    BY <1>1, <1>7, LimitsAssumption DEF Fits
  <2>2. q \in Existing /\ ~op.payload.accumulateUnused
    BY <1>2, <1>7, <2>1 DEF Accepts, ValidPayload, Existing
  <2>3. policy'[q].lastReset = op.payload.usage.lastReset
        /\ policy'[q].remaining = op.payload.usage.remaining
    BY <1>2, <1>5, <1>7, <2>1 DEF Written
  <2>4. op.payload.maxPerPeriod \in Nat /\ op.payload.usage.remaining <= op.payload.maxPerPeriod
        /\ op.payload.usage.remaining \in Nat
    BY <1>1, <1>7, <2>1 DEF Operations, Payloads, Idle, OperationOK
  <2>5. /\ op.payload.usage.lastReset = ledger[q].opened
        /\ op.payload.usage.remaining + ledger[q].spent <= Larger(ledger[q].cap, op.payload.maxPerPeriod)
    BY <1>1, <1>7, <2>2 DEF Fits
  <2>6. ledger[q].spent \in Nat /\ ledger[q].cap \in Nat
    BY <1>2, <1>5
  <2>7. CASE op.payload.period = policy[q].period
    <3>1. /\ ledger'[q].opened = ledger[q].opened /\ ledger'[q].spent = ledger[q].spent
          /\ ledger'[q].cap = Larger(ledger[q].cap, op.payload.maxPerPeriod)
      BY <1>2, <1>4, <1>5, <1>7, <2>7
    <3> HIDE DEF op
    <3> QED BY <2>2, <2>3, <2>4, <2>5, <2>6, <3>1 DEF Larger
  <2>8. CASE op.payload.period # policy[q].period
    <3>1. /\ ledger'[q].opened = ledger[q].opened /\ ledger'[q].spent = 0
          /\ ledger'[q].cap = op.payload.maxPerPeriod
      <4>1. ledger[q] \in [opened : Times, spent : Nat, cap : Nat]
        BY <1>2, <1>5
      <4>2. ledger'[q] = [ledger[q] EXCEPT !.spent = 0, !.cap = op.payload.maxPerPeriod]
        BY <1>2, <1>4, <1>5, <1>7, <2>8
      <4> HIDE DEF op
      <4> QED BY <4>1, <4>2
    <3> HIDE DEF op
    <3> QED BY <2>2, <2>3, <2>4, <2>5, <2>6, <3>1
  <2> QED BY <2>7, <2>8
<1>8. ASSUME op.kind = "create"
      PROVE  /\ q = policySeed + 1 /\ policy'[q].lastReset = ledger'[q].opened
             /\ policy'[q].accumulateUnused \/ ledger'[q].spent + policy'[q].remaining <= ledger'[q].cap
  <2>1. q = policySeed + 1
    BY <1>2, <1>8 DEF Accepts
  <2>2. op.payload \in Payloads
    BY <1>1, <1>8 DEF Operations, Idle
  <2>3. ledger'[q] = [opened |-> now, spent |-> 0, cap |-> op.payload.maxPerPeriod]
    BY <1>2, <1>4, <1>5, <1>8
  <2>4. op.payload.usage = None
    BY <1>1, <1>8 DEF Fits
  <2>5. policy'[q] = Written(op)
    BY <1>2, <1>5, <1>8
  <2>6. policy'[q].lastReset = now /\ policy'[q].remaining = op.payload.maxPerPeriod
    BY <2>4, <2>5 DEF Written
  <2>7. op.payload.maxPerPeriod \in Nat
    BY <2>2 DEF Payloads
  <2> HIDE DEF op
  <2> QED BY <2>1, <2>3, <2>6, <2>7
<1>9. op.kind = "remove" => q \notin Existing'
  BY <1>2, <1>5 DEF Existing, NoPolicy
<1>10. BudgetInv'
  <2>1. ASSUME NEW p \in Existing', p # q
        PROVE  p \in Existing
    BY <1>6, <2>1 DEF Existing
  <2> QED BY <1>3, <1>6, <1>7, <1>8, <1>9, <2>1 DEF BudgetInv, Existing
<1>11. ASSUME NEW x \in Managers PROVE Fits(prepared[x])'
  <2>1. CASE x = m
    BY <1>2, <1>5, <2>1 DEF Fits, Idle
  <2>2. CASE x # m
    <3> DEFINE other == prepared[x]
    <3>1. prepared'[x] = other /\ other \in Operations /\ OperationOK(other) /\ Fits(other)
      BY <1>2, <1>5, <2>2 DEF Inv, PreparedInv, ChangeInv
    <3>2. policySeed <= policySeed' /\ policySeed' \in Nat
      BY <1>2, <1>5 DEF Accepts
    <3> HIDE DEF other
    <3>3. CASE other.kind = "update"
      <4>1. /\ other.on <= policySeed /\ other.on \in Seeds
            /\ other.payload.usage \in [remaining : Nat, lastReset : Times]
            /\ other.payload.maxPerPeriod \in Nat
            /\ other.payload.usage.remaining <= other.payload.maxPerPeriod
        <5>1. other.payload \in Payloads /\ other.on \in Seeds
          BY <3>1, <3>3 DEF Operations, Idle
        <5>2. /\ other.payload.usage \in [remaining : Nat, lastReset : Times]
              /\ other.on <= policySeed
          BY <3>1, <3>3 DEF Fits
        <5> QED BY <3>1, <3>3, <5>1, <5>2, LimitsAssumption DEF OperationOK, Payloads
      <4>2. other.on <= policySeed'
        BY <1>5, <3>2, <4>1 DEF Seeds
      <4>3. ASSUME other.on \in Existing', ~other.payload.accumulateUnused
            PROVE  /\ other.payload.usage.lastReset = ledger'[other.on].opened
                   /\ other.payload.usage.remaining + ledger'[other.on].spent
                        <= Larger(ledger'[other.on].cap, other.payload.maxPerPeriod)
        <5>1. CASE other.on # q
          <6>1. other.on \in Existing /\ ledger'[other.on] = ledger[other.on]
            BY <1>6, <4>1, <4>3, <5>1 DEF Existing
          <6> QED BY <3>1, <3>3, <4>3, <6>1 DEF Fits
        <5>2. CASE other.on = q
          <6>1. op.kind = "update"
            <7>1. op.kind # "create"
              BY <1>5, <1>8, <4>1, <5>2
            <7> QED BY <1>3, <1>9, <4>3, <5>2, <7>1
          <6>2. /\ other.payload.usage.lastReset = ledger[q].opened
                /\ other.payload.usage.remaining + ledger[q].spent
                     <= Larger(ledger[q].cap, other.payload.maxPerPeriod)
            BY <1>7, <3>1, <3>3, <4>3, <5>2, <6>1 DEF Fits
          <6>3. /\ ledger[q].cap \in Nat /\ ledger[q].spent \in Nat
                /\ ledger'[q].cap \in Nat
            <7>1. op.payload.maxPerPeriod \in Nat /\ ledger[q] \in [opened : Times, spent : Nat, cap : Nat]
              BY <1>1, <1>2, <1>5, <6>1 DEF Operations, Payloads, Idle
            <7> QED BY LandStep, LedgerFields, <1>2, <7>1 DEF Inv, TypeOK
          <6>4. other.payload.usage.remaining \in Nat
            BY <4>1
          <6> HIDE DEF op
          <6> QED BY <1>7, <4>1, <5>2, <6>1, <6>2, <6>3, <6>4 DEF Larger
        <5> QED BY <5>1, <5>2
      <4> QED BY <3>1, <3>3, <4>1, <4>2, <4>3 DEF Fits
    <3>4. CASE other.kind # "update"
      BY <3>1, <3>4 DEF Fits
    <3> QED BY <3>3, <3>4
  <2> QED BY <2>1, <2>2
<1> QED BY <1>10, <1>11 DEF ChangeInv

\* A use is counted in the period the program counts it in.
LEMMA SpendBudget ==
  ASSUME AgentsPause, Inv, BudgetInv, ChangeInv, NEW a \in Agents, Spend(a)
  PROVE  BudgetInv' /\ ChangeInv'
<1>1. PICK p \in Existing : \E amount \in 1 .. Smaller(Spendable(p), policy[p].maxPerUse) :
        /\ \A m \in Managers : prepared[m] = Idle
        /\ policy' = [policy EXCEPT ![p] =
             [policy[p] EXCEPT !.remaining = Spendable(p) - amount, !.lastReset = LastReset(p)]]
        /\ ledger' = [ledger EXCEPT ![p] = [Running(p) EXCEPT !.spent = @ + amount]]
        /\ UNCHANGED <<now, policySeed, prepared>>
  BY Zenon DEF Spend
<1>2. PICK amount \in 1 .. Smaller(Spendable(p), policy[p].maxPerUse) :
        /\ \A m \in Managers : prepared[m] = Idle
        /\ policy' = [policy EXCEPT ![p] =
             [policy[p] EXCEPT !.remaining = Spendable(p) - amount, !.lastReset = LastReset(p)]]
        /\ ledger' = [ledger EXCEPT ![p] = [Running(p) EXCEPT !.spent = @ + amount]]
        /\ UNCHANGED <<now, policySeed, prepared>>
  BY <1>1
<1>3. ChangeInv'
  BY <1>2 DEF ChangeInv, Fits, Idle
<1>4. /\ policy[p].lastReset \in Times /\ policy[p].remaining \in Nat
      /\ policy[p].maxPerPeriod \in Nat /\ p \in Seeds /\ policy[p] \in PolicyAccounts
      /\ policy[p] # NoPolicy /\ ledger[p] \in [opened : Times, spent : Nat, cap : Nat]
      /\ policy[p].exists
  BY PolicyFields DEF Inv, TypeOK, NoPolicy
<1> DEFINE passed == PeriodsPassed(policy[p].lastReset, policy[p].period)
           opened == policy[p].lastReset + passed * Period
           left == Spendable(p) - amount
<1>5. passed \in Nat /\ passed * Period \in Nat /\ (passed = 0 => opened = policy[p].lastReset)
  <2>1. passed \in Nat /\ passed * Period \in Nat
    BY <1>4, PeriodsPassedRange DEF Inv, TypeOK, Times
  <2>2. ASSUME passed = 0 PROVE passed * Period = 0
    <3> HIDE DEF passed
    <3> QED BY <2>2, LimitsAssumption
  <2>3. policy[p].lastReset + 0 = policy[p].lastReset
    BY <1>4, LimitsAssumption DEF Times
  <2> QED BY <2>1, <2>2, <2>3
<1>6. LastReset(p) = opened
  BY DEF LastReset
<1>7. Running(p) = IF passed = 0 THEN ledger[p]
                   ELSE [opened |-> opened, spent |-> 0, cap |-> policy[p].maxPerPeriod]
  BY DEF Running, BudgetInv
<1>8. Spendable(p) \in Nat /\ amount \in Nat /\ amount <= Spendable(p)
  BY SpendableType, PolicyFields DEF Inv, Smaller
<1>9. ~policy[p].accumulateUnused =>
        Spendable(p) = IF passed = 0 THEN policy[p].remaining ELSE policy[p].maxPerPeriod
  BY DEF Spendable
<1>10. policy[p].lastReset = ledger[p].opened
       /\ (~policy[p].accumulateUnused => ledger[p].spent + policy[p].remaining <= ledger[p].cap)
  BY DEF BudgetInv
<1> HIDE DEF passed, opened
<1>11. /\ policy'[p] = [policy[p] EXCEPT !.remaining = left, !.lastReset = opened]
       /\ ledger'[p] = [Running(p) EXCEPT !.spent = @ + amount]
       /\ \A q \in Seeds \ {p} : policy'[q] = policy[q] /\ ledger'[q] = ledger[q]
  BY <1>2, <1>4, <1>6 DEF Inv, TypeOK
<1> HIDE DEF left
<1>12. /\ policy'[p].lastReset = opened /\ policy'[p].remaining = left
       /\ policy'[p].accumulateUnused = policy[p].accumulateUnused
  BY <1>4, <1>11 DEF PolicyAccounts
<1>13. /\ ledger'[p].opened = Running(p).opened /\ ledger'[p].cap = Running(p).cap
       /\ ledger'[p].spent = Running(p).spent + amount
  BY <1>4, <1>7, <1>11
<1>14. policy'[p].lastReset = ledger'[p].opened
  BY <1>5, <1>7, <1>10, <1>12, <1>13
<1>15. ~policy[p].accumulateUnused => ledger'[p].spent + policy'[p].remaining <= ledger'[p].cap
  BY <1>4, <1>7, <1>8, <1>9, <1>10, <1>12, <1>13 DEF left
<1>16. \A q \in Existing' : q \in Existing
  BY <1>4, <1>11 DEF Existing
<1>17. BudgetInv'
  BY <1>11, <1>12, <1>14, <1>15, <1>16 DEF BudgetInv, Existing
<1> QED BY <1>3, <1>17

LEMMA BudgetInductive ==
  ASSUME AgentsPause
  PROVE  /\ Init => BudgetInv /\ ChangeInv
         /\ Inv /\ BudgetInv /\ ChangeInv /\ [Next]_vars => BudgetInv' /\ ChangeInv'
<1>1. ASSUME Init PROVE BudgetInv /\ ChangeInv
  <2>1. PICK carries \in Accumulating :
          policy = [p \in Seeds |->
            IF p = 1
            THEN [exists |-> TRUE, signers |-> [a \in Agents |-> Permissions],
                  maxPerPeriod |-> FirstLimit, maxPerUse |-> FirstPerUse,
                  remaining |-> FirstLimit, lastReset |-> 0,
                  period |-> "recurring", accumulateUnused |-> carries]
            ELSE NoPolicy]
    BY <1>1, Zenon DEF Init
  <2>2. ledger = [p \in Seeds |-> [opened |-> 0, spent |-> 0, cap |-> IF p = 1 THEN FirstLimit ELSE 0]]
        /\ prepared = [m \in Managers |-> Idle]
    BY <1>1 DEF Init
  <2>3. ASSUME NEW p \in Existing PROVE p = 1 /\ p \in Seeds
    BY <2>1 DEF Existing, NoPolicy
  <2> QED BY <2>1, <2>2, <2>3, LimitsAssumption DEF BudgetInv, ChangeInv, Fits, Idle
<1>2. ASSUME Inv, BudgetInv, ChangeInv, [Next]_vars PROVE BudgetInv' /\ ChangeInv'
  <2>1. ASSUME NEW m \in Managers, Lost(m) PROVE BudgetInv' /\ ChangeInv'
    <3>1. /\ prepared' = [prepared EXCEPT ![m] = Idle]
          /\ UNCHANGED <<now, policySeed, policy, ledger>>
      BY <2>1 DEF Lost, Done
    <3>2. BudgetInv'
      BY <1>2, <3>1 DEF BudgetInv, Existing
    <3>3. ASSUME NEW x \in Managers PROVE Fits(prepared[x])'
      <4>1. prepared'[x] = Idle \/ prepared'[x] = prepared[x]
        BY <1>2, <3>1 DEF Inv, TypeOK
      <4> QED BY <1>2, <3>1, <4>1 DEF ChangeInv, Fits, Existing, Idle
    <3> QED BY <3>2, <3>3 DEF ChangeInv
  <2>2. CASE Tick \/ UNCHANGED vars
    <3>1. UNCHANGED <<policySeed, policy, prepared, ledger>>
      BY <2>2 DEF Tick, vars
    <3> QED BY <1>2, <3>1 DEF BudgetInv, ChangeInv, Fits, Existing
  <2> QED BY <1>2, <2>1, <2>2, ChangeBudget, LandBudget, SpendBudget, Zenon DEF Next
<1> QED BY <1>1, <1>2

\* As long as agents wait for changes on their way, they never spend more in a
\* period than the highest limit in force during it, for any number of managers,
\* agents, policies, amounts and periods.
THEOREM NothingSpentTwice == AgentsPause => (Spec => []SpentWithinLimit)
<1> SUFFICES ASSUME AgentsPause PROVE Spec => []SpentWithinLimit
  OBVIOUS
<1>1. ASSUME Inv, BudgetInv PROVE SpentWithinLimit
  <2>1. SUFFICES ASSUME NEW p \in Existing, ~policy[p].accumulateUnused
                 PROVE  ledger[p].spent <= ledger[p].cap
    BY DEF SpentWithinLimit
  <2>2. /\ ledger[p].spent + policy[p].remaining <= ledger[p].cap
        /\ policy[p].remaining \in Nat /\ ledger[p].spent \in Nat /\ ledger[p].cap \in Nat
    BY <1>1, <2>1, PolicyFields, LedgerFields DEF BudgetInv, Inv
  <2> QED BY <2>2
<1>2. /\ Init => BudgetInv /\ ChangeInv
      /\ Inv /\ BudgetInv /\ ChangeInv /\ [Next]_vars => BudgetInv' /\ ChangeInv'
  BY BudgetInductive
<1> QED BY <1>1, <1>2, InitInv, NextInv, PTL DEF Spec
-----------------------------------------------------------------------------
(* The proposals of the account.                                           *)

ProposalRecords ==
  [status : {"active", "approved", "rejected", "executed"}, content : Contents,
   approved : SUBSET Members, rejected : SUBSET Members]

ProposalOperations ==
  [kind : {"create", "sync"}, on : Consensus, at : 1 .. MaxIndex + 1,
   content : Contents, votes : BOOLEAN, read : 0 .. MaxIndex]

\* Every index that is used has its transaction.
UsedInv ==
  \A c \in Consensus, i \in Indexes :
    i <= index[c] => proposal[c][i] \in ProposalRecords

\* Nobody reads or was shown an index that is not used yet.
ReadInv ==
  \A m \in Members :
    /\ range[m] # Nil => \A c \in Consensus : \A i \in range[m][c] : i <= index[c]
    /\ \A row \in listed[m] : row.at <= index[row.on]

\* What is prepared numbers itself by what was read; what is executed at once
\* is a change of the Settings of an account of threshold one.
OperationInv ==
  \A m \in Members : operation[m] # NoOperation =>
    /\ operation[m].at = operation[m].read + 1
    /\ operation[m].kind = "sync" =>
         operation[m].on = Settings /\ operation[m].content \in Requested /\ threshold = 1

SafeInv == UsedInv /\ ReadInv /\ OperationInv /\ ListedIsVotedOn

VotesInv == ProposalsTypeOK /\ SafeInv

-----------------------------------------------------------------------------
(* Facts about the constants.                                              *)

LEMMA Numbers ==
  /\ MaxIndex \in Nat /\ 0 \in 0 .. MaxIndex
  /\ Settings \in Consensus /\ Policies \subseteq Consensus
  /\ Requested \subseteq Changes /\ Requested \subseteq Contents /\ Payments \subseteq Contents
  /\ \A t \in Thresholds : t \in Nat /\ t >= 1
BY ProposalsAssumption DEF Consensus, Contents

\* The record of a change, so that its fields have their types.
LEMMA ChangeTypes ==
  ASSUME NEW change \in Changes
  PROVE  \/ change \in PolicyCreations /\ change.policy \in Policies
         \/ /\ change \notin PolicyCreations /\ change.member \in Members
            /\ change.kind \in {"AddSigner", "RemoveSigner", "UpdateSigner"}
BY DEF Changes, SignerChanges, PolicyCreations

\* An executed change keeps the types.
LEMMA SettingsStep ==
  ASSUME ProposalsTypeOK, NEW change \in Changes, ChangeSettings(change)
  PROVE  /\ signers' \subseteq Members /\ policies' \subseteq Policies
         /\ stale' \in [Consensus -> 0 .. MaxIndex]
<1>1. CASE change \in PolicyCreations
  BY <1>1, ChangeTypes DEF ProposalsTypeOK, ChangeSettings
<1>2. CASE change \notin PolicyCreations
  <2>1. /\ change.member \in Members
        /\ change.kind \in {"AddSigner", "RemoveSigner", "UpdateSigner"}
    BY <1>2, ChangeTypes
  <2>2. /\ signers' = CASE change.kind = "AddSigner" -> signers \cup {change.member}
                         [] change.kind = "RemoveSigner" -> signers \ {change.member}
                         [] change.kind = "UpdateSigner" -> signers
        /\ stale' = [stale EXCEPT ![Settings] = index[Settings]]
        /\ UNCHANGED policies
    BY <1>2 DEF ChangeSettings
  <2>3. signers' \subseteq Members
    BY <2>1, <2>2 DEF ProposalsTypeOK
  <2> QED BY <2>2, <2>3, Numbers DEF ProposalsTypeOK
<1> QED BY <1>1, <1>2

\* Writing one transaction.
LEMMA WriteStep ==
  ASSUME ProposalsTypeOK, NEW c \in Consensus, NEW i \in Indexes,
         NEW p \in ProposalRecords,
         proposal' = [proposal EXCEPT ![c][i] = p]
  PROVE  /\ proposal' \in [Consensus ->
                         [Indexes -> {NoProposal} \cup ProposalRecords]]
         /\ \A d \in Consensus, j \in Indexes :
              proposal'[d][j] = IF d = c /\ j = i THEN p ELSE proposal[d][j]
BY DEF ProposalsTypeOK, ProposalRecords

LEMMA VotesInitHolds ==
  ASSUME ProposalsInit
  PROVE  VotesInv
<1>1. ProposalsTypeOK
  BY ProposalsAssumption, Numbers DEF ProposalsInit, ProposalsTypeOK
<1>2. UsedInv
  BY Numbers DEF ProposalsInit, UsedInv, Indexes
<1>3. ReadInv /\ OperationInv /\ ListedIsVotedOn
  BY DEF ProposalsInit, ReadInv, OperationInv, ListedIsVotedOn
<1> QED BY <1>1, <1>2, <1>3 DEF VotesInv, SafeInv

-----------------------------------------------------------------------------
(* Preparing and sending.                                                  *)

LEMMA PrepareVoteStep ==
  ASSUME VotesInv, NEW m \in Members, PrepareOperation(m)
  PROVE  VotesInv'
<1> USE DEF VotesInv, SafeInv
<1>1. operation[m] = NoOperation /\ UNCHANGED <<chainVars, range, listed>>
  BY DEF PrepareOperation
<1>2. PICK op : /\ operation' = [operation EXCEPT ![m] = op]
                /\ op \in ProposalOperations /\ op.at = op.read + 1
                /\ op.kind = "sync" =>
                     op.on = Settings /\ op.content \in Requested /\ threshold = 1
  <2>1. \A c \in Consensus : index[c] \in 0 .. MaxIndex /\ index[c] + 1 \in 1 .. MaxIndex + 1
    BY Numbers DEF ProposalsTypeOK
  <2>2. CASE PreparePayment(m)
    <3>1. PICK c \in {Settings} \cup policies, payment \in Payments :
            operation' = [operation EXCEPT ![m] =
              [kind |-> "create", on |-> c, at |-> index[c] + 1,
               content |-> payment, votes |-> FALSE, read |-> index[c]]]
      BY <2>2 DEF PreparePayment, TransactionIndex
    <3> DEFINE op == [kind |-> "create", on |-> c, at |-> index[c] + 1,
                      content |-> payment, votes |-> FALSE, read |-> index[c]]
    <3>2. c \in Consensus /\ payment \in Contents
      BY Numbers DEF ProposalsTypeOK
    <3>3. op \in ProposalOperations
      BY <2>1, <3>2 DEF ProposalOperations
    <3>4. op.at = op.read + 1 /\ op.kind # "sync" /\ operation' = [operation EXCEPT ![m] = op]
      BY <3>1
    <3> HIDE DEF op
    <3> QED BY <3>3, <3>4
  <2>3. CASE PrepareSettingsChange(m)
    <3>1. PICK change \in Requested :
            operation' = [operation EXCEPT ![m] =
              [kind |-> IF ExecutesSync THEN "sync" ELSE "create", on |-> Settings,
               at |-> index[Settings] + 1, content |-> change, votes |-> TRUE,
               read |-> index[Settings]]]
      BY <2>3 DEF PrepareSettingsChange, TransactionIndex
    <3> DEFINE op == [kind |-> IF ExecutesSync THEN "sync" ELSE "create", on |-> Settings,
                      at |-> index[Settings] + 1, content |-> change, votes |-> TRUE,
                      read |-> index[Settings]]
    <3>2. change \in Contents
      BY Numbers
    <3>3. op \in ProposalOperations
      BY <2>1, <3>2, Numbers DEF ProposalOperations
    <3>4. ExecutesSync => threshold = 1
      BY Numbers DEF ProposalsTypeOK, ExecutesSync
    <3>5. /\ op.at = op.read + 1 /\ op.on = Settings /\ op.content \in Requested
          /\ op.kind = "sync" => ExecutesSync
          /\ operation' = [operation EXCEPT ![m] = op]
      BY <3>1
    <3> HIDE DEF op
    <3> QED BY <3>3, <3>4, <3>5
  <2> QED BY <2>2, <2>3 DEF PrepareOperation
<1>3. op # NoOperation /\ \A n \in Members : operation'[n] = IF n = m THEN op ELSE operation[n]
  <2>1. op # NoOperation
    <3>1. op.kind \in {"create", "sync"} /\ NoOperation.kind = "none"
      BY <1>2 DEF ProposalOperations, NoOperation
    <3> QED BY <3>1
  <2> QED BY <1>2, <2>1 DEF ProposalsTypeOK
<1>4. ProposalsTypeOK'
  BY <1>1, <1>2, <1>3 DEF ProposalsTypeOK, chainVars, ProposalOperations
<1>5. OperationInv'
  BY <1>1, <1>2, <1>3 DEF OperationInv, chainVars
<1>6. UsedInv' /\ ReadInv' /\ ListedIsVotedOn'
  BY <1>1 DEF UsedInv, ReadInv, ListedIsVotedOn, At, chainVars
<1> QED BY <1>4, <1>5, <1>6

\* A member whose operation has ended prepares another one.
LEMMA DoneVoteStep ==
  ASSUME VotesInv, NEW m \in Members, Ended(m), UNCHANGED threshold
  PROVE  /\ operation' \in [Members -> {NoOperation} \cup ProposalOperations]
         /\ OperationInv'
<1>1. \A n \in Members : operation'[n] = IF n = m THEN NoOperation ELSE operation[n]
  BY DEF VotesInv, ProposalsTypeOK, Ended
<1>2. operation' \in [Members -> {NoOperation} \cup ProposalOperations]
  BY DEF VotesInv, ProposalsTypeOK, Ended, ProposalOperations
<1> QED BY <1>1, <1>2 DEF VotesInv, SafeInv, OperationInv

LEMMA LandCreateStep ==
  ASSUME VotesInv, NEW m \in Members, LandCreate(m)
  PROVE  VotesInv'
<1> USE DEF VotesInv, SafeInv
<1> DEFINE op == operation[m]
           p == [status |-> IF op.votes /\ threshold = 1 THEN "approved" ELSE "active",
                 content |-> op.content,
                 approved |-> IF op.votes THEN {m} ELSE {}, rejected |-> {}]
<1>1. /\ op.kind = "create" /\ op.at \in Indexes
      /\ index' = [index EXCEPT ![op.on] = op.at]
      /\ proposal' = [proposal EXCEPT ![op.on][op.at] = p]
      /\ Ended(m) /\ UNCHANGED <<threshold, signers, policies, stale, range, listed>>
  BY DEF LandCreate
<1>2. op.at = index[op.on] + 1
  BY <1>1 DEF LandCreate, Sendable, Creatable
<1>3. op \in ProposalOperations
  BY <1>1 DEF ProposalsTypeOK, NoOperation, ProposalOperations
<1>4. op.on \in Consensus /\ p \in ProposalRecords
  BY <1>3 DEF ProposalOperations, ProposalRecords
<1> HIDE DEF p, op
<1>5. /\ proposal' \in [Consensus ->
                      [Indexes -> {NoProposal} \cup ProposalRecords]]
      /\ \A d \in Consensus, j \in Indexes :
           proposal'[d][j] = IF d = op.on /\ j = op.at THEN p ELSE proposal[d][j]
  BY <1>1, <1>4, WriteStep
<1>6. /\ index' \in [Consensus -> 0 .. MaxIndex]
      /\ \A c \in Consensus : index'[c] = IF c = op.on THEN op.at ELSE index[c]
  BY <1>1, <1>4, Numbers DEF ProposalsTypeOK, Indexes
<1>7. /\ \A c \in Consensus : index[c] \in 0 .. MaxIndex
      /\ \A i \in Indexes : i \in Nat
  BY Numbers DEF ProposalsTypeOK, Indexes
<1>8. /\ operation' \in [Members -> {NoOperation} \cup ProposalOperations] /\ OperationInv'
  BY <1>1, DoneVoteStep
<1>9. ProposalsTypeOK'
  BY <1>1, <1>5, <1>6, <1>8 DEF ProposalsTypeOK, ProposalOperations, ProposalRecords
<1>10. UsedInv'
  <2> SUFFICES ASSUME NEW c \in Consensus, NEW i \in Indexes, i <= index'[c]
               PROVE  proposal'[c][i] \in ProposalRecords
    BY DEF UsedInv
  <2>1. CASE c = op.on /\ i = op.at
    BY <1>4, <1>5, <2>1
  <2>2. CASE ~(c = op.on /\ i = op.at)
    <3>1. proposal'[c][i] = proposal[c][i]
      BY <1>5, <2>2
    <3>2. i <= index[c]
      BY <1>2, <1>6, <1>7, <2>2
    <3> QED BY <3>1, <3>2 DEF UsedInv
  <2> QED BY <2>1, <2>2
<1>11. \A c \in Consensus, i \in Indexes :
         i <= index[c] => i <= index'[c] /\ proposal'[c][i] = proposal[c][i]
  BY <1>2, <1>4, <1>5, <1>6, <1>7
<1>12. \A n \in Members : \A row \in listed[n] : row.on \in Consensus /\ row.at \in Indexes
  BY DEF ProposalsTypeOK, Rows
<1>13. ReadInv'
  <2>1. \A n \in Members : \A row \in listed'[n] : row.at <= index'[row.on]
    BY <1>1, <1>11, <1>12 DEF ReadInv
  <2>2. \A n \in Members : range'[n] # Nil =>
          \A c \in Consensus : \A i \in range'[n][c] : i <= index'[c]
    BY <1>1, <1>11 DEF ReadInv, ProposalsTypeOK
  <2> QED BY <2>1, <2>2 DEF ReadInv
<1>14. ListedIsVotedOn'
  BY <1>1, <1>11, <1>12 DEF ListedIsVotedOn, ReadInv, At
<1> QED BY <1>8, <1>9, <1>10, <1>13, <1>14

LEMMA LandSyncStep ==
  ASSUME VotesInv, NEW m \in Members, LandSync(m)
  PROVE  VotesInv'
<1> USE DEF VotesInv, SafeInv
<1>1. /\ operation[m].kind = "sync" /\ ChangeSettings(operation[m].content)
      /\ Ended(m) /\ UNCHANGED <<threshold, index, proposal, range, listed>>
  BY Zenon DEF LandSync
<1>2. operation[m] # NoOperation
  BY <1>1 DEF NoOperation
<1>3. operation[m].content \in Changes
  BY <1>1, <1>2, Numbers DEF OperationInv
<1>4. /\ signers' \subseteq Members /\ policies' \subseteq Policies
      /\ stale' \in [Consensus -> 0 .. MaxIndex]
  BY <1>1, <1>3, SettingsStep
<1>5. operation' \in [Members -> {NoOperation} \cup ProposalOperations] /\ OperationInv'
  BY <1>1, DoneVoteStep
<1>6. ProposalsTypeOK'
  BY <1>1, <1>4, <1>5 DEF ProposalsTypeOK, ProposalOperations
<1>7. UsedInv' /\ ReadInv' /\ ListedIsVotedOn'
  BY <1>1 DEF UsedInv, ReadInv, ListedIsVotedOn, At
<1> QED BY <1>5, <1>6, <1>7

LEMMA LostVoteStep ==
  ASSUME VotesInv, NEW m \in Members, LostOperation(m)
  PROVE  VotesInv'
<1> USE DEF VotesInv, SafeInv
<1>1. Ended(m) /\ UNCHANGED <<chainVars, range, listed>>
  BY DEF LostOperation
<1>2. operation' \in [Members -> {NoOperation} \cup ProposalOperations] /\ OperationInv'
  BY <1>1, DoneVoteStep DEF chainVars
<1>3. ProposalsTypeOK'
  BY <1>1, <1>2 DEF ProposalsTypeOK, ProposalOperations, chainVars
<1>4. UsedInv' /\ ReadInv' /\ ListedIsVotedOn'
  BY <1>1 DEF UsedInv, ReadInv, ListedIsVotedOn, At, chainVars
<1> QED BY <1>2, <1>3, <1>4

-----------------------------------------------------------------------------
(* Listing, voting, executing.                                             *)

LEMMA ListStep ==
  ASSUME VotesInv, NEW m \in Members, List(m)
  PROVE  VotesInv'
<1> USE DEF VotesInv, SafeInv
<1>1. UNCHANGED <<chainVars, operation>>
  BY DEF List, ListProposals, ListArrives
<1>2. UsedInv' /\ OperationInv'
  BY <1>1 DEF UsedInv, OperationInv, chainVars
<1>3. \A c \in Consensus : index[c] \in 0 .. MaxIndex /\ stale[c] \in 0 .. MaxIndex
  BY DEF ProposalsTypeOK
<1>4. CASE ListProposals(m)
  <2>1. \A c \in Consensus : /\ OpenRange(c) \subseteq Indexes
                             /\ \A i \in OpenRange(c) : i <= index[c]
    BY <1>3, Numbers DEF OpenRange, Indexes
  <2>2. /\ range' = [range EXCEPT ![m] =
              [c \in Consensus |->
                 IF c \in {Settings} \cup policies THEN OpenRange(c) ELSE {}]]
        /\ listed' = listed
    BY <1>4 DEF ListProposals
  <2>3. range' \in [Members -> {Nil} \cup [Consensus -> SUBSET Indexes]]
    BY <2>1, <2>2 DEF ProposalsTypeOK
  <2>4. \A n \in Members : range'[n] # Nil =>
          \A c \in Consensus : \A i \in range'[n][c] : i <= index[c]
    BY <2>1, <2>2 DEF ReadInv, ProposalsTypeOK
  <2>5. ProposalsTypeOK' /\ ReadInv' /\ ListedIsVotedOn'
    BY <1>1, <2>2, <2>3, <2>4 DEF ProposalsTypeOK, ReadInv,
           ListedIsVotedOn, At, chainVars
  <2> QED BY <1>2, <2>5
<1>5. CASE ListArrives(m)
  <2> DEFINE seen == UNION {{[on |-> c, at |-> i, shown |-> TransactionAt(c, i)] :
                               i \in range[m][c]} : c \in Consensus}
  <2>1. /\ range[m] # Nil /\ range' = [range EXCEPT ![m] = Nil]
        /\ listed' = listed \/ listed' = [listed EXCEPT ![m] = seen]
    BY <1>5 DEF ListArrives
  <2>2. \A c \in Consensus : \A i \in range[m][c] : i \in Indexes /\ i <= index[c]
    BY <2>1 DEF ProposalsTypeOK, ReadInv
  <2>3. \A row \in seen : /\ row \in Rows /\ row.at <= index[row.on]
                          /\ At(row).content = row.shown
    <3> SUFFICES ASSUME NEW c \in Consensus, NEW i \in range[m][c]
                 PROVE  LET row == [on |-> c, at |-> i, shown |-> TransactionAt(c, i)]
                        IN  /\ row \in Rows /\ row.at <= index[row.on]
                            /\ At(row).content = row.shown
      OBVIOUS
    <3>1. proposal[c][i].content \in Contents
      BY <2>2 DEF UsedInv, ProposalRecords
    <3> QED BY <2>2, <3>1 DEF Rows, At, TransactionAt
  <2> HIDE DEF seen
  <2>4. \A n \in Members : listed'[n] = listed[n] \/ listed'[n] = seen
    BY <2>1 DEF ProposalsTypeOK
  <2>5. listed' \in [Members -> SUBSET Rows]
    BY <2>1, <2>3 DEF ProposalsTypeOK
  <2>6. range' \in [Members -> {Nil} \cup [Consensus -> SUBSET Indexes]]
    BY <2>1 DEF ProposalsTypeOK
  <2>7. ProposalsTypeOK'
    BY <1>1, <2>5, <2>6 DEF ProposalsTypeOK, chainVars
  <2>8. ReadInv'
    <3>1. \A n \in Members : \A row \in listed'[n] : row.at <= index[row.on]
      BY <2>3, <2>4 DEF ReadInv
    <3>2. \A n \in Members : range'[n] # Nil => range'[n] = range[n]
      BY <2>1 DEF ProposalsTypeOK
    <3> QED BY <1>1, <3>1, <3>2 DEF ReadInv, chainVars
  <2>9. ListedIsVotedOn'
    BY <1>1, <2>3, <2>4 DEF ListedIsVotedOn, At, chainVars
  <2> QED BY <1>2, <2>7, <2>8, <2>9
<1> QED BY <1>4, <1>5 DEF List

\* A step that gives a transaction another status, and keeps its content.
LEMMA StatusStep ==
  ASSUME VotesInv, NEW c \in Consensus, NEW i \in Indexes,
         NEW p \in ProposalRecords,
         p.content = proposal[c][i].content,
         proposal' = [proposal EXCEPT ![c][i] = p],
         UNCHANGED <<threshold, index, clientVars>>,
         signers' \subseteq Members, policies' \subseteq Policies,
         stale' \in [Consensus -> 0 .. MaxIndex]
  PROVE  VotesInv'
<1> USE DEF VotesInv, SafeInv
<1>1. /\ proposal' \in [Consensus ->
                      [Indexes -> {NoProposal} \cup ProposalRecords]]
      /\ \A d \in Consensus, j \in Indexes :
           proposal'[d][j] = IF d = c /\ j = i THEN p ELSE proposal[d][j]
  BY WriteStep
<1>2. ProposalsTypeOK'
  BY <1>1 DEF ProposalsTypeOK, ProposalRecords, clientVars
<1>3. UsedInv'
  BY <1>1 DEF UsedInv
<1>4. ReadInv' /\ OperationInv'
  BY DEF ReadInv, OperationInv, clientVars
<1>5. \A m \in Members : \A row \in listed[m] : row.on \in Consensus /\ row.at \in Indexes
  BY DEF ProposalsTypeOK, Rows
<1>6. ListedIsVotedOn'
  BY <1>1, <1>5 DEF ListedIsVotedOn, At, clientVars
<1> QED BY <1>2, <1>3, <1>4, <1>6

LEMMA ActStep ==
  ASSUME VotesInv, NEW m \in Members, Act(m)
  PROVE  VotesInv'
<1> USE DEF VotesInv, SafeInv
<1>1. PICK row \in listed[m] : Approve(m, row) \/ Reject(m, row) \/ Execute(m, row)
  BY DEF Act
<1>2. /\ row.on \in Consensus /\ row.at \in Indexes
      /\ At(row) \in ProposalRecords /\ At(row) = proposal[row.on][row.at]
  BY DEF ProposalsTypeOK, Rows, ReadInv, UsedInv, At
<1>3. /\ signers \subseteq Members /\ policies \subseteq Policies
      /\ stale \in [Consensus -> 0 .. MaxIndex]
  BY DEF ProposalsTypeOK
<1>4. CASE Approve(m, row)
  <2> DEFINE approved == At(row).approved \cup {m}
             p == [At(row) EXCEPT !.approved = approved,
                     !.status = IF Cardinality(approved) >= threshold THEN "approved" ELSE @]
  <2>1. p \in ProposalRecords /\ p.content = At(row).content
    BY <1>2 DEF ProposalRecords
  <2>2. /\ proposal' = [proposal EXCEPT ![row.on][row.at] = p]
        /\ UNCHANGED <<threshold, signers, policies, index, stale, clientVars>>
    BY <1>4, Zenon DEF Approve
  <2> HIDE DEF p
  <2> QED BY <1>2, <1>3, <2>1, <2>2, StatusStep
<1>5. CASE Reject(m, row)
  <2> DEFINE rejected == At(row).rejected \cup {m}
             p == [At(row) EXCEPT !.rejected = rejected,
                     !.status = IF Cardinality(rejected)
                                     > Cardinality(VotersOf(row.on)) - threshold
                                THEN "rejected" ELSE @]
  <2>1. p \in ProposalRecords /\ p.content = At(row).content
    BY <1>2 DEF ProposalRecords
  <2>2. /\ proposal' = [proposal EXCEPT ![row.on][row.at] = p]
        /\ UNCHANGED <<threshold, signers, policies, index, stale, clientVars>>
    BY <1>5, Zenon DEF Reject
  <2> HIDE DEF p
  <2> QED BY <1>2, <1>3, <2>1, <2>2, StatusStep
<1>6. CASE Execute(m, row)
  <2> DEFINE p == [At(row) EXCEPT !.status = "executed"]
  <2>1. p \in ProposalRecords /\ p.content = At(row).content
    BY <1>2 DEF ProposalRecords
  <2>2. /\ proposal' = [proposal EXCEPT ![row.on][row.at] = p]
        /\ UNCHANGED <<threshold, index, clientVars>>
    BY <1>2, <1>6 DEF Execute, ProposalsTypeOK
  <2>3. /\ signers' \subseteq Members /\ policies' \subseteq Policies
        /\ stale' \in [Consensus -> 0 .. MaxIndex]
    <3>1. CASE At(row).content \in Changes
      <4>1. ChangeSettings(At(row).content)
        BY <1>6, <3>1, Zenon DEF Execute
      <4> QED BY <3>1, <4>1, SettingsStep
    <3>2. CASE At(row).content \notin Changes
      BY <1>3, <1>6, <3>2 DEF Execute
    <3> QED BY <3>1, <3>2
  <2> HIDE DEF p
  <2> QED BY <1>2, <2>1, <2>2, <2>3, StatusStep
<1> QED BY <1>1, <1>4, <1>5, <1>6

LEMMA VotesInvHolds == ProposalsSpec => []VotesInv
<1>1. VotesInv /\ [ProposalsNext]_proposalsVars => VotesInv'
  <2> SUFFICES ASSUME VotesInv, [ProposalsNext]_proposalsVars PROVE VotesInv'
    OBVIOUS
  <2>1. ASSUME NEW m \in Members, 
                    PrepareOperation(m) \/ Send(m) \/ List(m) \/ Act(m)
             PROVE  VotesInv'
    BY <2>1, PrepareVoteStep, LandCreateStep, LandSyncStep, LostVoteStep,
       ListStep, ActStep DEF Send
  <2>2. ASSUME UNCHANGED proposalsVars PROVE VotesInv'
    BY <2>2 DEF VotesInv, SafeInv, ProposalsTypeOK, UsedInv, ReadInv, OperationInv,
                ListedIsVotedOn, At, proposalsVars, chainVars, clientVars
  <2> QED BY <2>1, <2>2 DEF ProposalsNext
<1>2. ProposalsInit => VotesInv
  BY VotesInitHolds
<1> QED BY <1>1, <1>2, PTL DEF ProposalsSpec

-----------------------------------------------------------------------------
(* What follows.                                                           *)

\* Every variable stays in its range (TypeOK).
THEOREM ProposalsTypeCorrect == ProposalsSpec => []ProposalsTypeOK
<1>1. VotesInv => ProposalsTypeOK
  BY DEF VotesInv
<1> QED BY <1>1, VotesInvHolds, PTL

\* A vote counts for what the member was shown, however old its listing and
\* however the accounts' indexes overlap (listProposals).
THEOREM ShownIsVotedOn == ProposalsSpec => []ListedIsVotedOn
<1>1. VotesInv => ListedIsVotedOn
  BY DEF VotesInv, SafeInv
<1> QED BY <1>1, VotesInvHolds, PTL

\* What is prepared from a current read is accepted, for every threshold and
\* number of members (prepareSettingsChange and the proposals of payments).
THEOREM CurrentIsSendable == ProposalsSpec => []PreparedIsSendable
<1>1. VotesInv => PreparedIsSendable
  <2> SUFFICES ASSUME VotesInv, NEW m \in Members, operation[m] # NoOperation,
                      operation[m].read = index[operation[m].on],
                      m \in VotersOf(operation[m].on)
               PROVE  \/ Sendable(m)
                      \/ operation[m].kind = "sync" /\ ~Applies(operation[m].content)
    BY DEF PreparedIsSendable
  <2>1. operation[m].kind \in {"create", "sync"}
    BY DEF VotesInv, ProposalsTypeOK
  <2>2. CASE operation[m].kind = "create"
    BY <2>2 DEF VotesInv, SafeInv, OperationInv, Sendable, Creatable
  <2>3. CASE operation[m].kind = "sync"
    BY <2>3 DEF VotesInv, SafeInv, OperationInv, Sendable, VotersOf
  <2> QED BY <2>1, <2>2, <2>3
<1> QED BY <1>1, VotesInvHolds, PTL

=============================================================================
