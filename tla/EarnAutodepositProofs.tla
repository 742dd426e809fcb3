------------------------- MODULE EarnAutodepositProofs -------------------------
(***************************************************************************)
(* Every variable keeps its range, a closed autodeposit stays closed, a    *)
(* completed one is what the server accepts, and no setup leaves a second  *)
(* policy behind, for every number of devices, setups, seeds, amounts and  *)
(* late transactions.                                                      *)
(***************************************************************************)
EXTENDS EarnAutodeposit, TLAPS

\* Seeds are used in order: nothing is at a seed above policySeed.
SeedsInv ==
  /\ policySeed \in Nat
  /\ policies = [n \in Seeds |-> policies[n]]
  /\ \A n \in Seeds : policies[n].kind # "none" => n <= policySeed

\* The seed of a closed row is used up and holds no sweep policy.
ClosedInv ==
  \A r \in closed : /\ r.seed \in Seeds /\ r.seed <= policySeed
                    /\ policies[r.seed].kind # "sweep"

Inv == SeedsInv /\ ClosedInv

LEMMA InitInv == Init => Inv
<1> USE AutodepositAssumption DEF Init, Inv, SeedsInv, ClosedInv, Seeds, NoPolicy
<1> QED OBVIOUS

\* A step that leaves the policies and the closed rows alone.
LEMMA QuietStep == Inv /\ UNCHANGED <<policySeed, policies, closed>> => Inv'
BY DEF Inv, SeedsInv, ClosedInv

\* A policy created at the next seed disturbs no closed row: theirs are used up.
LEMMA CreateStep ==
  ASSUME Inv, policySeed < MaxSeed, NEW p, p.kind # "none",
         policySeed' = policySeed + 1,
         policies' = [policies EXCEPT ![policySeed + 1] = p],
         UNCHANGED closed
  PROVE  Inv'
<1> USE AutodepositAssumption DEF Inv, Seeds
<1>1. policySeed + 1 \in Seeds /\ policySeed \in Nat
  BY DEF SeedsInv
<1>2. policies' = [n \in Seeds |-> IF n = policySeed + 1 THEN p ELSE policies[n]]
  BY <1>1 DEF SeedsInv
<1>3. SeedsInv'
  <2>1. policySeed' \in Nat
    BY <1>1
  <2>2. policies' = [n \in Seeds |-> policies'[n]]
    BY <1>2, Zenon
  <2>3. ASSUME NEW n \in Seeds, policies'[n].kind # "none" PROVE n <= policySeed'
    <3>1. CASE n = policySeed + 1
      BY <3>1, <1>1
    <3>2. CASE n # policySeed + 1
      <4>1. policies[n].kind # "none"
        BY <3>2, <2>3, <1>2
      <4> QED BY <4>1, <1>1 DEF SeedsInv
    <3> QED BY <3>1, <3>2
  <2> QED BY <2>1, <2>2, <2>3 DEF SeedsInv
<1>4. ClosedInv'
  <2>1. ASSUME NEW r \in closed
        PROVE r.seed \in Seeds /\ r.seed <= policySeed' /\ policies'[r.seed].kind # "sweep"
    <3>1. r.seed \in Seeds /\ r.seed <= policySeed /\ policies[r.seed].kind # "sweep"
      BY DEF ClosedInv
    <3>2. r.seed # policySeed + 1
      BY <3>1, <1>1
    <3> QED BY <3>1, <3>2, <1>1, <1>2
  <2> QED BY <2>1 DEF ClosedInv
<1> QED BY <1>3, <1>4

LEMMA LandCloseStep ==
  ASSUME Inv, NEW t, LandClose(t) PROVE Inv'
<1> USE DEF Inv
<1>1. /\ At(t.seed).kind # "none"
      /\ policies' = [policies EXCEPT ![t.seed] = NoPolicy]
      /\ closed' = closed \cup (rows \ rows')
      /\ rows' = {r \in rows : r.seed # t.seed \/ r.nonce # t.nonce}
      /\ policySeed' = policySeed
  BY Zenon DEF LandClose, Accepts
<1>2. t.seed \in Seeds
  BY <1>1 DEF At, NoPolicy
<1>3. policies' = [n \in Seeds |-> IF n = t.seed THEN NoPolicy ELSE policies[n]]
  BY <1>1, <1>2 DEF SeedsInv
<1>4. policies[t.seed].kind # "none" /\ t.seed <= policySeed
  BY <1>1, <1>2 DEF At, SeedsInv
<1>5. NoPolicy.kind = "none"
  BY DEF NoPolicy
<1>6. SeedsInv'
  <2>1. policies' = [n \in Seeds |-> policies'[n]]
    BY <1>3, Zenon
  <2>2. ASSUME NEW n \in Seeds, policies'[n].kind # "none" PROVE n <= policySeed'
    BY <2>2, <1>1, <1>3, <1>5 DEF SeedsInv
  <2> QED BY <1>1, <2>1, <2>2 DEF SeedsInv
<1>7. ClosedInv'
  <2>1. ASSUME NEW r \in closed'
        PROVE r.seed \in Seeds /\ r.seed <= policySeed' /\ policies'[r.seed].kind # "sweep"
    <3>1. CASE r.seed = t.seed
      BY <3>1, <1>1, <1>2, <1>3, <1>4, <1>5
    <3>2. CASE r.seed # t.seed
      <4>1. r \in closed
        BY <3>2, <1>1
      <4> QED BY <4>1, <3>2, <1>1, <1>3 DEF ClosedInv
    <3> QED BY <3>1, <3>2
  <2> QED BY <2>1 DEF ClosedInv
<1> QED BY <1>6, <1>7

LEMMA LandSetupStep ==
  ASSUME Inv, NEW t, LandSetup(t) PROVE Inv'
<1>1. CASE t.op = "create_policy"
  <2> DEFINE p == [kind |-> "sweep", max |-> t.amount, made |-> t.nonce]
  <2>1. /\ t.seed = policySeed + 1 /\ policySeed < MaxSeed
        /\ policySeed' = t.seed /\ policies' = [policies EXCEPT ![t.seed] = p]
        /\ closed' = closed
    BY <1>1, Zenon DEF LandSetup, Accepts, history
  <2>2. p.kind # "none"
    OBVIOUS
  <2> HIDE DEF p
  <2> QED BY <2>1, <2>2, CreateStep
<1>2. CASE t.op # "create_policy"
  BY <1>2, QuietStep, Zenon DEF LandSetup, history
<1> QED BY <1>1, <1>2

\* What a device does changes neither the policies nor the closed rows.
LEMMA DeviceQuiet ==
  ASSUME NEW d \in Devices,
         StartSetup(d) \/ StartClose(d) \/ DeviceStep(d) \/ AnswerLost(d)
  PROVE  UNCHANGED <<policySeed, policies, closed>>
<1> USE DEF chain, history
<1>1. CASE StartSetup(d) \/ StartClose(d) \/ AnswerLost(d)
  BY <1>1, Zenon DEF StartSetup, StartClose, AnswerLost
<1>2. CASE PrepareSetup(d)
  BY <1>2, Zenon DEF PrepareSetup, ReadAuthority, ReadSettings, SwitchSeed, ReadAccounts,
                     SecondFromEvidence, SecondFromReads
<1>3. CASE PrepareClose(d)
  BY <1>3, Zenon DEF PrepareClose, ReadShape, FetchPolicy, ReadDelegation, ReadApproval
<1>4. CASE Send(d) \/ Settled(d) \/ Retry(d)
  BY <1>4, Zenon DEF Send, Settled, Retry
<1> QED BY <1>1, <1>2, <1>3, <1>4 DEF DeviceStep

LEMMA NextInv == Inv /\ [Next]_vars => Inv'
<1> SUFFICES ASSUME Inv, [Next]_vars PROVE Inv'
  OBVIOUS
<1>1. CASE \E d \in Devices : StartSetup(d) \/ StartClose(d) \/ DeviceStep(d) \/ AnswerLost(d)
  BY <1>1, DeviceQuiet, QuietStep, Zenon
<1>2. CASE \E t \in network : NetworkStep(t) \/ Expires(t)
  <2>1. PICK t \in network : NetworkStep(t) \/ Expires(t)
    BY <1>2
  <2>2. CASE LandSetup(t)
    BY <2>2, LandSetupStep
  <2>3. CASE LandClose(t)
    BY <2>3, LandCloseStep
  <2>4. CASE Fails(t) \/ Expires(t)
    BY <2>4, QuietStep, Zenon DEF Fails, Expires, chain, history
  <2> QED BY <2>1, <2>2, <2>3, <2>4 DEF NetworkStep
<1>3. CASE CreateRoute
  <2>1. /\ policySeed < MaxSeed /\ policySeed' = policySeed + 1
        /\ policies' = [policies EXCEPT ![policySeed + 1] = Route] /\ closed' = closed
    BY <1>3, Zenon DEF CreateRoute
  <2>2. Route.kind # "none"
    BY DEF Route
  <2> QED BY <2>1, <2>2, CreateStep
<1>4. CASE ForeignApproval
  BY <1>4, QuietStep, Zenon DEF ForeignApproval
<1>5. CASE UNCHANGED vars
  BY <1>5, QuietStep, Zenon DEF vars
<1> QED BY <1>1, <1>2, <1>3, <1>4, <1>5, Zenon DEF Next

LEMMA InvClosed == Inv => ClosedStaysClosed
BY DEF Inv, ClosedInv, ClosedStaysClosed, PullAccepted, At

\* A closed autodeposit moves no funds again, whatever transaction of its setup
\* or of others lands later: the seed of its policy is never used again.
THEOREM ClosedForGood == Spec => []ClosedStaysClosed
<1>1. Spec => []Inv
  BY InitInv, NextInv, PTL DEF Spec
<1> QED BY <1>1, InvClosed, PTL

-----------------------------------------------------------------------------
(* Types.                                                                  *)

LEMMA InitType == Init => TypeOK
<1> SUFFICES ASSUME Init PROVE TypeOK
  OBVIOUS
<1> USE AutodepositAssumption DEF Init
<1>1. /\ policySeed \in 0 .. MaxSeed /\ authority \in BOOLEAN
      /\ approval = "none" /\ network \subseteq Transactions /\ rows \subseteq Rows
      /\ closed \subseteq Rows /\ faults \in 0 .. MaxFaults /\ foreign \in 0 .. MaxForeign
  OBVIOUS
<1>2. policies \in [Seeds -> [kind : {"none", "route", "sweep"}, max : 0 .. MaxAmount,
                              made : Nonces \cup {0}]]
  BY DEF NoPolicy
<1>3. delegations \in [Nonces -> 0 .. MaxAmount]
  OBVIOUS
<1>4. setup \in [Devices -> [nonce : Nonces \cup {0}, amount : 0 .. MaxAmount,
                             asked : 0 .. MaxSeed + 1]]
  OBVIOUS
<1>5. /\ pc = [d \in Devices |-> "idle"]
      /\ entry \in [Devices -> {"stage", "batch"}]
      /\ seed \in [Devices -> 0 .. MaxSeed + 1] /\ next \in [Devices -> 0 .. MaxSeed + 1]
      /\ delegationSeen \in [Devices -> BOOLEAN] /\ approvalSeen \in [Devices -> BOOLEAN]
      /\ plan \in [Devices -> SUBSET (Stages \cup {"close"})]
      /\ landed \in [Devices -> SUBSET (Stages \cup {"close"})]
  OBVIOUS
<1> QED BY <1>1, <1>2, <1>3, <1>4, <1>5 DEF TypeOK

LEMMA StartSetupType ==
  ASSUME TypeOK, NEW d \in Devices, StartSetup(d) PROVE TypeOK'
<1> USE DEF TypeOK, chain, history, reads, Goto
<1>1. PICK n \in Nonces, a \in Amounts, e \in Entries :
        /\ setup' = [setup EXCEPT ![d] = [nonce |-> n, amount |-> a, asked |-> 0]]
        /\ entry' = [entry EXCEPT ![d] = e]
  BY Zenon DEF StartSetup
<1>2. pc' = [pc EXCEPT ![d] = "authority"] /\ UNCHANGED <<chain, network, history, reads, plan, landed>>
  BY Zenon DEF StartSetup
<1>3. [nonce |-> n, amount |-> a, asked |-> 0]
        \in [nonce : Nonces \cup {0}, amount : 0 .. MaxAmount, asked : 0 .. MaxSeed + 1]
  BY AutodepositAssumption DEF Amounts
<1>4. entry' \in [Devices -> {"stage", "batch"}]
  BY <1>1, AutodepositAssumption
<1> QED BY <1>1, <1>2, <1>3, <1>4

LEMMA PrepareSetupType ==
  ASSUME TypeOK, NEW d \in Devices, PrepareSetup(d) PROVE TypeOK'
<1> USE DEF TypeOK, chain, history, args, reads, Goto, Throw, Prepare, Stages
<1>1. CASE ReadAuthority(d)
  <2>1. (IF setup[d].asked = 0 THEN 1 ELSE setup[d].asked) \in 0 .. MaxSeed + 1
    BY AutodepositAssumption
  <2>2. CASE authority
    BY <1>1, <2>2 DEF ReadAuthority
  <2>3. CASE ~authority
    <3>1. seed' \in [Devices -> 0 .. MaxSeed + 1]
      BY <1>1, <2>1, <2>3 DEF ReadAuthority
    <3>2. /\ pc[d] = "authority" /\ pc' = [pc EXCEPT ![d] = "ready"]
          /\ plan' = [plan EXCEPT ![d] = {"initialize_subscription_authority"}]
          /\ UNCHANGED <<chain, network, history, args, next, delegationSeen, approvalSeen, landed>>
      BY <1>1, <2>3 DEF ReadAuthority
    <3> QED BY <3>1, <3>2
  <2> QED BY <2>2, <2>3
<1>2. ASSUME NEW lag \in Lags, ReadSettings(d, lag) PROVE TypeOK'
  <2>1. policySeed - lag + 1 \in 0 .. MaxSeed + 1
    BY <1>2, AutodepositAssumption DEF ReadSettings
  <2>2. next' \in [Devices -> 0 .. MaxSeed + 1]
    BY <1>2, <2>1 DEF ReadSettings
  <2>3. seed' \in [Devices -> 0 .. MaxSeed + 1]
    BY <1>2, <2>2 DEF ReadSettings
  <2>4. /\ pc[d] = "settings" /\ pc' = [pc EXCEPT ![d] = "accounts"]
        /\ UNCHANGED <<chain, network, history, args, delegationSeen, approvalSeen, plan, landed>>
    BY <1>2 DEF ReadSettings
  <2> QED BY <2>2, <2>3, <2>4
<1>3. CASE SwitchSeed(d)
  BY <1>3 DEF SwitchSeed
<1>4. CASE ReadAccounts(d)
  BY <1>4 DEF ReadAccounts, RepairApproval
<1>5. CASE SecondFromEvidence(d)
  BY <1>5 DEF SecondFromEvidence
<1>6. CASE SecondFromReads(d)
  <2>1. /\ pc[d] = "second" /\ UNCHANGED <<chain, network, history, args, reads, landed>>
        /\ \/ Throw(d, "collides") \/ Throw(d, "exists")
           \/ Prepare(d, {"create_policy", "create_recurring_delegation"})
           \/ Prepare(d, {"create_policy"})
    <3> HIDE DEF TypeOK, Stages
    <3> QED BY <1>6, Zenon DEF SecondFromReads
  <2> QED BY <2>1
<1> QED BY <1>1, <1>2, <1>3, <1>4, <1>5, <1>6, Zenon DEF PrepareSetup

LEMMA CloseType ==
  ASSUME TypeOK, NEW d \in Devices, StartClose(d) \/ PrepareClose(d) PROVE TypeOK'
<1> USE DEF TypeOK, chain, history, args, reads, Goto, Prepare, Stages
<1>1. CASE StartClose(d)
  <2>1. PICK r \in rows :
          /\ setup' = [setup EXCEPT ![d] = [nonce |-> r.nonce, amount |-> r.amount, asked |-> r.seed]]
          /\ seed' = [seed EXCEPT ![d] = r.seed]
    BY <1>1, Zenon DEF StartClose
  <2>2. /\ r.nonce \in Nonces /\ r.amount \in Amounts /\ r.seed \in 0 .. MaxSeed + 1
    BY DEF Rows
  <2>3. /\ pc' = [pc EXCEPT ![d] = "shape"]
        /\ UNCHANGED <<chain, network, history, entry, next, delegationSeen, approvalSeen, plan, landed>>
    BY <1>1, Zenon DEF StartClose
  <2>4. [nonce |-> r.nonce, amount |-> r.amount, asked |-> r.seed]
          \in [nonce : Nonces \cup {0}, amount : 0 .. MaxAmount, asked : 0 .. MaxSeed + 1]
    BY <2>2, AutodepositAssumption DEF Amounts
  <2> QED BY <2>1, <2>2, <2>3, <2>4
<1>2. CASE ReadShape(d)
  BY <1>2 DEF ReadShape
<1>3. CASE FetchPolicy(d)
  BY <1>3 DEF FetchPolicy
<1>4. CASE ReadDelegation(d)
  BY <1>4 DEF ReadDelegation
<1>5. CASE ReadApproval(d)
  BY <1>5 DEF ReadApproval
<1> QED BY <1>1, <1>2, <1>3, <1>4, <1>5, Zenon DEF PrepareClose

LEMMA SendType ==
  ASSUME TypeOK, NEW d \in Devices, Send(d) PROVE TypeOK'
<1> USE DEF TypeOK, chain, history, args, reads, Goto
<1>1. /\ pc[d] = "ready" /\ pc' = [pc EXCEPT ![d] = "sent"]
      /\ network' = network \cup {Transaction(d, op) : op \in plan[d]}
      /\ landed' = [landed EXCEPT ![d] = {}]
      /\ UNCHANGED <<chain, history, args, reads, plan>>
  BY Zenon DEF Send
<1>2. ASSUME NEW op \in plan[d] PROVE Transaction(d, op) \in Transactions
  <2>1. op \in Stages \cup {"close"}
    OBVIOUS
  <2>2. setup[d].nonce \in Nonces /\ setup[d].amount \in Amounts /\ seed[d] \in 0 .. MaxSeed + 1
    BY <1>1
  <2> DEFINE revoked == IF op # "close" THEN {}
              ELSE {x \in {"delegation", "approval"} :
                      (x = "delegation" /\ delegationSeen[d]) \/ (x = "approval" /\ approvalSeen[d])}
  <2>3. revoked \subseteq {"delegation", "approval"}
    OBVIOUS
  <2>4. Transaction(d, op) = [by |-> d, op |-> op, seed |-> seed[d], nonce |-> setup[d].nonce,
                              amount |-> setup[d].amount, late |-> FALSE, revoke |-> revoked]
    BY DEF Transaction
  <2> HIDE DEF revoked
  <2> QED BY <2>1, <2>2, <2>3, <2>4 DEF Transactions
<1>3. network' \subseteq Transactions
  BY <1>1, <1>2
<1>4. landed' \in [Devices -> SUBSET (Stages \cup {"close"})]
  BY <1>1
<1> QED BY <1>1, <1>3, <1>4

LEMMA SettledType ==
  ASSUME TypeOK, NEW d \in Devices, Settled(d) \/ Retry(d) PROVE TypeOK'
<1> USE DEF TypeOK, chain, history, args, reads, Goto
<1>1. CASE Settled(d)
  <2>1. Row(d) \in Rows
    BY <1>1 DEF Settled, Row, Rows
  <2> HIDE DEF chain
  <2>2. /\ pc[d] = "sent"
        /\ UNCHANGED <<chain, network, closed, faults, foreign, entry, reads, plan, landed>>
        /\ rows' = rows \cup {Row(d)} \/ rows' = rows
        /\ \/ pc' = [pc EXCEPT ![d] = "done"] /\ UNCHANGED setup
           \/ /\ pc' = [pc EXCEPT ![d] = "authority"]
              /\ setup' = [setup EXCEPT ![d].asked = seed[d]]
    BY <1>1, Zenon DEF Settled
  <2>3. rows' \subseteq Rows
    BY <2>1, <2>2
  <2> HIDE DEF Row
  <2>4. CASE pc' = [pc EXCEPT ![d] = "done"] /\ UNCHANGED setup
    BY <2>2, <2>3, <2>4 DEF chain
  <2>5. CASE pc' = [pc EXCEPT ![d] = "authority"] /\ setup' = [setup EXCEPT ![d].asked = seed[d]]
    BY <2>2, <2>3, <2>5 DEF chain
  <2> QED BY <2>2, <2>4, <2>5
<1>2. CASE Retry(d)
  <2>1. (IF setup[d].asked = seed[d] THEN 0 ELSE setup[d].asked) \in 0 .. MaxSeed + 1
    BY AutodepositAssumption
  <2>2. setup' = [setup EXCEPT ![d].asked = IF setup[d].asked = seed[d] THEN 0 ELSE setup[d].asked]
    BY <1>2, Zenon DEF Retry
  <2>3. setup' \in [Devices -> [nonce : Nonces \cup {0}, amount : 0 .. MaxAmount,
                               asked : 0 .. MaxSeed + 1]]
    <3> DEFINE asked == IF setup[d].asked = seed[d] THEN 0 ELSE setup[d].asked
    <3>1. asked \in 0 .. MaxSeed + 1 /\ setup' = [setup EXCEPT ![d].asked = asked]
      BY <2>1, <2>2
    <3>2. setup \in [Devices -> [nonce : Nonces \cup {0}, amount : 0 .. MaxAmount,
                                asked : 0 .. MaxSeed + 1]]
      OBVIOUS
    <3> HIDE DEF asked, TypeOK
    <3> QED BY <3>1, <3>2
  <2>4. setup'[d].nonce = setup[d].nonce /\ setup'[d].amount = setup[d].amount
    BY <2>2
  <2>5. \A x \in Devices \ {d} : setup'[x] = setup[x]
    BY <2>2
  <2>6. /\ pc[d] = "collides" /\ pc' = [pc EXCEPT ![d] = "authority"]
        /\ UNCHANGED <<chain, network, history, entry, reads, plan, landed>>
    BY <1>2 DEF Retry
  <2>7. \A x \in Devices : pc'[x] # "idle" => setup'[x].nonce \in Nonces /\ setup'[x].amount \in Amounts
    BY <2>4, <2>5, <2>6
  <2> HIDE DEF Goto
  <2> QED BY <2>3, <2>6, <2>7
<1> QED BY <1>1, <1>2

LEMMA AnswerLostType ==
  ASSUME TypeOK, NEW d \in Devices, AnswerLost(d) PROVE TypeOK'
<1> USE DEF TypeOK, chain, history, args, reads, Goto
<1>1. /\ pc[d] = "sent" /\ faults < MaxFaults /\ faults' = faults + 1
      /\ network' = (network \ Sent(d)) \cup {[t EXCEPT !.late = TRUE] : t \in Sent(d)}
      /\ UNCHANGED <<chain, rows, closed, foreign, entry, reads, plan, landed>>
      /\ \/ pc' = [pc EXCEPT ![d] = "done"] /\ UNCHANGED setup
         \/ /\ pc' = [pc EXCEPT ![d] = "authority"]
            /\ setup' = [setup EXCEPT ![d].asked = seed[d]]
  BY Zenon DEF AnswerLost
<1>2. ASSUME NEW t \in Sent(d) PROVE [t EXCEPT !.late = TRUE] \in Transactions
  <2>1. t \in Transactions
    BY DEF Sent
  <2> QED BY <2>1 DEF Transactions
<1>3. network' \subseteq Transactions
  BY <1>1, <1>2
<1>4. faults' \in 0 .. MaxFaults
  BY <1>1, AutodepositAssumption
<1>5. CASE pc' = [pc EXCEPT ![d] = "done"] /\ UNCHANGED setup
  BY <1>1, <1>3, <1>4, <1>5
<1>6. CASE pc' = [pc EXCEPT ![d] = "authority"] /\ setup' = [setup EXCEPT ![d].asked = seed[d]]
  BY <1>1, <1>3, <1>4, <1>6
<1> QED BY <1>1, <1>5, <1>6

LEMMA LandType ==
  ASSUME TypeOK, NEW t \in network, LandSetup(t) \/ LandClose(t) PROVE TypeOK'
<1> USE DEF TypeOK
<1>1. t \in Transactions
  OBVIOUS
<1>2. /\ t.by \in Devices /\ t.op \in Stages \cup {"close"} /\ t.nonce \in Nonces
      /\ t.amount \in Amounts
  BY <1>1 DEF Transactions
<1>3. ASSUME Tell(t) PROVE landed' \in [Devices -> SUBSET (Stages \cup {"close"})]
  BY <1>2, <1>3 DEF Tell
<1>4. t.amount \in 0 .. MaxAmount
  BY <1>2, AutodepositAssumption DEF Amounts
<1>5. CASE LandSetup(t)
  <2>1. /\ network' = network \ {t} /\ UNCHANGED <<history, pc, args, reads, plan>>
        /\ authority' = (authority \/ t.op = "initialize_subscription_authority")
        /\ approval' = IF t.op \in Final THEN "ours" ELSE approval
    BY <1>5, Zenon DEF LandSetup
  <2>2. landed' \in [Devices -> SUBSET (Stages \cup {"close"})]
    BY <1>3, <1>5, Zenon DEF LandSetup
  <2>3. policySeed' \in 0 .. MaxSeed
    <3>1. CASE t.op = "create_policy"
      <4>1. policySeed' = policySeed + 1 /\ policySeed < MaxSeed
        BY <1>5, <3>1 DEF LandSetup, Accepts
      <4> QED BY <4>1, AutodepositAssumption
    <3>2. CASE t.op # "create_policy"
      BY <1>5, <3>2 DEF LandSetup
    <3> QED BY <3>1, <3>2
  <2>4. policies' \in [Seeds -> [kind : {"none", "route", "sweep"}, max : 0 .. MaxAmount,
                                 made : Nonces \cup {0}]]
    BY <1>2, <1>4, <1>5 DEF LandSetup
  <2>5. delegations' \in [Nonces -> 0 .. MaxAmount]
    BY <1>4, <1>5 DEF LandSetup
  <2> QED BY <2>1, <2>2, <2>3, <2>4, <2>5 DEF history, args, reads
<1>6. CASE LandClose(t)
  <2>1. /\ network' = network \ {t}
        /\ UNCHANGED <<policySeed, authority, faults, foreign, pc, args, reads, plan>>
        /\ approval' = IF "approval" \in t.revoke THEN "none" ELSE approval
        /\ rows' = {r \in rows : r.seed # t.seed \/ r.nonce # t.nonce}
        /\ closed' = closed \cup (rows \ rows')
        /\ policies' = [policies EXCEPT ![t.seed] = NoPolicy]
    BY <1>6, Zenon DEF LandClose
  <2>2. landed' \in [Devices -> SUBSET (Stages \cup {"close"})]
    BY <1>3, <1>6, Zenon DEF LandClose
  <2>3. policies' \in [Seeds -> [kind : {"none", "route", "sweep"}, max : 0 .. MaxAmount,
                                 made : Nonces \cup {0}]]
    <3>1. NoPolicy \in [kind : {"none", "route", "sweep"}, max : 0 .. MaxAmount,
                        made : Nonces \cup {0}]
      BY AutodepositAssumption DEF NoPolicy
    <3> QED BY <2>1, <3>1
  <2>4. delegations' \in [Nonces -> 0 .. MaxAmount]
    <3>1. \/ delegations' = [delegations EXCEPT ![t.nonce] = 0]
          \/ delegations' = delegations
      BY <1>6, Zenon DEF LandClose
    <3>2. 0 \in 0 .. MaxAmount
      BY AutodepositAssumption
    <3> QED BY <3>1, <3>2
  <2>5. rows' \subseteq Rows /\ closed' \subseteq Rows
    BY <2>1
  <2> QED BY <2>1, <2>2, <2>3, <2>4, <2>5 DEF args, reads
<1> QED BY <1>5, <1>6

LEMMA UnsettledType ==
  ASSUME TypeOK, NEW t \in network, Fails(t) \/ Expires(t) PROVE TypeOK'
<1> USE AutodepositAssumption DEF TypeOK, chain, history, args, reads
<1>1. CASE Fails(t)
  BY <1>1 DEF Fails
<1>2. CASE Expires(t)
  <2>1. faults' \in 0 .. MaxFaults
    BY <1>2 DEF Expires
  <2> QED BY <1>2, <2>1 DEF Expires
<1> QED BY <1>1, <1>2

LEMMA OthersType ==
  ASSUME TypeOK, CreateRoute \/ ForeignApproval PROVE TypeOK'
<1> USE AutodepositAssumption DEF TypeOK, args, reads
<1>1. CASE CreateRoute
  <2>1. Route \in [kind : {"none", "route", "sweep"}, max : 0 .. MaxAmount, made : Nonces \cup {0}]
    BY DEF Route
  <2>2. policies' \in [Seeds -> [kind : {"none", "route", "sweep"}, max : 0 .. MaxAmount,
                                 made : Nonces \cup {0}]]
    BY <1>1, <2>1 DEF CreateRoute
  <2>3. policySeed' \in 0 .. MaxSeed /\ foreign' \in 0 .. MaxForeign
    BY <1>1 DEF CreateRoute
  <2> QED BY <1>1, <2>2, <2>3 DEF CreateRoute
<1>2. CASE ForeignApproval
  <2>1. foreign' \in 0 .. MaxForeign
    BY <1>2 DEF ForeignApproval
  <2> QED BY <1>2, <2>1 DEF ForeignApproval
<1> QED BY <1>1, <1>2

LEMMA NextType == TypeOK /\ [Next]_vars => TypeOK'
<1> SUFFICES ASSUME TypeOK, [Next]_vars PROVE TypeOK'
  OBVIOUS
<1>1. ASSUME NEW d \in Devices,
             StartSetup(d) \/ StartClose(d) \/ DeviceStep(d) \/ AnswerLost(d)
      PROVE  TypeOK'
  BY <1>1, StartSetupType, CloseType, PrepareSetupType, SendType, SettledType, AnswerLostType,
     Zenon DEF DeviceStep
<1>2. ASSUME NEW t \in network, NetworkStep(t) \/ Expires(t) PROVE TypeOK'
  BY <1>2, LandType, UnsettledType, Zenon DEF NetworkStep
<1>3. CASE CreateRoute \/ ForeignApproval
  BY <1>3, OthersType, Zenon
<1>4. CASE UNCHANGED vars
  BY <1>4 DEF vars, TypeOK
<1> QED BY <1>1, <1>2, <1>3, <1>4, Zenon DEF Next

\* Every variable keeps its range, for any number of devices, seeds and setups:
\* nothing is sent for a seed, a nonce or an amount that was not asked for.
THEOREM AutodepositTypeCorrect == Spec => []TypeOK
BY InitType, NextType, PTL DEF Spec
-----------------------------------------------------------------------------
(* A completed setup leaves what the server accepts.                       *)

ClosePcs == {"shape", "fetch", "delegation", "approval"}
Closing(d) == pc[d] \in ClosePcs \/ (pc[d] \in {"ready", "sent"} /\ plan[d] = {"close"})

\* Device d is in the middle of a setup.
Active(d) == pc[d] \notin Resting /\ ~Closing(d)

Recorded(n) == \E r \in rows \cup closed : r.nonce = n
Known(s, n) == \E r \in rows \cup closed : r.seed = s /\ r.nonce = n
Taken(n) == delegations[n] # 0 \/ Recorded(n)

\* There has been a sweep policy at seed s, and only a close has removed it.
Seen(s) == At(s).kind = "sweep" \/ \E c \in closed : c.seed = s

\* Device d may be the one that sets nonce n up, for amount a: nobody else is, no
\* setup of it is recorded, and whatever there is of one is for that amount.
Entitled(d, n, a) ==
  /\ ~Recorded(n)
  /\ \A x \in Devices \ {d} : Active(x) => setup[x].nonce # n
  /\ delegations[n] \in {0, a}
  /\ \A t \in network : t.nonce = n => t.amount = a
  /\ \A s \in Seeds : policies[s].made = n => policies[s].max = a

OwnInv == \A d \in Devices : Active(d) => Entitled(d, setup[d].nonce, setup[d].amount)

\* Only what is recorded is closed.
CloseInv ==
  /\ \A d \in Devices : Closing(d) => Known(seed[d], setup[d].nonce)
  /\ \A t \in network : t.op = "close" => Known(t.seed, t.nonce)

\* What there is of a setup is somebody's work, or keeps its nonce from being
\* asked for again.
TraceInv ==
  \A n \in Nonces :
    (\E t \in network : t.nonce = n) \/ (\E s \in Seeds : policies[s].made = n) =>
      Taken(n) \/ \E d \in Devices : Active(d) /\ setup[d].nonce = n

\* A transaction whose answer is awaited belongs to what its device has sent last.
RoundInv ==
  \A t \in network : ~t.late =>
    /\ pc[t.by] = "sent" /\ t.op \in plan[t.by] /\ t.seed = seed[t.by]
    /\ t.nonce = setup[t.by].nonce

Plans ==
  {{"close"}, {"initialize_subscription_authority"}, {"create_policy"},
   {"create_recurring_delegation"}, {"approve_token_delegate"},
   {"create_policy", "create_recurring_delegation"}}

\* A stage that builds on earlier ones was prepared when they had landed.
Grounded(d) ==
  /\ plan[d] \in Plans
  /\ plan[d] \in {{"create_recurring_delegation"}, {"approve_token_delegate"}} => Seen(seed[d])
  /\ plan[d] = {"approve_token_delegate"} => delegations[setup[d].nonce] # 0

PlanInv == \A d \in Devices : pc[d] \in {"ready", "sent"} => Grounded(d)

\* What a device knows to have landed is there.
LandedInv ==
  \A d \in Devices : pc[d] = "sent" =>
    /\ landed[d] \subseteq plan[d]
    /\ "create_policy" \in landed[d] => Seen(seed[d])
    /\ "create_recurring_delegation" \in landed[d] => delegations[setup[d].nonce] # 0

OneRow == \A r, c \in rows \cup closed : r.nonce = c.nonce => r = c

\* The rows of completed setups agree with the chain.
RowsInv ==
  /\ OneRow
  /\ \A r \in rows : r.whole =>
       /\ Seen(r.seed)
       /\ At(r.seed).made = r.nonce => At(r.seed).max = r.amount
       /\ (\A c \in closed : c.seed # r.seed) => delegations[r.nonce] = r.amount

MadeInv == \A s \in Seeds : policies[s].made # 0 <=> policies[s].kind = "sweep"

SetupInv ==
  /\ TypeOK /\ Inv /\ OwnInv /\ CloseInv /\ TraceInv /\ RoundInv /\ PlanInv /\ LandedInv
  /\ RowsInv /\ MadeInv

LEMMA InitSetup == Init => SetupInv
<1> SUFFICES ASSUME Init PROVE SetupInv
  OBVIOUS
<1>1. /\ rows = {} /\ closed = {} /\ network = {} /\ \A d \in Devices : pc[d] = "idle"
      /\ \A s \in Seeds : policies[s] = NoPolicy
  BY DEF Init
<1>2. OwnInv /\ CloseInv /\ RoundInv /\ PlanInv /\ LandedInv /\ RowsInv
  BY <1>1 DEF OwnInv, CloseInv, RoundInv, PlanInv, LandedInv, RowsInv, OneRow, Active, Closing,
     ClosePcs, Resting
<1>3. TraceInv /\ MadeInv
  BY <1>1, AutodepositAssumption DEF TraceInv, MadeInv, NoPolicy
<1> QED BY <1>2, <1>3, InitInv, InitType DEF SetupInv

\* Device x stays where it is.
Steady(x) ==
  /\ pc'[x] = pc[x] /\ plan'[x] = plan[x] /\ seed'[x] = seed[x] /\ setup'[x] = setup[x]
  /\ landed'[x] = landed[x]

\* Nothing is sent, and device d awaits no answer any more.
Thinned(d) ==
  \A t \in network' :
    /\ \E u \in network : u.op = t.op /\ u.seed = t.seed /\ u.nonce = t.nonce /\ u.amount = t.amount
    /\ ~t.late => t \in network /\ t.by # d

\* A step of one device that neither sends nor records anything.
LEMMA WaitlessStep ==
  ASSUME SetupInv, TypeOK', Inv', NEW d \in Devices,
         UNCHANGED <<policySeed, policies, delegations, rows, closed>>, Thinned(d),
         \A x \in Devices \ {d} : Steady(x),
         pc'[d] # "sent",
         Active(d)' => Entitled(d, setup'[d].nonce, setup'[d].amount),
         Active(d) => Taken(setup[d].nonce) \/ (Active(d)' /\ setup'[d].nonce = setup[d].nonce),
         Closing(d)' => Known(seed'[d], setup'[d].nonce),
         pc'[d] = "ready" => Grounded(d)'
  PROVE  SetupInv'
<1>1. \A x \in Devices \ {d} : (Active(x)' <=> Active(x)) /\ (Closing(x)' <=> Closing(x))
  BY DEF Steady, Active, Closing
<1>2. \A n, s : /\ (Recorded(n)' <=> Recorded(n)) /\ (Known(s, n)' <=> Known(s, n))
                /\ (Taken(n)' <=> Taken(n)) /\ (Seen(s)' <=> Seen(s))
  BY DEF Recorded, Known, Taken, Seen, At
<1>3. OwnInv'
  <2>1. SUFFICES ASSUME NEW x \in Devices, Active(x)'
                 PROVE  Entitled(x, setup[x].nonce, setup[x].amount)'
    BY Zenon DEF OwnInv
  <2>2. Entitled(x, setup'[x].nonce, setup'[x].amount)
    BY <1>1, <2>1 DEF SetupInv, OwnInv, Steady
  <2>3. \A y \in Devices \ {x} : Active(y)' => setup'[y].nonce # setup'[x].nonce
    <3>1. CASE x = d
      BY <1>1, <2>2, <3>1 DEF Entitled, Steady
    <3>2. CASE x # d
      <4>1. SUFFICES ASSUME NEW y \in Devices \ {x}, Active(y)'
                     PROVE  setup'[y].nonce # setup'[x].nonce
        OBVIOUS
      <4>2. CASE y = d
        <5>1. Active(x) /\ setup'[x] = setup[x]
          BY <1>1, <2>1, <3>2 DEF Steady
        <5> QED BY <3>2, <4>1, <4>2, <5>1 DEF Entitled
      <4>3. CASE y # d
        BY <1>1, <2>2, <4>1, <4>3 DEF Entitled, Steady
      <4> QED BY <4>2, <4>3
    <3> QED BY <3>1, <3>2
  <2>4. \A t \in network' : t.nonce = setup'[x].nonce => t.amount = setup'[x].amount
    BY <2>2 DEF Entitled, Thinned
  <2> QED BY <1>2, <2>2, <2>3, <2>4 DEF Entitled
<1>4. CloseInv'
  <2>1. \A x \in Devices : Closing(x)' => Known(seed[x], setup[x].nonce)'
    BY <1>1, <1>2 DEF SetupInv, CloseInv, Steady
  <2>2. \A t \in network' : t.op = "close" => Known(t.seed, t.nonce)'
    BY <1>2 DEF SetupInv, CloseInv, Thinned
  <2> QED BY <2>1, <2>2 DEF CloseInv
<1>5. TraceInv'
  <2>1. SUFFICES ASSUME NEW n \in Nonces,
                        (\E t \in network : t.nonce = n) \/ (\E s \in Seeds : policies[s].made = n)
                 PROVE  Taken(n)' \/ \E x \in Devices : Active(x)' /\ setup'[x].nonce = n
    <3>1. \A t \in network' : \E u \in network : u.nonce = t.nonce
      BY DEF Thinned
    <3> QED BY <3>1, Zenon DEF TraceInv
  <2>2. CASE Taken(n)
    BY <1>2, <2>2
  <2>3. ASSUME NEW x \in Devices, Active(x), setup[x].nonce = n
        PROVE  Taken(n)' \/ \E y \in Devices : Active(y)' /\ setup'[y].nonce = n
    <3>1. CASE x = d
      BY <1>2, <2>3, <3>1
    <3>2. CASE x # d
      BY <1>1, <2>3, <3>2 DEF Steady
    <3> QED BY <3>1, <3>2
  <2> QED BY <2>1, <2>2, <2>3 DEF SetupInv, TraceInv
<1>6. RoundInv'
  <2>1. ASSUME NEW t \in network', ~t.late PROVE t \in network /\ t.by \in Devices \ {d}
    BY <2>1 DEF SetupInv, TypeOK, Transactions, Thinned
  <2> QED BY <2>1 DEF SetupInv, RoundInv, Steady
<1>7. PlanInv' /\ LandedInv'
  <2>1. \A x \in Devices \ {d} : Grounded(x)' <=> Grounded(x)
    BY <1>2 DEF Grounded, Steady
  <2>2. PlanInv'
    BY <2>1 DEF SetupInv, PlanInv, Steady
  <2>3. LandedInv'
    BY <1>2 DEF SetupInv, LandedInv, Steady
  <2> QED BY <2>2, <2>3
<1>8. RowsInv' /\ MadeInv'
  BY <1>2 DEF SetupInv, RowsInv, OneRow, MadeInv, At
<1> QED BY <1>3, <1>4, <1>5, <1>6, <1>7, <1>8 DEF SetupInv

\* A step of one device that leaves the network alone.
LEMMA LocalStep ==
  ASSUME SetupInv, TypeOK', Inv', NEW d \in Devices,
         UNCHANGED <<policySeed, policies, delegations, network, rows, closed>>,
         \A x \in Devices \ {d} : Steady(x),
         pc[d] # "sent" \/ Sent(d) = {}, pc'[d] # "sent",
         Active(d)' => Entitled(d, setup'[d].nonce, setup'[d].amount),
         Active(d) => Taken(setup[d].nonce) \/ (Active(d)' /\ setup'[d].nonce = setup[d].nonce),
         Closing(d)' => Known(seed'[d], setup'[d].nonce),
         pc'[d] = "ready" => Grounded(d)'
  PROVE  SetupInv'
<1>1. ASSUME NEW t \in network, ~t.late PROVE t.by # d
  BY <1>1 DEF SetupInv, RoundInv, Sent
<1>2. Thinned(d)
  BY <1>1 DEF Thinned
<1> QED BY <1>2, WaitlessStep

LEMMA StartSetupStep ==
  ASSUME SetupInv, TypeOK', Inv', NEW d \in Devices, StartSetup(d) PROVE SetupInv'
<1>1. PICK n \in Nonces, a \in Amounts, e \in Entries :
        /\ \A x \in Devices \ {d} : setup[x].nonce # n
        /\ delegations[n] = 0 /\ \A r \in rows \cup closed : r.nonce # n
        /\ setup' = [setup EXCEPT ![d] = [nonce |-> n, amount |-> a, asked |-> 0]]
  BY Zenon DEF StartSetup
<1>2. /\ pc[d] \in Resting /\ pc' = [pc EXCEPT ![d] = "authority"]
      /\ UNCHANGED <<policySeed, policies, delegations, network, rows, closed, seed, plan, landed>>
  BY Zenon DEF StartSetup, Goto, chain, history, reads
<1>3. /\ pc'[d] = "authority" /\ setup'[d].nonce = n /\ setup'[d].amount = a
      /\ \A x \in Devices \ {d} : Steady(x)
  BY <1>1, <1>2 DEF SetupInv, TypeOK, Steady
<1>4. ~Active(d) /\ ~Closing(d)' /\ pc[d] # "sent"
  BY <1>2, <1>3 DEF Active, Closing, ClosePcs, Resting
<1>5. ~Taken(n)
  BY <1>1 DEF Taken, Recorded
<1>6. Entitled(d, n, a)
  <2>1. ~\E x \in Devices : Active(x) /\ setup[x].nonce = n
    BY <1>1, <1>4
  <2>2. (\A t \in network : t.nonce # n) /\ (\A s \in Seeds : policies[s].made # n)
    BY <1>5, <2>1 DEF SetupInv, TraceInv
  <2> QED BY <1>1, <1>5, <2>1, <2>2 DEF Entitled, Taken
<1> QED BY <1>2, <1>3, <1>4, <1>6, LocalStep

LEMMA StartCloseStep ==
  ASSUME SetupInv, TypeOK', Inv', NEW d \in Devices, StartClose(d) PROVE SetupInv'
<1>1. PICK r \in rows :
        /\ setup' = [setup EXCEPT ![d] = [nonce |-> r.nonce, amount |-> r.amount, asked |-> r.seed]]
        /\ seed' = [seed EXCEPT ![d] = r.seed]
  BY Zenon DEF StartClose
<1>2. /\ pc[d] \in Resting /\ pc' = [pc EXCEPT ![d] = "shape"]
      /\ UNCHANGED <<policySeed, policies, delegations, network, rows, closed, plan, landed>>
  BY Zenon DEF StartClose, Goto, chain, history
<1>3. /\ pc'[d] = "shape" /\ setup'[d].nonce = r.nonce /\ seed'[d] = r.seed
      /\ \A x \in Devices \ {d} : Steady(x)
  BY <1>1, <1>2 DEF SetupInv, TypeOK, Steady
<1>4. ~Active(d) /\ ~Active(d)' /\ pc[d] # "sent"
  BY <1>2, <1>3 DEF Active, Closing, ClosePcs, Resting
<1>5. Known(seed'[d], setup'[d].nonce)
  BY <1>3 DEF Known
<1> QED BY <1>2, <1>3, <1>4, <1>5, LocalStep

LEMMA CloseStep ==
  ASSUME SetupInv, TypeOK', Inv', NEW d \in Devices, PrepareClose(d) PROVE SetupInv'
<1>1. /\ pc[d] \in ClosePcs
      /\ UNCHANGED <<policySeed, policies, delegations, network, rows, closed, setup, seed, landed>>
      /\ \/ \E where \in ClosePcs \cup {"refused", "missing"} :
              pc' = [pc EXCEPT ![d] = where] /\ plan' = plan
         \/ pc' = [pc EXCEPT ![d] = "ready"] /\ plan' = [plan EXCEPT ![d] = {"close"}]
  BY DEF PrepareClose, ReadShape, FetchPolicy, ReadDelegation, ReadApproval, Goto, Prepare,
         chain, history, args, reads, ClosePcs
<1>2. /\ pc'[d] \in ClosePcs \cup {"refused", "missing", "ready"}
      /\ pc'[d] = "ready" => plan'[d] = {"close"}
      /\ \A x \in Devices \ {d} : Steady(x)
  BY <1>1 DEF SetupInv, TypeOK, Steady, ClosePcs
<1>3. Closing(d) /\ ~Active(d)' /\ pc[d] # "sent" /\ pc'[d] # "sent" /\ ~Active(d)
  BY <1>1, <1>2 DEF Active, Closing, ClosePcs, Resting
<1>4. Known(seed'[d], setup'[d].nonce)
  BY <1>1, <1>3 DEF SetupInv, CloseInv
<1>5. ASSUME pc'[d] = "ready" PROVE Grounded(d)'
  <2>1. plan'[d] = {"close"}
    BY <1>2, <1>5
  <2>2. plan'[d] \in Plans /\ plan'[d] # {"create_recurring_delegation"}
        /\ plan'[d] # {"approve_token_delegate"}
    BY <2>1, Zenon DEF Plans
  <2> QED BY <2>2, Zenon DEF Grounded
<1> QED BY <1>1, <1>2, <1>3, <1>4, <1>5, LocalStep

\* What the reads of a setup lead to.
LEMMA PrepareForm ==
  ASSUME SetupInv, NEW d \in Devices, PrepareSetup(d)
  PROVE  /\ pc[d] \in {"authority", "settings", "accounts", "second"}
         /\ UNCHANGED <<policySeed, policies, delegations, network, rows, closed, setup, landed>>
         /\ \A x \in Devices \ {d} : Steady(x)
         /\ \/ pc'[d] \in {"settings", "accounts", "second", "collides"}
            \/ pc'[d] = "exists" /\ delegations[setup[d].nonce] # 0
            \/ pc'[d] = "ready" /\ plan'[d] # {"close"} /\ Grounded(d)'
<1> USE DEF SetupInv, TypeOK, chain, history, args, reads, Goto, Throw, Prepare, Steady
<1>p. /\ {"initialize_subscription_authority"} \in Plans /\ {"create_policy"} \in Plans
      /\ {"create_recurring_delegation"} \in Plans /\ {"approve_token_delegate"} \in Plans
      /\ {"create_policy", "create_recurring_delegation"} \in Plans
  BY DEF Plans
<1>q. ASSUME NEW stages, stages \in Plans, stages # {"close"}, plan'[d] = stages,
             stages # {"create_recurring_delegation"}, stages # {"approve_token_delegate"}
      PROVE  plan'[d] # {"close"} /\ Grounded(d)'
  BY <1>q, Zenon DEF Grounded
<1>1. CASE ReadAuthority(d)
  <2>1. CASE authority
    BY <1>1, <2>1 DEF ReadAuthority
  <2>2. CASE ~authority
    <3>1. /\ pc'[d] = "ready" /\ plan'[d] = {"initialize_subscription_authority"}
      BY <1>1, <2>2 DEF ReadAuthority
    <3>2. plan'[d] # {"close"} /\ Grounded(d)'
      BY <1>p, <1>q, <3>1
    <3> QED BY <1>1, <2>2, <3>1, <3>2 DEF ReadAuthority
  <2> QED BY <2>1, <2>2
<1>2. ASSUME NEW lag \in Lags, ReadSettings(d, lag)
      PROVE  /\ pc[d] = "settings" /\ pc'[d] = "accounts"
             /\ UNCHANGED <<policySeed, policies, delegations, network, rows, closed, setup, landed>>
             /\ \A x \in Devices \ {d} : Steady(x)
  BY <1>2 DEF ReadSettings
<1>3. CASE SwitchSeed(d)
  BY <1>3 DEF SwitchSeed
<1>4. CASE ReadAccounts(d)
  <2>1. /\ pc[d] = "accounts" /\ seed' = seed
        /\ UNCHANGED <<policySeed, policies, delegations, network, rows, closed, setup, landed>>
        /\ \A x \in Devices \ {d} : Steady(x)
    BY <1>4 DEF ReadAccounts, RepairApproval
  <2>2. CASE Collides(d) /\ Throw(d, "collides")
    BY <2>1, <2>2
  <2>3. CASE ~PolicyExists(d) /\ entry[d] = "stage" /\ Prepare(d, {"create_policy"})
    <3>1. pc'[d] = "ready" /\ plan'[d] = {"create_policy"}
      BY <2>3
    <3>2. plan'[d] # {"close"} /\ Grounded(d)'
      BY <1>p, <1>q, <3>1
    <3> QED BY <2>1, <3>1, <3>2
  <2>4. CASE ~PolicyExists(d) /\ Goto(d, "second")
    BY <2>1, <2>4
  <2>5. ASSUME ~Collides(d), PolicyExists(d)
        PROVE  Seen(seed[d]) /\ Seen(seed[d])'
    <3>1. At(seed[d]).kind = "sweep"
      BY <2>5 DEF Collides, PolicyExists, At, NoPolicy
    <3> QED BY <2>1, <3>1 DEF Seen, At
  <2>6. CASE ~Collides(d) /\ PolicyExists(d) /\ delegations[setup[d].nonce] # 0
             /\ approval # "ours" /\ Prepare(d, {"approve_token_delegate"})
    <3>1. pc'[d] = "ready" /\ plan'[d] = {"approve_token_delegate"}
      BY <2>6
    <3>2. Seen(seed[d])'
      BY <2>1, <2>5, <2>6
    <3>3. Grounded(d)'
      BY <1>p, <2>1, <2>6, <3>1, <3>2 DEF Grounded
    <3> QED BY <2>1, <3>1, <3>3
  <2>7. CASE ~Collides(d) /\ PolicyExists(d) /\ delegations[setup[d].nonce] # 0 /\ Throw(d, "exists")
    BY <2>1, <2>7
  <2>8. CASE ~Collides(d) /\ PolicyExists(d) /\ Prepare(d, {"create_recurring_delegation"})
    <3>1. pc'[d] = "ready" /\ plan'[d] = {"create_recurring_delegation"}
      BY <2>8
    <3>2. Seen(seed[d])'
      BY <2>1, <2>5, <2>8
    <3>3. plan'[d] # {"approve_token_delegate"}
      BY <3>1
    <3>4. Grounded(d)'
      BY <1>p, <3>1, <3>2, <3>3 DEF Grounded
    <3> QED BY <2>1, <3>1, <3>4
  <2> QED BY <1>4, <2>2, <2>3, <2>4, <2>6, <2>7, <2>8, Zenon DEF ReadAccounts, RepairApproval
<1>5. CASE SecondFromEvidence(d) \/ SecondFromReads(d)
  <2>1. /\ pc[d] = "second"
        /\ UNCHANGED <<policySeed, policies, delegations, network, rows, closed, setup, landed>>
        /\ \A x \in Devices \ {d} : Steady(x)
    BY <1>5 DEF SecondFromEvidence, SecondFromReads
  <2>2. \/ pc'[d] = "collides"
        \/ pc'[d] = "exists" /\ delegations[setup[d].nonce] # 0
        \/ pc'[d] = "ready" /\ plan'[d] = {"create_policy"}
        \/ pc'[d] = "ready" /\ plan'[d] = {"create_policy", "create_recurring_delegation"}
    BY <1>5 DEF SecondFromEvidence, SecondFromReads
  <2>3. CASE pc'[d] = "ready" /\ plan'[d] = {"create_policy"}
    <3>1. plan'[d] # {"close"} /\ Grounded(d)'
      BY <1>p, <1>q, <2>3
    <3> QED BY <2>1, <2>3, <3>1
  <2>4. CASE pc'[d] = "ready" /\ plan'[d] = {"create_policy", "create_recurring_delegation"}
    <3> DEFINE both == {"create_policy", "create_recurring_delegation"}
    <3>1. "create_policy" \in both /\ "create_policy" \notin {"close"}
          /\ "create_policy" \notin {"create_recurring_delegation"}
          /\ "create_policy" \notin {"approve_token_delegate"}
      OBVIOUS
    <3>2. both # {"close"} /\ both # {"create_recurring_delegation"} /\ both # {"approve_token_delegate"}
      BY <3>1, Zenon
    <3>3. both \in Plans /\ plan'[d] = both
      BY <1>p, <2>4
    <3> HIDE DEF both
    <3>4. plan'[d] # {"close"} /\ Grounded(d)'
      BY <1>q, <3>2, <3>3
    <3> QED BY <2>1, <2>4, <3>4
  <2> QED BY <2>1, <2>2, <2>3, <2>4
<1> QED BY <1>1, <1>2, <1>3, <1>4, <1>5, Zenon DEF PrepareSetup

LEMMA PrepareStep ==
  ASSUME SetupInv, TypeOK', Inv', NEW d \in Devices, PrepareSetup(d) PROVE SetupInv'
<1>1. /\ pc[d] \in {"authority", "settings", "accounts", "second"}
      /\ UNCHANGED <<policySeed, policies, delegations, network, rows, closed, setup, landed>>
      /\ \A x \in Devices \ {d} : Steady(x)
      /\ \/ pc'[d] \in {"settings", "accounts", "second", "collides"}
         \/ pc'[d] = "exists" /\ delegations[setup[d].nonce] # 0
         \/ pc'[d] = "ready" /\ plan'[d] # {"close"} /\ Grounded(d)'
  BY PrepareForm
<1>2. Active(d) /\ ~Closing(d)' /\ pc[d] # "sent" /\ pc'[d] # "sent"
  BY <1>1 DEF Active, Closing, ClosePcs, Resting
<1>3. Active(d)' \/ Taken(setup[d].nonce)
  BY <1>1 DEF Active, Closing, ClosePcs, Resting, Taken
<1>4. Entitled(d, setup'[d].nonce, setup'[d].amount)
  BY <1>1, <1>2 DEF SetupInv, OwnInv
<1>5. pc'[d] = "ready" => Grounded(d)'
  BY <1>1
<1> QED BY <1>1, <1>2, <1>3, <1>4, <1>5, LocalStep

LEMMA RetryStep ==
  ASSUME SetupInv, TypeOK', Inv', NEW d \in Devices, Retry(d) PROVE SetupInv'
<1>1. /\ pc[d] = "collides" /\ pc' = [pc EXCEPT ![d] = "authority"]
      /\ setup' = [setup EXCEPT ![d].asked = IF setup[d].asked = seed[d] THEN 0 ELSE setup[d].asked]
      /\ UNCHANGED <<policySeed, policies, delegations, network, rows, closed, seed, plan, landed>>
  BY Zenon DEF Retry, Goto, chain, history, reads
<1>2. /\ pc'[d] = "authority" /\ setup'[d].nonce = setup[d].nonce
      /\ setup'[d].amount = setup[d].amount /\ \A x \in Devices \ {d} : Steady(x)
  BY <1>1 DEF SetupInv, TypeOK, Steady
<1>3. Active(d) /\ Active(d)' /\ ~Closing(d)'
  BY <1>1, <1>2 DEF Active, Closing, ClosePcs, Resting
<1>4. Entitled(d, setup'[d].nonce, setup'[d].amount)
  BY <1>2, <1>3 DEF SetupInv, OwnInv
<1> QED BY <1>1, <1>2, <1>3, <1>4, LocalStep

LEMMA SendStep ==
  ASSUME SetupInv, TypeOK', Inv', NEW d \in Devices, Send(d) PROVE SetupInv'
<1>1. /\ pc[d] = "ready" /\ pc' = [pc EXCEPT ![d] = "sent"]
      /\ network' = network \cup {Transaction(d, op) : op \in plan[d]}
      /\ landed' = [landed EXCEPT ![d] = {}]
      /\ UNCHANGED <<policySeed, policies, delegations, rows, closed, setup, seed, plan>>
  BY Zenon DEF Send, Goto, chain, history, args, reads
<1>2. pc'[d] = "sent" /\ landed'[d] = {} /\ \A x \in Devices \ {d} : Steady(x)
  BY <1>1 DEF SetupInv, TypeOK, Steady
<1>3. \A x \in Devices : (Active(x)' <=> Active(x)) /\ (Closing(x)' <=> Closing(x))
  BY <1>1, <1>2 DEF Steady, Active, Closing, ClosePcs, Resting
<1>4. \A n, s : /\ (Recorded(n)' <=> Recorded(n)) /\ (Known(s, n)' <=> Known(s, n))
                /\ (Taken(n)' <=> Taken(n)) /\ (Seen(s)' <=> Seen(s))
  BY <1>1 DEF Recorded, Known, Taken, Seen, At
<1>5. Active(d) \/ Recorded(setup[d].nonce)
  BY <1>1 DEF SetupInv, CloseInv, Active, Resting, Known, Recorded
<1>6. ASSUME NEW t \in network', t \notin network
      PROVE  /\ t.by = d /\ t.op \in plan[d] /\ t.seed = seed[d] /\ t.nonce = setup[d].nonce
             /\ t.amount = setup[d].amount
  BY <1>1, <1>6 DEF Transaction
<1>7. OwnInv'
  <2>1. SUFFICES ASSUME NEW x \in Devices, Active(x)
                 PROVE  Entitled(x, setup[x].nonce, setup[x].amount)'
    BY <1>3, Zenon DEF OwnInv
  <2>2. Entitled(x, setup[x].nonce, setup[x].amount)
    BY <2>1 DEF SetupInv, OwnInv
  <2>3. ASSUME NEW t \in network', t.nonce = setup[x].nonce PROVE t.amount = setup[x].amount
    <3>1. CASE t \in network
      BY <2>2, <2>3, <3>1 DEF Entitled
    <3>2. CASE t \notin network
      <4>1. t.nonce = setup[d].nonce /\ t.amount = setup[d].amount
        BY <1>6, <3>2
      <4>2. x = d
        BY <1>5, <2>2, <2>3, <4>1 DEF Entitled
      <4> QED BY <4>1, <4>2
    <3> QED BY <3>1, <3>2
  <2> QED BY <1>1, <1>3, <1>4, <2>2, <2>3 DEF Entitled
<1>8. CloseInv'
  <2>1. ASSUME NEW t \in network', t \notin network, t.op = "close" PROVE Known(t.seed, t.nonce)
    <3>1. "close" \in plan[d] /\ plan[d] \in Plans
      BY <1>1, <1>6, <2>1 DEF SetupInv, PlanInv, Grounded
    <3>2. plan[d] = {"close"}
      BY <3>1 DEF Plans
    <3> QED BY <1>1, <1>6, <2>1, <3>2 DEF SetupInv, CloseInv, Closing
  <2> QED BY <1>1, <1>3, <1>4, <2>1 DEF SetupInv, CloseInv
<1>9. TraceInv'
  <2>1. SUFFICES ASSUME NEW n \in Nonces,
                        (\E t \in network' : t.nonce = n) \/ (\E s \in Seeds : policies[s].made = n)
                 PROVE  Taken(n) \/ \E x \in Devices : Active(x) /\ setup[x].nonce = n
    BY <1>1, <1>3, <1>4, Zenon DEF TraceInv
  <2>2. ASSUME NEW t \in network', t \notin network, t.nonce = n
        PROVE  Taken(n) \/ \E x \in Devices : Active(x) /\ setup[x].nonce = n
    BY <1>5, <1>6, <2>2 DEF Taken
  <2> QED BY <2>1, <2>2 DEF SetupInv, TraceInv
<1>10. RoundInv'
  <2>1. ASSUME NEW t \in network, ~t.late PROVE t.by \in Devices \ {d}
    BY <1>1, <2>1 DEF SetupInv, TypeOK, Transactions, RoundInv
  <2>2. ASSUME NEW t \in network', ~t.late
        PROVE  pc'[t.by] = "sent" /\ t.op \in plan[t.by] /\ t.seed = seed[t.by] /\ t.nonce = setup[t.by].nonce
    <3>1. CASE t \in network
      BY <2>1, <2>2, <3>1, <1>2 DEF SetupInv, RoundInv, Steady
    <3>2. CASE t \notin network
      BY <1>2, <1>6, <3>2
    <3> QED BY <3>1, <3>2
  <2> QED BY <1>1, <2>2 DEF RoundInv
<1>11. PlanInv' /\ LandedInv'
  <2>1. \A x \in Devices : Grounded(x)' <=> Grounded(x)
    BY <1>1, <1>4 DEF Grounded
  <2>2. PlanInv'
    BY <1>1, <1>2, <2>1 DEF SetupInv, PlanInv, Steady
  <2>3. LandedInv'
    <3>1. SUFFICES ASSUME NEW x \in Devices, pc'[x] = "sent"
                   PROVE  /\ landed'[x] \subseteq plan'[x]
                          /\ "create_policy" \in landed'[x] => Seen(seed[x])'
                          /\ "create_recurring_delegation" \in landed'[x] => delegations'[setup'[x].nonce] # 0
      BY Zenon DEF LandedInv
    <3>2. CASE x = d
      BY <1>2, <3>2
    <3>3. CASE x # d
      BY <1>1, <1>2, <1>4, <3>1, <3>3 DEF SetupInv, LandedInv, Steady
    <3> QED BY <3>2, <3>3
  <2> QED BY <2>2, <2>3
<1>12. RowsInv' /\ MadeInv'
  BY <1>1, <1>4 DEF SetupInv, RowsInv, OneRow, MadeInv, At
<1> QED BY <1>7, <1>8, <1>9, <1>10, <1>11, <1>12 DEF SetupInv

LEMMA AnswerLostStep ==
  ASSUME SetupInv, TypeOK', Inv', NEW d \in Devices, AnswerLost(d) PROVE SetupInv'
<1>1. /\ pc[d] = "sent"
      /\ network' = (network \ Sent(d)) \cup {[t EXCEPT !.late = TRUE] : t \in Sent(d)}
      /\ UNCHANGED <<policySeed, policies, delegations, rows, closed, seed, plan, landed>>
      /\ \/ plan[d] = {"close"} /\ pc' = [pc EXCEPT ![d] = "done"] /\ UNCHANGED setup
         \/ /\ plan[d] # {"close"} /\ pc' = [pc EXCEPT ![d] = "authority"]
            /\ setup' = [setup EXCEPT ![d].asked = seed[d]]
  BY Zenon DEF AnswerLost, Goto, chain, reads
<1>2. Thinned(d)
  <2>1. SUFFICES ASSUME NEW t \in network'
                 PROVE  /\ \E u \in network : /\ u.op = t.op /\ u.seed = t.seed /\ u.nonce = t.nonce
                                              /\ u.amount = t.amount
                        /\ ~t.late => t \in network /\ t.by # d
    BY DEF Thinned
  <2>2. CASE t \in network \ Sent(d)
    BY <2>2 DEF Sent
  <2>3. ASSUME NEW u \in Sent(d), t = [u EXCEPT !.late = TRUE]
        PROVE  /\ u \in network /\ u.op = t.op /\ u.seed = t.seed /\ u.nonce = t.nonce
               /\ u.amount = t.amount /\ t.late
    <3>1. u \in Transactions
      BY DEF Sent, SetupInv, TypeOK
    <3> QED BY <2>3, <3>1 DEF Sent, Transactions
  <2> QED BY <1>1, <2>1, <2>2, <2>3
<1>3. /\ setup'[d].nonce = setup[d].nonce /\ setup'[d].amount = setup[d].amount
      /\ pc'[d] \in {"done", "authority"} /\ (pc'[d] = "authority" <=> plan[d] # {"close"})
      /\ \A x \in Devices \ {d} : Steady(x)
  BY <1>1 DEF SetupInv, TypeOK, Steady
<1>4. ~Closing(d)' /\ (Active(d)' <=> plan[d] # {"close"}) /\ (Active(d) <=> plan[d] # {"close"})
  BY <1>1, <1>3 DEF Active, Closing, ClosePcs, Resting
<1>5. Active(d)' => Entitled(d, setup'[d].nonce, setup'[d].amount)
  BY <1>3, <1>4 DEF SetupInv, OwnInv
<1> QED BY <1>1, <1>2, <1>3, <1>4, <1>5, WaitlessStep

\* A setup that has landed its last stage is recorded, and nobody may be at work
\* on it any more.
LEMMA RecordStep ==
  ASSUME SetupInv, TypeOK', Inv', NEW d \in Devices, Settled(d), landed[d] \cap Final # {}
  PROVE  SetupInv'
<1>1. /\ pc[d] = "sent" /\ Sent(d) = {} /\ rows' = rows \cup {Row(d)}
      /\ pc' = [pc EXCEPT ![d] = "done"]
      /\ UNCHANGED <<policySeed, policies, delegations, network, closed, setup, seed, plan, landed>>
  BY DEF Settled, Goto, chain, reads
<1>2. pc'[d] = "done" /\ \A x \in Devices \ {d} : Steady(x)
  BY <1>1 DEF SetupInv, TypeOK, Steady
<1>3. /\ plan[d] \in Plans /\ landed[d] \subseteq plan[d] /\ Grounded(d)
      /\ "create_policy" \in landed[d] => Seen(seed[d])
      /\ "create_recurring_delegation" \in landed[d] => delegations[setup[d].nonce] # 0
  BY <1>1 DEF SetupInv, PlanInv, LandedInv, Grounded
<1>4. plan[d] # {"close"}
  BY <1>3 DEF Final
<1>5. Active(d) /\ ~Active(d)' /\ ~Closing(d)'
  BY <1>1, <1>2, <1>4 DEF Active, Closing, ClosePcs, Resting
<1>6. Entitled(d, setup[d].nonce, setup[d].amount)
  BY <1>5 DEF SetupInv, OwnInv
<1>7. /\ Row(d).nonce = setup[d].nonce /\ Row(d).seed = seed[d] /\ Row(d).amount = setup[d].amount
      /\ Row(d).whole <=> landed[d] = plan[d]
  BY DEF Row
<1> DEFINE row == Row(d)
<1> HIDE DEF row
<1>8. \A x \in Devices \ {d} : (Active(x)' <=> Active(x)) /\ (Closing(x)' <=> Closing(x))
  BY <1>2 DEF Steady, Active, Closing
<1>9. /\ \A n : Recorded(n)' <=> Recorded(n) \/ n = setup[d].nonce
      /\ \A n, s : Known(s, n) => Known(s, n)'
      /\ \A s : Seen(s)' <=> Seen(s)
  BY <1>1, <1>7 DEF Recorded, Known, Seen, At
<1>10. OwnInv'
  <2>1. SUFFICES ASSUME NEW x \in Devices \ {d}, Active(x)
                 PROVE  Entitled(x, setup[x].nonce, setup[x].amount)'
    BY <1>5, <1>8, Zenon DEF OwnInv
  <2>2. Entitled(x, setup[x].nonce, setup[x].amount)
    BY <2>1 DEF SetupInv, OwnInv
  <2>3. setup[x].nonce # setup[d].nonce
    BY <1>5, <2>2 DEF Entitled
  <2>4. \A y \in Devices \ {x} : Active(y)' => Active(y)
    BY <1>5, <1>8
  <2> QED BY <1>1, <1>9, <2>2, <2>3, <2>4 DEF Entitled
<1>11. CloseInv'
  BY <1>1, <1>5, <1>8, <1>9 DEF SetupInv, CloseInv
<1>12. TraceInv'
  <2>1. SUFFICES ASSUME NEW n \in Nonces,
                        (\E t \in network : t.nonce = n) \/ (\E s \in Seeds : policies[s].made = n)
                 PROVE  Taken(n)' \/ \E x \in Devices : Active(x)' /\ setup[x].nonce = n
    BY <1>1, Zenon DEF TraceInv
  <2>2. CASE Taken(n) \/ n = setup[d].nonce
    BY <1>1, <1>9, <2>2 DEF Taken
  <2>3. ASSUME NEW x \in Devices \ {d}, Active(x), setup[x].nonce = n PROVE Active(x)'
    BY <1>8, <2>3
  <2> QED BY <2>1, <2>2, <2>3 DEF SetupInv, TraceInv
<1>13. RoundInv' /\ PlanInv' /\ LandedInv'
  <2>1. ASSUME NEW t \in network, ~t.late PROVE t.by \in Devices \ {d}
    BY <1>1, <2>1 DEF SetupInv, TypeOK, Transactions, Sent
  <2>2. \A x \in Devices : Grounded(x)' <=> Grounded(x)
    BY <1>1, <1>9 DEF Grounded
  <2>3. RoundInv'
    BY <1>1, <1>2, <2>1 DEF SetupInv, RoundInv, Steady
  <2>4. PlanInv'
    BY <1>2, <2>2 DEF SetupInv, PlanInv, Steady
  <2>5. LandedInv'
    BY <1>1, <1>2, <1>9 DEF SetupInv, LandedInv, Steady
  <2> QED BY <2>3, <2>4, <2>5
<1>14. ASSUME row.whole
       PROVE  /\ Seen(row.seed)
              /\ At(row.seed).made = row.nonce => At(row.seed).max = row.amount
              /\ delegations[row.nonce] = row.amount
  <2>1. landed[d] = plan[d]
    BY <1>7, <1>14 DEF row
  <2>2. plan[d] # {"initialize_subscription_authority"} /\ plan[d] # {"create_policy"}
    BY <1>3 DEF Final
  <2>3. Seen(seed[d]) /\ delegations[setup[d].nonce] # 0
    <3>1. CASE plan[d] = {"create_recurring_delegation"}
      BY <1>3, <2>1, <3>1 DEF Grounded
    <3>2. CASE plan[d] = {"approve_token_delegate"}
      BY <1>3, <2>1, <3>2 DEF Grounded
    <3>3. CASE plan[d] = {"create_policy", "create_recurring_delegation"}
      BY <1>3, <2>1, <3>3
    <3> QED BY <1>3, <1>4, <2>2, <3>1, <3>2, <3>3 DEF Plans
  <2>4. At(seed[d]).made = setup[d].nonce => At(seed[d]).max = setup[d].amount
    <3>1. setup[d].nonce \in Nonces
      BY <1>1 DEF SetupInv, TypeOK
    <3>2. setup[d].nonce # 0
      BY <3>1, AutodepositAssumption
    <3> QED BY <1>6, <3>2 DEF Entitled, At, NoPolicy
  <2> QED BY <1>6, <1>7, <2>3, <2>4 DEF Entitled, row
<1>15. RowsInv'
  <2>1. OneRow'
    <3>1. \A r \in rows \cup closed : r.nonce # row.nonce
      BY <1>6, <1>7 DEF Entitled, Recorded, row
    <3>2. rows' \cup closed' = (rows \cup closed) \cup {row}
      BY <1>1 DEF row
    <3> QED BY <3>1, <3>2 DEF SetupInv, RowsInv, OneRow
  <2>2. SUFFICES ASSUME NEW r \in rows', r.whole
                 PROVE  /\ Seen(r.seed) /\ (At(r.seed).made = r.nonce => At(r.seed).max = r.amount)
                        /\ (\A c \in closed : c.seed # r.seed) => delegations[r.nonce] = r.amount
    BY <1>1, <1>9, <2>1 DEF RowsInv, At
  <2>3. CASE r \in rows
    BY <2>2, <2>3 DEF SetupInv, RowsInv
  <2>4. CASE r = row
    BY <1>14, <2>2, <2>4
  <2> QED BY <1>1, <2>3, <2>4 DEF row
<1>16. MadeInv'
  BY <1>1 DEF SetupInv, MadeInv
<1> QED BY <1>10, <1>11, <1>12, <1>13, <1>15, <1>16 DEF SetupInv

LEMMA SettledStep ==
  ASSUME SetupInv, TypeOK', Inv', NEW d \in Devices, Settled(d) PROVE SetupInv'
<1>1. CASE landed[d] \cap Final # {}
  BY <1>1, RecordStep
<1>2. CASE landed[d] \cap Final = {}
  <2>1. /\ pc[d] = "sent" /\ Sent(d) = {}
        /\ UNCHANGED <<policySeed, policies, delegations, network, rows, closed, seed, plan, landed>>
        /\ \/ plan[d] = {"close"} /\ pc' = [pc EXCEPT ![d] = "done"] /\ UNCHANGED setup
           \/ /\ plan[d] # {"close"} /\ pc' = [pc EXCEPT ![d] = "authority"]
              /\ setup' = [setup EXCEPT ![d].asked = seed[d]]
    BY <1>2 DEF Settled, Goto, chain, reads
  <2>2. /\ setup'[d].nonce = setup[d].nonce /\ setup'[d].amount = setup[d].amount
        /\ pc'[d] \in {"done", "authority"} /\ (pc'[d] = "authority" <=> plan[d] # {"close"})
        /\ \A x \in Devices \ {d} : Steady(x)
    BY <2>1 DEF SetupInv, TypeOK, Steady
  <2>3. ~Closing(d)' /\ (Active(d)' <=> plan[d] # {"close"}) /\ (Active(d) <=> plan[d] # {"close"})
    BY <2>1, <2>2 DEF Active, Closing, ClosePcs, Resting
  <2>4. Active(d)' => Entitled(d, setup'[d].nonce, setup'[d].amount)
    BY <2>2, <2>3 DEF SetupInv, OwnInv
  <2> QED BY <2>1, <2>2, <2>3, <2>4, LocalStep
<1> QED BY <1>1, <1>2

\* The devices stay where they are, and nothing is sent.
Outside ==
  /\ network' \subseteq network
  /\ UNCHANGED <<pc, setup, seed, plan>>

LEMMA OutsideKeeps ==
  ASSUME Outside
  PROVE  \A d \in Devices : (Active(d)' <=> Active(d)) /\ (Closing(d)' <=> Closing(d))
BY DEF Outside, Active, Closing

\* Nothing lands.
LEMMA NothingLands ==
  ASSUME SetupInv, TypeOK', Inv', Outside,
         UNCHANGED <<policies, delegations, rows, closed, landed>>
  PROVE  SetupInv'
<1>1. \A n, s : /\ (Recorded(n)' <=> Recorded(n)) /\ (Known(s, n)' <=> Known(s, n))
                /\ (Taken(n)' <=> Taken(n)) /\ (Seen(s)' <=> Seen(s))
  BY DEF Recorded, Known, Taken, Seen, At
<1>2. OwnInv'
  <2>1. SUFFICES ASSUME NEW d \in Devices, Active(d)
                 PROVE  Entitled(d, setup[d].nonce, setup[d].amount)'
    BY OutsideKeeps, Zenon DEF OwnInv
  <2>2. Entitled(d, setup[d].nonce, setup[d].amount)
    BY <2>1 DEF SetupInv, OwnInv
  <2> QED BY <1>1, <2>2, OutsideKeeps DEF Entitled, Outside
<1>3. CloseInv'
  BY <1>1, OutsideKeeps DEF SetupInv, CloseInv, Outside
<1>4. TraceInv'
  <2>1. SUFFICES ASSUME NEW n \in Nonces,
                        (\E t \in network : t.nonce = n) \/ (\E s \in Seeds : policies[s].made = n)
                 PROVE  Taken(n)' \/ \E d \in Devices : Active(d)' /\ setup[d].nonce = n
    BY Zenon DEF TraceInv, Outside
  <2> QED BY <1>1, <2>1, OutsideKeeps, Zenon DEF SetupInv, TraceInv
<1>5. RoundInv'
  BY DEF SetupInv, RoundInv, Outside
<1>6. PlanInv' /\ LandedInv'
  BY <1>1 DEF SetupInv, PlanInv, LandedInv, Grounded, Outside
<1>7. RowsInv' /\ MadeInv'
  BY <1>1 DEF SetupInv, RowsInv, OneRow, MadeInv, At
<1> QED BY <1>2, <1>3, <1>4, <1>5, <1>6, <1>7 DEF SetupInv

\* Where there has been a sweep policy is below policySeed.
LEMMA SeenIsUsed ==
  ASSUME Inv, NEW s, Seen(s) PROVE s \in Seeds /\ s <= policySeed /\ policySeed \in Nat
<1>1. CASE At(s).kind = "sweep"
  BY <1>1 DEF At, NoPolicy, Inv, SeedsInv
<1>2. CASE \E c \in closed : c.seed = s
  BY <1>2 DEF Inv, ClosedInv, SeedsInv
<1> QED BY <1>1, <1>2 DEF Seen

LEMMA RouteStep ==
  ASSUME SetupInv, TypeOK', Inv', CreateRoute PROVE SetupInv'
<1>1. /\ policySeed < MaxSeed /\ policies' = [policies EXCEPT ![policySeed + 1] = Route]
      /\ UNCHANGED <<delegations, network, rows, closed, pc, setup, seed, plan, landed>>
  BY Zenon DEF CreateRoute, args, reads
<1>2. Outside
  BY <1>1 DEF Outside
<1>3. policySeed + 1 \in Seeds /\ policySeed \in Nat
  BY <1>1, AutodepositAssumption DEF SetupInv, TypeOK, Seeds
<1>4. /\ \A s \in Seeds : s # policySeed + 1 => policies'[s] = policies[s]
      /\ policies'[policySeed + 1] = Route
  BY <1>1, <1>3 DEF SetupInv, TypeOK
<1>5. \A n, s : /\ (Recorded(n)' <=> Recorded(n)) /\ (Known(s, n)' <=> Known(s, n))
                /\ (Taken(n)' <=> Taken(n))
  BY <1>1 DEF Recorded, Known, Taken
<1>6. ASSUME NEW s, Seen(s) PROVE Seen(s)' /\ At(s)' = At(s)
  <2>1. s \in Seeds /\ s # policySeed + 1
    BY <1>3, <1>6, SeenIsUsed DEF SetupInv
  <2> QED BY <1>1, <1>4, <1>6, <2>1 DEF Seen, At
<1>7. Route.made = 0 /\ Route.kind # "sweep" /\ \A n \in Nonces : n # 0
  BY AutodepositAssumption DEF Route
<1>8. OwnInv'
  <2>1. SUFFICES ASSUME NEW d \in Devices, Active(d)
                 PROVE  Entitled(d, setup[d].nonce, setup[d].amount)'
    BY <1>2, OutsideKeeps, Zenon DEF OwnInv, Outside
  <2>2. Entitled(d, setup[d].nonce, setup[d].amount)
    BY <2>1 DEF SetupInv, OwnInv
  <2>3. setup[d].nonce # 0
    BY <1>7, <2>1 DEF SetupInv, TypeOK, Active, Resting
  <2> QED BY <1>1, <1>2, <1>4, <1>5, <1>7, <2>2, <2>3, OutsideKeeps DEF Entitled
<1>9. CloseInv'
  BY <1>1, <1>2, <1>5, OutsideKeeps DEF SetupInv, CloseInv
<1>10. TraceInv'
  <2>1. SUFFICES ASSUME NEW n \in Nonces,
                        (\E t \in network : t.nonce = n) \/ (\E s \in Seeds : policies'[s].made = n)
                 PROVE  Taken(n)' \/ \E d \in Devices : Active(d)' /\ setup[d].nonce = n
    BY <1>1, Zenon DEF TraceInv
  <2>2. \A s \in Seeds : policies'[s].made = n => policies[s].made = n
    BY <1>4, <1>7
  <2> QED BY <1>2, <1>5, <2>1, <2>2, OutsideKeeps DEF SetupInv, TraceInv
<1>11. RoundInv'
  BY <1>1 DEF SetupInv, RoundInv
<1>12. PlanInv' /\ LandedInv'
  BY <1>1, <1>6 DEF SetupInv, PlanInv, LandedInv, Grounded
<1>13. RowsInv'
  BY <1>1, <1>6 DEF SetupInv, RowsInv, OneRow
<1>14. MadeInv'
  BY <1>4, <1>7 DEF SetupInv, MadeInv
<1> QED BY <1>8, <1>9, <1>10, <1>11, <1>12, <1>13, <1>14 DEF SetupInv

\* A transaction of a setup builds what its owner has asked for.
LEMMA LandSetupKeeps ==
  ASSUME SetupInv, TypeOK', Inv', NEW t, LandSetup(t) PROVE SetupInv'
<1>1. /\ t \in network /\ network' = network \ {t}
      /\ UNCHANGED <<rows, closed, pc, setup, seed, plan>>
      /\ landed' = IF t.late THEN landed ELSE [landed EXCEPT ![t.by] = @ \cup {t.op}]
  BY Zenon DEF LandSetup, Tell, history, args, reads
<1>2. /\ t.by \in Devices /\ t.nonce \in Nonces /\ t.amount \in Amounts /\ t.nonce # 0 /\ t.amount # 0
  BY <1>1, AutodepositAssumption DEF SetupInv, TypeOK, Transactions, Amounts
<1>3. Outside
  BY <1>1 DEF Outside
<1>4. /\ t.op = "create_policy" =>
           /\ t.seed = policySeed + 1 /\ t.seed \in Seeds
           /\ policies'[t.seed] = [kind |-> "sweep", max |-> t.amount, made |-> t.nonce]
      /\ \A s \in Seeds : policies'[s] = policies[s] \/ (t.op = "create_policy" /\ s = t.seed)
  <2>1. CASE t.op = "create_policy"
    <3>1. /\ t.seed = policySeed + 1 /\ policySeed < MaxSeed
          /\ policies' = [policies EXCEPT ![t.seed] =
               [kind |-> "sweep", max |-> t.amount, made |-> t.nonce]]
      BY <2>1, Zenon DEF LandSetup, Accepts
    <3>2. t.seed \in Seeds
      BY <3>1, AutodepositAssumption DEF SetupInv, TypeOK, Seeds
    <3> QED BY <2>1, <3>1, <3>2 DEF SetupInv, TypeOK
  <2>2. CASE t.op # "create_policy"
    BY <2>2 DEF LandSetup
  <2> QED BY <2>1, <2>2
<1>5. /\ t.op = "create_recurring_delegation" =>
           delegations[t.nonce] = 0 /\ delegations'[t.nonce] = t.amount
      /\ \A n \in Nonces : \/ delegations'[n] = delegations[n]
                           \/ t.op = "create_recurring_delegation" /\ n = t.nonce
  <2>1. CASE t.op = "create_recurring_delegation"
    <3>1. delegations[t.nonce] = 0 /\ delegations' = [delegations EXCEPT ![t.nonce] = t.amount]
      BY <2>1, Zenon DEF LandSetup, Accepts
    <3> QED BY <1>2, <2>1, <3>1 DEF SetupInv, TypeOK
  <2>2. CASE t.op # "create_recurring_delegation"
    BY <2>2 DEF LandSetup
  <2> QED BY <2>1, <2>2
<1>6. /\ \A n, s : (Recorded(n)' <=> Recorded(n)) /\ (Known(s, n)' <=> Known(s, n))
      /\ \A n \in Nonces : delegations[n] # 0 => delegations'[n] = delegations[n]
      /\ \A n \in Nonces : Taken(n) => Taken(n)'
  BY <1>1, <1>5 DEF Recorded, Known, Taken
<1>7. ASSUME NEW s, Seen(s) PROVE Seen(s)' /\ At(s)' = At(s)
  <2>1. s \in Seeds /\ (t.op = "create_policy" => s # t.seed)
    BY <1>4, <1>7, SeenIsUsed DEF SetupInv
  <2> QED BY <1>1, <1>4, <1>7, <2>1 DEF Seen, At
<1>8. t.op = "create_policy" => Seen(t.seed)'
  BY <1>4 DEF Seen, At
<1>9. \A d \in Devices : pc[d] # "idle" => setup[d].nonce \in Nonces
  BY DEF SetupInv, TypeOK
<1>10. OwnInv'
  <2>1. SUFFICES ASSUME NEW d \in Devices, Active(d)
                 PROVE  Entitled(d, setup[d].nonce, setup[d].amount)'
    BY <1>3, OutsideKeeps, Zenon DEF OwnInv, Outside
  <2>2. Entitled(d, setup[d].nonce, setup[d].amount) /\ setup[d].nonce \in Nonces
    BY <1>9, <2>1 DEF SetupInv, OwnInv, Active, Resting
  <2>3. t.nonce = setup[d].nonce => t.amount = setup[d].amount
    BY <1>1, <2>2 DEF Entitled
  <2>4. delegations'[setup[d].nonce] \in {0, setup[d].amount}
    BY <1>5, <2>2, <2>3 DEF Entitled
  <2>5. \A s \in Seeds : policies'[s].made = setup[d].nonce => policies'[s].max = setup[d].amount
    BY <1>4, <2>2, <2>3 DEF Entitled
  <2> QED BY <1>1, <1>3, <1>6, <2>2, <2>4, <2>5, OutsideKeeps DEF Entitled
<1>11. CloseInv'
  BY <1>1, <1>3, <1>6, OutsideKeeps DEF SetupInv, CloseInv
<1>12. TraceInv'
  <2>1. SUFFICES ASSUME NEW n \in Nonces,
                        (\E u \in network' : u.nonce = n) \/ (\E s \in Seeds : policies'[s].made = n)
                 PROVE  Taken(n)' \/ \E d \in Devices : Active(d)' /\ setup[d].nonce = n
    BY <1>1, Zenon DEF TraceInv
  <2>2. (\E u \in network : u.nonce = n) \/ (\E s \in Seeds : policies[s].made = n)
    BY <1>1, <1>4, <2>1
  <2> QED BY <1>3, <1>6, <2>2, OutsideKeeps DEF SetupInv, TraceInv
<1>13. RoundInv'
  BY <1>1 DEF SetupInv, RoundInv
<1>14. PlanInv'
  <2>1. SUFFICES ASSUME NEW d \in Devices, pc[d] \in {"ready", "sent"} PROVE Grounded(d)'
    BY <1>1, Zenon DEF PlanInv
  <2>2. Grounded(d) /\ setup[d].nonce \in Nonces
    BY <1>9, <2>1 DEF SetupInv, PlanInv
  <2> QED BY <1>1, <1>6, <1>7, <2>2 DEF Grounded
<1>15. LandedInv'
  <2>1. SUFFICES ASSUME NEW d \in Devices, pc[d] = "sent"
                 PROVE  /\ landed'[d] \subseteq plan[d]
                        /\ "create_policy" \in landed'[d] => Seen(seed[d])'
                        /\ "create_recurring_delegation" \in landed'[d] => delegations'[setup[d].nonce] # 0
    BY <1>1, Zenon DEF LandedInv
  <2>2. /\ landed[d] \subseteq plan[d] /\ setup[d].nonce \in Nonces
        /\ "create_policy" \in landed[d] => Seen(seed[d])
        /\ "create_recurring_delegation" \in landed[d] => delegations[setup[d].nonce] # 0
    BY <1>9, <2>1 DEF SetupInv, LandedInv
  <2>3. CASE landed'[d] = landed[d]
    BY <1>1, <1>6, <1>7, <2>2, <2>3
  <2>4. CASE landed'[d] # landed[d]
    <3>1. ~t.late /\ t.by = d /\ landed'[d] = landed[d] \cup {t.op}
      BY <1>1, <1>2, <2>4 DEF SetupInv, TypeOK
    <3>2. t.op \in plan[d] /\ t.seed = seed[d] /\ t.nonce = setup[d].nonce
      BY <1>1, <3>1 DEF SetupInv, RoundInv
    <3>3. "create_policy" \in landed'[d] => Seen(seed[d])'
      BY <1>1, <1>7, <1>8, <2>2, <3>1, <3>2
    <3>4. "create_recurring_delegation" \in landed'[d] => delegations'[setup[d].nonce] # 0
      BY <1>2, <1>5, <1>6, <2>2, <3>1, <3>2
    <3> QED BY <2>2, <3>1, <3>2, <3>3, <3>4
  <2> QED BY <2>3, <2>4
<1>16. RowsInv'
  <2>1. SUFFICES ASSUME NEW r \in rows, r.whole
                 PROVE  /\ Seen(r.seed)' /\ (At(r.seed)'.made = r.nonce => At(r.seed)'.max = r.amount)
                        /\ (\A c \in closed : c.seed # r.seed) => delegations'[r.nonce] = r.amount
    BY <1>1 DEF SetupInv, RowsInv, OneRow
  <2>2. /\ Seen(r.seed) /\ (At(r.seed).made = r.nonce => At(r.seed).max = r.amount)
        /\ (\A c \in closed : c.seed # r.seed) => delegations[r.nonce] = r.amount
    BY <2>1 DEF SetupInv, RowsInv
  <2>3. r.nonce \in Nonces /\ r.amount # 0
    BY AutodepositAssumption DEF SetupInv, TypeOK, Rows, Amounts
  <2> QED BY <1>6, <1>7, <2>2, <2>3
<1>17. MadeInv'
  BY <1>2, <1>4 DEF SetupInv, MadeInv
<1> QED BY <1>10, <1>11, <1>12, <1>13, <1>14, <1>15, <1>16, <1>17 DEF SetupInv

\* A close takes away what a recorded setup has left, and nothing of one that is
\* under way.
LEMMA LandCloseKeeps ==
  ASSUME SetupInv, TypeOK', Inv', NEW t, LandClose(t) PROVE SetupInv'
<1>1. /\ t \in network /\ t.op = "close" /\ network' = network \ {t} /\ At(t.seed).kind # "none"
      /\ policies' = [policies EXCEPT ![t.seed] = NoPolicy]
      /\ rows' = {r \in rows : r.seed # t.seed \/ r.nonce # t.nonce}
      /\ closed' = closed \cup (rows \ rows')
      /\ UNCHANGED <<pc, setup, seed, plan>>
      /\ landed' = IF t.late THEN landed ELSE [landed EXCEPT ![t.by] = @ \cup {t.op}]
      /\ delegations' = IF "delegation" \in t.revoke
                        THEN [delegations EXCEPT ![t.nonce] = 0] ELSE delegations
  BY Zenon DEF LandClose, Accepts, Tell, args, reads
<1>2. t.by \in Devices /\ t.nonce \in Nonces /\ t.seed \in Seeds
  BY <1>1 DEF SetupInv, TypeOK, Transactions, At, NoPolicy
<1>3. Outside
  BY <1>1 DEF Outside
<1>4. /\ policies'[t.seed] = NoPolicy
      /\ \A s \in Seeds : s # t.seed => policies'[s] = policies[s]
      /\ \A n \in Nonces : delegations'[n] = delegations[n] \/ (n = t.nonce /\ delegations'[n] = 0)
  BY <1>1, <1>2 DEF SetupInv, TypeOK
<1>5. PICK row \in rows \cup closed : row.seed = t.seed /\ row.nonce = t.nonce
  BY <1>1, Zenon DEF SetupInv, CloseInv, Known
<1>6. rows' \cup closed' = rows \cup closed /\ closed \subseteq closed' /\ row \in closed'
  BY <1>1, <1>5
<1>7. \A n, s : (Recorded(n)' <=> Recorded(n)) /\ (Known(s, n)' <=> Known(s, n))
  BY <1>6 DEF Recorded, Known
<1>8. Recorded(t.nonce) /\ \A n \in Nonces : Taken(n) => Taken(n)'
  BY <1>4, <1>5, <1>7 DEF Recorded, Taken
<1>9. ASSUME NEW s, Seen(s) PROVE Seen(s)'
  <2>1. CASE s = t.seed
    BY <1>5, <1>6, <2>1 DEF Seen
  <2>2. CASE s # t.seed
    BY <1>4, <1>6, <1>9, <2>2 DEF Seen, At
  <2> QED BY <2>1, <2>2
<1>10. NoPolicy.made = 0 /\ NoPolicy.kind # "sweep" /\ \A n \in Nonces : n # 0
  BY AutodepositAssumption DEF NoPolicy
<1>11. ASSUME NEW d \in Devices, Active(d)
       PROVE  /\ Entitled(d, setup[d].nonce, setup[d].amount) /\ setup[d].nonce \in Nonces
              /\ setup[d].nonce # t.nonce /\ delegations'[setup[d].nonce] = delegations[setup[d].nonce]
  <2>1. Entitled(d, setup[d].nonce, setup[d].amount) /\ setup[d].nonce \in Nonces
    BY <1>11 DEF SetupInv, OwnInv, TypeOK, Active, Resting
  <2> QED BY <1>4, <1>8, <2>1 DEF Entitled
<1>12. OwnInv'
  <2>1. SUFFICES ASSUME NEW d \in Devices, Active(d)
                 PROVE  Entitled(d, setup[d].nonce, setup[d].amount)'
    BY <1>3, OutsideKeeps, Zenon DEF OwnInv, Outside
  <2>2. Entitled(d, setup[d].nonce, setup[d].amount) /\ setup[d].nonce # 0
        /\ delegations'[setup[d].nonce] = delegations[setup[d].nonce]
    BY <1>10, <1>11, <2>1
  <2> QED BY <1>1, <1>3, <1>4, <1>7, <1>10, <2>2, OutsideKeeps DEF Entitled
<1>13. CloseInv'
  BY <1>1, <1>3, <1>7, OutsideKeeps DEF SetupInv, CloseInv
<1>14. TraceInv'
  <2>1. SUFFICES ASSUME NEW n \in Nonces,
                        (\E u \in network' : u.nonce = n) \/ (\E s \in Seeds : policies'[s].made = n)
                 PROVE  Taken(n)' \/ \E d \in Devices : Active(d)' /\ setup[d].nonce = n
    BY <1>1, Zenon DEF TraceInv
  <2>2. (\E u \in network : u.nonce = n) \/ (\E s \in Seeds : policies[s].made = n)
    BY <1>1, <1>4, <1>10, <2>1
  <2> QED BY <1>3, <1>8, <2>2, OutsideKeeps DEF SetupInv, TraceInv
<1>15. RoundInv'
  BY <1>1 DEF SetupInv, RoundInv
<1>16. PlanInv'
  <2>1. SUFFICES ASSUME NEW d \in Devices, pc[d] \in {"ready", "sent"} PROVE Grounded(d)'
    BY <1>1, Zenon DEF PlanInv
  <2>2. Grounded(d)
    BY <2>1 DEF SetupInv, PlanInv
  <2>3. ASSUME plan[d] = {"approve_token_delegate"} PROVE delegations'[setup[d].nonce] # 0
    <3>1. Active(d)
      BY <2>1, <2>3 DEF Active, Closing, ClosePcs, Resting
    <3> QED BY <1>11, <2>2, <2>3, <3>1 DEF Grounded
  <2> QED BY <1>1, <1>9, <2>2, <2>3 DEF Grounded
<1>17. LandedInv'
  <2>1. SUFFICES ASSUME NEW d \in Devices, pc[d] = "sent"
                 PROVE  /\ landed'[d] \subseteq plan[d]
                        /\ "create_policy" \in landed'[d] => Seen(seed[d])'
                        /\ "create_recurring_delegation" \in landed'[d] => delegations'[setup[d].nonce] # 0
    BY <1>1, Zenon DEF LandedInv
  <2>2. /\ landed[d] \subseteq plan[d]
        /\ "create_policy" \in landed[d] => Seen(seed[d])
        /\ "create_recurring_delegation" \in landed[d] => delegations[setup[d].nonce] # 0
    BY <2>1 DEF SetupInv, LandedInv
  <2>3. \/ landed'[d] = landed[d]
        \/ ~t.late /\ t.by = d /\ landed'[d] = landed[d] \cup {"close"}
    BY <1>1, <1>2 DEF SetupInv, TypeOK
  <2>4. landed'[d] \subseteq plan[d]
    BY <1>1, <2>2, <2>3 DEF SetupInv, RoundInv
  <2>5. ASSUME "create_recurring_delegation" \in landed[d] PROVE delegations'[setup[d].nonce] # 0
    <3>1. Active(d)
      BY <2>1, <2>2, <2>5 DEF Active, Closing, ClosePcs, Resting
    <3>2. delegations'[setup[d].nonce] = delegations[setup[d].nonce]
      BY <1>11, <3>1
    <3> QED BY <2>2, <2>5, <3>2
  <2> QED BY <1>1, <1>9, <2>2, <2>3, <2>4, <2>5
<1>18. RowsInv'
  <2>1. OneRow'
    BY <1>6 DEF SetupInv, RowsInv, OneRow
  <2>2. SUFFICES ASSUME NEW r \in rows', r.whole
                 PROVE  /\ Seen(r.seed)' /\ (At(r.seed)'.made = r.nonce => At(r.seed)'.max = r.amount)
                        /\ (\A c \in closed' : c.seed # r.seed) => delegations'[r.nonce] = r.amount
    BY <2>1 DEF RowsInv
  <2>3. /\ r \in rows /\ Seen(r.seed) /\ (At(r.seed).made = r.nonce => At(r.seed).max = r.amount)
        /\ (\A c \in closed : c.seed # r.seed) => delegations[r.nonce] = r.amount
    BY <1>1, <2>2 DEF SetupInv, RowsInv
  <2>4. r.nonce \in Nonces
    BY <2>3 DEF SetupInv, TypeOK, Rows
  <2>5. At(r.seed)'.made = r.nonce => At(r.seed)'.max = r.amount
    BY <1>4, <1>10, <2>3, <2>4 DEF At
  <2>6. ASSUME \A c \in closed' : c.seed # r.seed PROVE delegations'[r.nonce] = r.amount
    <3>1. r # row
      BY <1>6, <2>6
    <3>2. r.nonce # t.nonce
      BY <1>5, <2>3, <3>1 DEF SetupInv, RowsInv, OneRow
    <3> QED BY <1>4, <1>6, <2>3, <2>4, <2>6, <3>2
  <2> QED BY <1>9, <2>3, <2>5, <2>6
<1>19. MadeInv'
  BY <1>4, <1>10 DEF SetupInv, MadeInv
<1> QED BY <1>12, <1>13, <1>14, <1>15, <1>16, <1>17, <1>18, <1>19 DEF SetupInv

LEMMA NextSetup == SetupInv /\ [Next]_vars => SetupInv'
<1> SUFFICES ASSUME SetupInv, [Next]_vars PROVE SetupInv'
  OBVIOUS
<1>1. TypeOK' /\ Inv'
  BY NextType, NextInv DEF SetupInv
<1>2. ASSUME NEW d \in Devices,
             StartSetup(d) \/ StartClose(d) \/ DeviceStep(d) \/ AnswerLost(d)
      PROVE  SetupInv'
  BY <1>1, <1>2, StartSetupStep, StartCloseStep, PrepareStep, CloseStep, SendStep, SettledStep,
     RetryStep, AnswerLostStep, Zenon DEF DeviceStep
<1>3. ASSUME NEW t \in network, Fails(t) \/ Expires(t) PROVE SetupInv'
  <2>1. /\ network' = network \ {t}
        /\ UNCHANGED <<policies, delegations, rows, closed, pc, setup, seed, plan, landed>>
    BY <1>3, Zenon DEF Fails, Expires, chain, history, args, reads
  <2> QED BY <1>1, <2>1, NothingLands DEF Outside
<1>4. CASE ForeignApproval \/ UNCHANGED vars
  <2>1. UNCHANGED <<policies, delegations, network, rows, closed, pc, setup, seed, plan, landed>>
    BY <1>4, Zenon DEF ForeignApproval, vars, args, reads
  <2> QED BY <1>1, <2>1, NothingLands DEF Outside
<1>5. ASSUME NEW t \in network, NetworkStep(t) \/ Expires(t) PROVE SetupInv'
  BY <1>1, <1>3, <1>5, LandSetupKeeps, LandCloseKeeps, Zenon DEF NetworkStep
<1>6. CASE CreateRoute
  BY <1>1, <1>6, RouteStep
<1> QED BY <1>2, <1>4, <1>5, <1>6, Zenon DEF Next

\* A setup whose stages have all landed leaves exactly what the server accepts,
\* or works with the policy of another one, for any devices, nonces, amounts and
\* seeds, and however stale the reads of Settings are.
THEOREM CompletedIsAccepted == Spec => []CompletedIsCanonical
<1>1. ASSUME SetupInv PROVE CompletedIsCanonical
  <2>1. SUFFICES ASSUME NEW r \in rows, r.whole, \A c \in closed : c.seed # r.seed
                 PROVE  Canonical(r) \/ (Adopted(r) /\ delegations[r.nonce] = r.amount)
    BY DEF CompletedIsCanonical
  <2>2. /\ At(r.seed).kind = "sweep" /\ delegations[r.nonce] = r.amount
        /\ At(r.seed).made = r.nonce => At(r.seed).max = r.amount
    BY <1>1, <2>1 DEF SetupInv, RowsInv, Seen
  <2> QED BY <2>2 DEF Canonical, Adopted
<1> QED BY <1>1, InitSetup, NextSetup, PTL DEF Spec

-----------------------------------------------------------------------------
(* A setup leaves no second policy behind, as long as reads of Settings    *)
(* are current.                                                            *)

\* There is a sweep policy of nonce n at seed s, or there may yet be one.
Lives(s, n) ==
  \/ s \in Seeds /\ policies[s].kind = "sweep" /\ policies[s].made = n
  \/ \E t \in network :
       t.op = "create_policy" /\ t.nonce = n /\ t.seed = s /\ policySeed < s

\* The seed a setup goes on with.
Aim(d) == IF pc[d] \in {"authority", "settings"} THEN setup[d].asked ELSE seed[d]

\* It is the one of whatever the setup has left, and never beyond the next one.
Aims(d) ==
  /\ setup[d].asked <= policySeed + 1
  /\ pc[d] = "accounts" => setup[d].asked <= next[d] /\ next[d] <= policySeed + 1
  /\ pc[d] \notin {"authority", "settings"} => seed[d] <= policySeed + 1
  /\ pc[d] = "collides" =>
       seed[d] \in Seeds /\ seed[d] <= policySeed /\ policies[seed[d]].kind # "sweep"
  /\ \A s : Lives(s, setup[d].nonce) => s = Aim(d)

OneInv ==
  /\ \A n \in Nonces : \A s, x : Lives(s, n) /\ Lives(x, n) => s = x
  /\ \A d \in Devices : Active(d) => Aims(d)

LEMMA SeedTypes ==
  ASSUME TypeOK, NEW d \in Devices
  PROVE  /\ policySeed \in Nat /\ seed[d] \in Nat /\ next[d] \in Nat /\ setup[d].asked \in Nat
         /\ MaxSeed \in Nat
BY AutodepositAssumption DEF TypeOK

LEMMA LivesAbove ==
  ASSUME TypeOK, NEW s, NEW n, Lives(s, n) PROVE s # 0
<1>1. 0 \notin Seeds /\ policySeed \in Nat
  BY AutodepositAssumption DEF Seeds, TypeOK
<1> QED BY <1>1 DEF Lives

\* A step of one device that sends nothing.
LEMMA AimsMove ==
  ASSUME SetupInv, OneInv, NEW d \in Devices, UNCHANGED <<policySeed, policies>>,
         \A t \in network' : \E u \in network :
           u.op = t.op /\ u.seed = t.seed /\ u.nonce = t.nonce /\ u.amount = t.amount,
         \A x \in Devices \ {d} : Steady(x) /\ next'[x] = next[x],
         Active(d)' => Aims(d)'
  PROVE  OneInv'
<1>1. \A s, n : Lives(s, n)' => Lives(s, n)
  BY DEF Lives
<1>2. ASSUME NEW x \in Devices, Active(x)' PROVE Aims(x)'
  <2>1. CASE x = d
    BY <1>2, <2>1 DEF OneInv
  <2>2. CASE x # d
    <3>1. Active(x) /\ Aims(x) /\ Steady(x) /\ next'[x] = next[x]
      BY <1>2, <2>2 DEF Steady, Active, Closing, OneInv
    <3> QED BY <1>1, <3>1 DEF Aims, Aim, Steady
  <2> QED BY <2>1, <2>2
<1> QED BY <1>1, <1>2 DEF OneInv

LEMMA StartSetupAims ==
  ASSUME SetupInv, OneInv, NEW d \in Devices, StartSetup(d) PROVE OneInv'
<1>1. PICK n \in Nonces, a \in Amounts, e \in Entries :
        /\ \A x \in Devices \ {d} : setup[x].nonce # n
        /\ delegations[n] = 0 /\ \A r \in rows \cup closed : r.nonce # n
        /\ setup' = [setup EXCEPT ![d] = [nonce |-> n, amount |-> a, asked |-> 0]]
  BY Zenon DEF StartSetup
<1>2. /\ pc[d] \in Resting /\ pc' = [pc EXCEPT ![d] = "authority"]
      /\ UNCHANGED <<policySeed, policies, network, seed, next, plan, landed>>
  BY Zenon DEF StartSetup, Goto, chain, history, reads
<1>3. /\ pc'[d] = "authority" /\ setup'[d].nonce = n /\ setup'[d].asked = 0
      /\ \A x \in Devices \ {d} : Steady(x) /\ next'[x] = next[x]
  BY <1>1, <1>2 DEF SetupInv, TypeOK, Steady
<1>4. ~Taken(n) /\ ~\E x \in Devices : Active(x) /\ setup[x].nonce = n
  BY <1>1, <1>2 DEF Taken, Recorded, Active
<1>5. \A s : ~Lives(s, n)'
  <2>1. (\A t \in network : t.nonce # n) /\ (\A s \in Seeds : policies[s].made # n)
    BY <1>4 DEF SetupInv, TraceInv
  <2> QED BY <1>2, <2>1 DEF Lives
<1>6. Aims(d)'
  <2>1. 0 <= policySeed' + 1
    BY <1>2, SeedTypes DEF SetupInv
  <2>2. \A s : ~Lives(s, setup[d].nonce)'
    BY <1>3, <1>5 DEF Lives
  <2> QED BY <1>3, <2>1, <2>2 DEF Aims
<1> QED BY <1>2, <1>3, <1>6, AimsMove

LEMMA RestAims ==
  ASSUME SetupInv, OneInv, NEW d \in Devices, StartClose(d) \/ PrepareClose(d) PROVE OneInv'
<1>1. /\ UNCHANGED <<policySeed, policies, network>>
      /\ \A x \in Devices \ {d} : Steady(x) /\ next'[x] = next[x]
  BY DEF StartClose, PrepareClose, ReadShape, FetchPolicy, ReadDelegation, ReadApproval, Goto,
         Prepare, chain, history, args, reads, Steady, SetupInv, TypeOK
<1>2. /\ pc'[d] \in ClosePcs \cup {"refused", "missing", "ready"}
      /\ pc'[d] = "ready" => plan'[d] = {"close"}
  BY DEF StartClose, PrepareClose, ReadShape, FetchPolicy, ReadDelegation, ReadApproval, Goto,
         Prepare, ClosePcs, SetupInv, TypeOK
<1>3. ~Active(d)'
  BY <1>2 DEF Active, Closing, ClosePcs, Resting
<1> QED BY <1>1, <1>3, AimsMove

LEMMA PrepareAims ==
  ASSUME Lags = {0}, SetupInv, OneInv, NEW d \in Devices, PrepareSetup(d) PROVE OneInv'
<1> USE DEF chain, history, args, reads
<1>1. /\ UNCHANGED <<policySeed, policies, network, setup>>
      /\ \A x \in Devices \ {d} : Steady(x)
      /\ pc[d] \in {"authority", "settings", "accounts", "second"}
  <2>1. policySeed' = policySeed /\ policies' = policies /\ network' = network
    BY PrepareForm
  <2> QED BY <2>1, PrepareForm
<1>2. \A x \in Devices \ {d} : next'[x] = next[x]
  BY DEF PrepareSetup, ReadAuthority, ReadSettings, SwitchSeed, ReadAccounts, SecondFromEvidence,
         SecondFromReads, SetupInv, TypeOK
<1>3. Active(d) /\ Aims(d)
  BY <1>1 DEF OneInv, Active, Closing, ClosePcs, Resting
<1>a. /\ \A where : pc' = [pc EXCEPT ![d] = where] => pc'[d] = where
      /\ \A n : seed' = [seed EXCEPT ![d] = n] => seed'[d] = n
      /\ \A n : next' = [next EXCEPT ![d] = n] => next'[d] = n
  BY DEF SetupInv, TypeOK
<1>4. \A s : Lives(s, setup[d].nonce)' => Lives(s, setup[d].nonce) /\ s = Aim(d) /\ s # 0
  <2>1. \A s : Lives(s, setup[d].nonce)' => Lives(s, setup[d].nonce)
    BY <1>1 DEF Lives
  <2>2. \A s : Lives(s, setup[d].nonce) => s = Aim(d)
    BY <1>3 DEF Aims
  <2>3. \A s : Lives(s, setup[d].nonce) => s # 0
    BY LivesAbove DEF SetupInv
  <2> QED BY <2>1, <2>2, <2>3
<1>b. /\ setup[d].asked <= policySeed + 1
      /\ pc[d] = "accounts" => setup[d].asked <= next[d] /\ next[d] <= policySeed + 1
      /\ pc[d] \notin {"authority", "settings"} => seed[d] <= policySeed + 1
  BY <1>3 DEF Aims
<1>c. ASSUME Collides(d)
      PROVE  seed[d] \in Seeds /\ seed[d] <= policySeed /\ policies[seed[d]].kind # "sweep"
  <2>1. seed[d] \in Seeds /\ policies[seed[d]].kind = "route"
    BY <1>c DEF Collides, At, NoPolicy
  <2> QED BY <2>1 DEF SetupInv, Inv, SeedsInv
<1>5. /\ policySeed \in Nat /\ seed[d] \in Nat /\ next[d] \in Nat /\ setup[d].asked \in Nat
  BY SeedTypes DEF SetupInv
<1>6. ASSUME pc'[d] \notin {"authority", "settings", "accounts", "collides"},
             seed'[d] <= policySeed + 1, Aim(d) = 0 \/ seed'[d] = Aim(d)
      PROVE  Aims(d)'
  <2>1. \A s : Lives(s, setup[d].nonce)' => s = seed'[d]
    BY <1>4, <1>6
  <2> QED BY <1>1, <1>b, <1>6, <2>1 DEF Aims, Aim
<1>7. Aims(d)'
  <2>1. CASE ReadAuthority(d)
    <3>1. CASE authority
      <4>1. pc[d] = "authority" /\ pc' = [pc EXCEPT ![d] = "settings"]
        BY <2>1, <3>1, Zenon DEF ReadAuthority, Goto
      <4>2. pc'[d] = "settings" /\ Aim(d) = setup[d].asked
        BY <1>a, <4>1 DEF Aim
      <4> QED BY <1>1, <1>4, <1>b, <4>2 DEF Aims, Aim
    <3>2. CASE ~authority
      <4>1. /\ pc[d] = "authority" /\ pc'[d] = "ready"
            /\ seed'[d] = IF setup[d].asked = 0 THEN 1 ELSE setup[d].asked
        BY <2>1, <3>2 DEF ReadAuthority, Goto, Prepare, SetupInv, TypeOK
      <4>2. seed'[d] <= policySeed + 1
        BY <1>b, <1>5, <4>1
      <4> QED BY <1>6, <4>1, <4>2 DEF Aim
    <3> QED BY <3>1, <3>2
  <2>2. ASSUME NEW lag \in Lags, ReadSettings(d, lag) PROVE Aims(d)'
    <3>1. /\ pc[d] = "settings" /\ pc'[d] = "accounts" /\ next'[d] = policySeed + 1
          /\ seed'[d] = IF setup[d].asked = 0 THEN policySeed + 1 ELSE setup[d].asked
      BY <1>5, <2>2 DEF ReadSettings, Goto, SetupInv, TypeOK
    <3>2. seed'[d] <= policySeed + 1 /\ setup[d].asked <= policySeed + 1
          /\ (Aim(d) = 0 \/ seed'[d] = Aim(d))
      BY <1>b, <1>5, <3>1 DEF Aim
    <3>3. \A s : Lives(s, setup[d].nonce)' => s = seed'[d]
      BY <1>4, <3>2
    <3>4. setup[d].asked <= next'[d] /\ next'[d] <= policySeed + 1
      BY <1>5, <3>1, <3>2
    <3> QED BY <1>1, <3>1, <3>2, <3>3, <3>4 DEF Aims, Aim
  <2>3. CASE SwitchSeed(d)
    <3>1. /\ pc[d] = "accounts" /\ pc'[d] = "accounts" /\ seed'[d] = next[d] /\ next'[d] = next[d]
          /\ seed[d] = setup[d].asked /\ seed[d] # next[d] /\ At(seed[d]).kind = "none"
      BY <2>3 DEF SwitchSeed, SeedIsGone, SetupInv, TypeOK
    <3>2. seed[d] <= policySeed /\ next[d] <= policySeed + 1 /\ setup[d].asked <= next[d]
      BY <1>b, <1>5, <3>1
    <3>3. ~Lives(seed[d], setup[d].nonce)
      BY <1>5, <3>1, <3>2 DEF Lives, At
    <3>4. \A s : ~Lives(s, setup[d].nonce)'
      <4>1. Aim(d) = seed[d]
        BY <3>1 DEF Aim
      <4> QED BY <1>4, <3>3, <4>1
    <3>5. /\ setup[d].asked <= policySeed + 1 /\ seed'[d] <= policySeed + 1
          /\ setup[d].asked <= next'[d] /\ next'[d] <= policySeed + 1
      BY <1>b, <1>5, <3>1, <3>2
    <3> QED BY <1>1, <3>1, <3>4, <3>5 DEF Aims
  <2>4. CASE ReadAccounts(d)
    <3>1. /\ pc[d] = "accounts" /\ pc'[d] \in {"collides", "exists", "second", "ready"}
          /\ seed'[d] = seed[d] /\ (pc'[d] = "collides" => Collides(d))
      BY <2>4 DEF ReadAccounts, RepairApproval, Throw, Prepare, Goto, SetupInv, TypeOK
    <3>2. Aim(d) = seed[d] /\ seed'[d] <= policySeed + 1
      BY <1>b, <3>1 DEF Aim
    <3> QED BY <1>1, <1>4, <1>b, <1>c, <3>1, <3>2 DEF Aims, Aim
  <2>5. CASE SecondFromEvidence(d) \/ SecondFromReads(d)
    <3>1. /\ pc[d] = "second" /\ pc'[d] \in {"collides", "exists", "ready"}
          /\ seed'[d] = seed[d] /\ (pc'[d] = "collides" => Collides(d))
      BY <2>5 DEF SecondFromEvidence, SecondFromReads, Throw, Prepare, Goto, SetupInv, TypeOK
    <3>2. Aim(d) = seed[d] /\ seed'[d] <= policySeed + 1
      BY <1>b, <3>1 DEF Aim
    <3> QED BY <1>1, <1>4, <1>b, <1>c, <3>1, <3>2 DEF Aims, Aim
  <2> HIDE DEF chain, history, args, reads
  <2> QED BY <2>1, <2>2, <2>3, <2>4, <2>5, Zenon DEF PrepareSetup
<1> QED BY <1>1, <1>2, <1>7, AimsMove

\* A setup sends the policy of the seed it goes on with only.
LEMMA SendAims ==
  ASSUME SetupInv, OneInv, NEW d \in Devices, Send(d) PROVE OneInv'
<1>1. /\ pc[d] = "ready" /\ pc' = [pc EXCEPT ![d] = "sent"]
      /\ network' = network \cup {Transaction(d, op) : op \in plan[d]}
      /\ UNCHANGED <<policySeed, policies, setup, seed, next, plan>>
  BY Zenon DEF Send, Goto, chain, history, args, reads
<1>2. /\ pc'[d] = "sent" /\ \A x \in Devices \ {d} : pc'[x] = pc[x]
  BY <1>1 DEF SetupInv, TypeOK
<1>3. \A x \in Devices : Active(x)' <=> Active(x)
  BY <1>1, <1>2 DEF Active, Closing, ClosePcs, Resting
<1>4. ASSUME NEW s, NEW n, Lives(s, n)', ~Lives(s, n)
      PROVE  s = seed[d] /\ n = setup[d].nonce /\ Active(d)
  <2>1. PICK op \in plan[d] : /\ Transaction(d, op).op = "create_policy"
                              /\ Transaction(d, op).nonce = n /\ Transaction(d, op).seed = s
    BY <1>1, <1>4 DEF Lives
  <2>2. s = seed[d] /\ n = setup[d].nonce /\ plan[d] # {"close"}
    BY <2>1 DEF Transaction
  <2> QED BY <1>1, <2>2 DEF Active, Closing, ClosePcs, Resting
<1>5. ASSUME Active(d) PROVE \A s : Lives(s, setup[d].nonce) => s = seed[d]
  BY <1>1, <1>5 DEF OneInv, Aims, Aim
<1>6. ASSUME NEW n \in Nonces, NEW s, NEW x, Lives(s, n)', Lives(x, n)' PROVE s = x
  BY <1>4, <1>5, <1>6 DEF OneInv
<1>7. ASSUME NEW x \in Devices, Active(x) PROVE Aims(x)'
  <2>1. Aims(x)
    BY <1>7 DEF OneInv
  <2>2. CASE x = d
    <3>1. \A s : Lives(s, setup[d].nonce)' => s = seed[d]
      BY <1>1, <1>4, <1>5, <1>7, <2>2 DEF Lives
    <3> QED BY <1>1, <1>2, <2>1, <2>2, <3>1 DEF Aims, Aim
  <2>3. CASE x # d
    <3>1. Active(d) => setup[x].nonce # setup[d].nonce
      BY <1>7, <2>3 DEF SetupInv, OwnInv, Entitled
    <3>2. \A s : Lives(s, setup[x].nonce)' => Lives(s, setup[x].nonce)
      BY <1>1, <1>4, <3>1 DEF Lives
    <3> QED BY <1>1, <1>2, <2>1, <2>3, <3>2 DEF Aims, Aim
  <2> QED BY <2>2, <2>3
<1> QED BY <1>3, <1>6, <1>7 DEF OneInv

LEMMA GoOnAims ==
  ASSUME SetupInv, OneInv, NEW d \in Devices, Settled(d) \/ AnswerLost(d) \/ Retry(d) PROVE OneInv'
<1>1. CASE Settled(d) \/ AnswerLost(d)
  <2>1. /\ pc[d] = "sent" /\ UNCHANGED <<policySeed, policies, seed, next, plan, landed>>
        /\ \/ pc' = [pc EXCEPT ![d] = "done"] /\ UNCHANGED setup
           \/ /\ plan[d] # {"close"} /\ pc' = [pc EXCEPT ![d] = "authority"]
              /\ setup' = [setup EXCEPT ![d].asked = seed[d]]
    BY <1>1, Zenon DEF Settled, AnswerLost, Goto, chain, reads
  <2>2. ASSUME NEW t \in network'
        PROVE  \E u \in network : u.op = t.op /\ u.seed = t.seed /\ u.nonce = t.nonce /\ u.amount = t.amount
    <3>1. CASE Settled(d)
      BY <3>1 DEF Settled
    <3>2. CASE AnswerLost(d)
      <4>1. \/ t \in network
            \/ \E u \in Sent(d) : t = [u EXCEPT !.late = TRUE]
        BY <3>2 DEF AnswerLost
      <4>2. ASSUME NEW u \in Sent(d), t = [u EXCEPT !.late = TRUE]
            PROVE  u \in network /\ u.op = t.op /\ u.seed = t.seed /\ u.nonce = t.nonce /\ u.amount = t.amount
        <5>1. u \in Transactions
          BY DEF Sent, SetupInv, TypeOK
        <5> QED BY <4>2, <5>1 DEF Sent, Transactions
      <4> QED BY <4>1, <4>2
    <3> QED BY <1>1, <3>1, <3>2
  <2>3. /\ \A x \in Devices \ {d} : Steady(x) /\ next'[x] = next[x]
        /\ pc'[d] = "done" \/ (/\ pc'[d] = "authority" /\ setup'[d].asked = seed[d]
                               /\ setup'[d].nonce = setup[d].nonce /\ plan[d] # {"close"})
    BY <2>1 DEF SetupInv, TypeOK, Steady
  <2>4. ASSUME Active(d)' PROVE Aims(d)'
    <3>1. pc'[d] = "authority" /\ setup'[d].asked = seed[d] /\ setup'[d].nonce = setup[d].nonce
      BY <2>3, <2>4 DEF Active, Resting
    <3>2. Active(d) /\ Aims(d)
      BY <2>1, <2>3, <3>1 DEF OneInv, Active, Closing, ClosePcs, Resting
    <3>3. seed[d] <= policySeed + 1 /\ \A s : Lives(s, setup[d].nonce) => s = seed[d]
      BY <2>1, <3>2 DEF Aims, Aim
    <3>4. \A s : Lives(s, setup[d].nonce)' => Lives(s, setup[d].nonce)
      BY <2>1, <2>2, <3>1 DEF Lives
    <3>5. \A s : Lives(s, setup[d].nonce)' => s = setup'[d].asked
      BY <3>1, <3>3, <3>4
    <3>6. setup'[d].asked <= policySeed' + 1
      BY <2>1, <3>1, <3>3
    <3> QED BY <3>1, <3>5, <3>6 DEF Aims, Aim
  <2> QED BY <2>1, <2>2, <2>3, <2>4, AimsMove
<1>2. CASE Retry(d)
  <2>1. /\ pc[d] = "collides" /\ pc' = [pc EXCEPT ![d] = "authority"]
        /\ setup' = [setup EXCEPT ![d].asked = IF setup[d].asked = seed[d] THEN 0 ELSE setup[d].asked]
        /\ UNCHANGED <<policySeed, policies, network, seed, next, plan, landed>>
    BY <1>2, Zenon DEF Retry, Goto, chain, history, reads
  <2>2. /\ pc'[d] = "authority" /\ setup'[d].nonce = setup[d].nonce
        /\ setup'[d].asked \in {0, setup[d].asked}
        /\ \A x \in Devices \ {d} : Steady(x) /\ next'[x] = next[x]
    BY <2>1 DEF SetupInv, TypeOK, Steady
  <2>3. Active(d) /\ Aims(d)
    BY <2>1 DEF OneInv, Active, Closing, ClosePcs, Resting
  <2>4. policySeed \in Nat /\ seed[d] \in Nat /\ setup[d].asked \in Nat
    BY SeedTypes DEF SetupInv
  <2>5. \A s : ~Lives(s, setup[d].nonce)
    BY <2>1, <2>3, <2>4 DEF Aims, Aim, Lives
  <2>6. \A s : ~Lives(s, setup[d].nonce)'
    BY <2>1, <2>2, <2>5 DEF Lives
  <2>7. setup'[d].asked <= policySeed' + 1
    BY <2>1, <2>2, <2>3, <2>4 DEF Aims
  <2>8. Aims(d)'
    BY <2>2, <2>6, <2>7 DEF Aims
  <2> QED BY <2>1, <2>2, <2>8, AimsMove
<1> QED BY <1>1, <1>2

\* A step of the cluster, or of others.
LEMMA OutsideAims ==
  ASSUME SetupInv, OneInv, Outside, UNCHANGED next,
         policySeed' \in Nat, policySeed <= policySeed',
         \A s, n : Lives(s, n)' => Lives(s, n),
         \A s \in Seeds : s <= policySeed /\ policies[s].kind # "sweep" => policies'[s].kind # "sweep"
  PROVE  OneInv'
<1>1. ASSUME NEW d \in Devices, Active(d) PROVE Aims(d)'
  <2>1. Aims(d) /\ policySeed \in Nat /\ seed[d] \in Nat /\ next[d] \in Nat /\ setup[d].asked \in Nat
    BY <1>1, SeedTypes DEF OneInv, SetupInv
  <2>2. /\ setup[d].asked <= policySeed' + 1
        /\ pc[d] = "accounts" => setup[d].asked <= next[d] /\ next[d] <= policySeed' + 1
        /\ pc[d] \notin {"authority", "settings"} => seed[d] <= policySeed' + 1
        /\ pc[d] = "collides" =>
             seed[d] \in Seeds /\ seed[d] <= policySeed' /\ policies'[seed[d]].kind # "sweep"
    BY <2>1 DEF Aims
  <2>3. \A s : Lives(s, setup[d].nonce)' => s = Aim(d)
    BY <2>1 DEF Aims, Outside
  <2> QED BY <2>2, <2>3 DEF Aims, Aim, Outside
<1> QED BY <1>1, OutsideKeeps DEF OneInv

LEMMA NetworkAims ==
  ASSUME SetupInv, OneInv,
         \/ \E t \in network : NetworkStep(t) \/ Expires(t)
         \/ CreateRoute \/ ForeignApproval \/ UNCHANGED vars
  PROVE  OneInv'
<1> USE DEF chain, history, args, reads
<1>1. Outside /\ UNCHANGED next
  BY DEF NetworkStep, LandSetup, LandClose, Fails, Expires, CreateRoute, ForeignApproval, vars, Outside
<1>2. policySeed \in Nat /\ MaxSeed \in Nat
  BY AutodepositAssumption DEF SetupInv, TypeOK
<1>3. ASSUME UNCHANGED <<policySeed, policies>> PROVE OneInv'
  <2>1. \A s, n : Lives(s, n)' => Lives(s, n)
    BY <1>1, <1>3 DEF Lives, Outside
  <2> QED BY <1>1, <1>2, <1>3, <2>1, OutsideAims
<1>4. ASSUME NEW t \in network, LandSetup(t), t.op = "create_policy" PROVE OneInv'
  <2>1. /\ t.seed = policySeed + 1 /\ policySeed < MaxSeed /\ policySeed' = t.seed
        /\ policies' = [policies EXCEPT ![t.seed] =
             [kind |-> "sweep", max |-> t.amount, made |-> t.nonce]]
    BY <1>4, Zenon DEF LandSetup, Accepts
  <2>2. /\ \A s \in Seeds : s # policySeed + 1 => policies'[s] = policies[s]
        /\ policySeed + 1 \in Seeds => policies'[policySeed + 1].made = t.nonce
    BY <2>1 DEF SetupInv, TypeOK
  <2>3. ASSUME NEW s, NEW n, Lives(s, n)' PROVE Lives(s, n)
    <3>1. CASE s \in Seeds /\ policies'[s].kind = "sweep" /\ policies'[s].made = n
      <4>1. CASE s = policySeed + 1
        BY <1>2, <1>4, <2>1, <2>2, <3>1, <4>1 DEF Lives
      <4>2. CASE s # policySeed + 1
        BY <2>2, <3>1, <4>2 DEF Lives
      <4> QED BY <4>1, <4>2
    <3>2. ASSUME NEW u \in network', u.op = "create_policy", u.nonce = n, u.seed = s, policySeed' < s
          PROVE  Lives(s, n)
      <4>1. u \in network /\ s \in Nat
        BY <1>1, <3>2, <1>2 DEF Outside, SetupInv, TypeOK, Transactions
      <4>2. policySeed < s
        BY <1>2, <2>1, <3>2, <4>1
      <4> QED BY <3>2, <4>1, <4>2 DEF Lives
    <3> QED BY <2>3, <3>1, <3>2 DEF Lives
  <2>4. \A s \in Seeds : s <= policySeed => s # policySeed + 1
    BY <1>2 DEF Seeds
  <2>5. policySeed' \in Nat /\ policySeed <= policySeed'
    BY <1>2, <2>1
  <2> QED BY <1>1, <2>2, <2>3, <2>4, <2>5, OutsideAims
<1>5. ASSUME CreateRoute PROVE OneInv'
  <2>1. /\ policySeed' = policySeed + 1 /\ policies' = [policies EXCEPT ![policySeed + 1] = Route]
    BY <1>5, Zenon DEF CreateRoute
  <2>2. /\ \A s \in Seeds : s # policySeed + 1 => policies'[s] = policies[s]
        /\ policySeed + 1 \in Seeds => policies'[policySeed + 1].kind # "sweep"
    BY <2>1 DEF SetupInv, TypeOK, Route
  <2>3. ASSUME NEW s, NEW n, Lives(s, n)' PROVE Lives(s, n)
    <3>1. CASE s \in Seeds /\ policies'[s].kind = "sweep" /\ policies'[s].made = n
      BY <2>2, <3>1 DEF Lives
    <3>2. ASSUME NEW u \in network', u.op = "create_policy", u.nonce = n, u.seed = s, policySeed' < s
          PROVE  Lives(s, n)
      <4>1. u \in network /\ s \in Nat
        BY <1>1, <3>2, <1>2 DEF Outside, SetupInv, TypeOK, Transactions
      <4>2. policySeed < s
        BY <1>2, <2>1, <3>2, <4>1
      <4> QED BY <3>2, <4>1, <4>2 DEF Lives
    <3> QED BY <2>3, <3>1, <3>2 DEF Lives
  <2>4. \A s \in Seeds : s <= policySeed => s # policySeed + 1
    BY <1>2 DEF Seeds
  <2>5. policySeed' \in Nat /\ policySeed <= policySeed'
    BY <1>2, <2>1
  <2> QED BY <1>1, <2>2, <2>3, <2>4, <2>5, OutsideAims
<1>6. ASSUME NEW t \in network, LandClose(t) PROVE OneInv'
  <2>1. policySeed' = policySeed /\ policies' = [policies EXCEPT ![t.seed] = NoPolicy]
    BY <1>6, Zenon DEF LandClose
  <2>2. \A s \in Seeds : policies'[s] = policies[s] \/ policies'[s].kind # "sweep"
    BY <2>1 DEF SetupInv, TypeOK, NoPolicy
  <2>3. \A s, n : Lives(s, n)' => Lives(s, n)
    BY <1>1, <2>1, <2>2 DEF Lives, Outside
  <2> QED BY <1>1, <1>2, <2>1, <2>2, <2>3, OutsideAims
<1>7. ASSUME NEW t \in network, LandSetup(t), t.op # "create_policy" PROVE OneInv'
  BY <1>3, <1>7, Zenon DEF LandSetup
<1>8. ASSUME NEW t \in network, Fails(t) \/ Expires(t) PROVE OneInv'
  BY <1>3, <1>8, Zenon DEF Fails, Expires
<1>9. CASE ForeignApproval \/ UNCHANGED vars
  BY <1>3, <1>9, Zenon DEF ForeignApproval, vars
<1> QED BY <1>4, <1>5, <1>6, <1>7, <1>8, <1>9, Zenon DEF NetworkStep

\* A retried setup goes on with the policy of its earlier attempt, also when that
\* one lands late, for any devices, seeds and amounts, as long as no read of
\* Settings is stale: with stale ones it may leave a second policy behind.
THEOREM NoSecondPolicy == Lags = {0} => (Spec => []OnePolicyPerSetup)
<1> SUFFICES ASSUME Lags = {0} PROVE Spec => []OnePolicyPerSetup
  OBVIOUS
<1>1. Init => OneInv
  <2>1. SUFFICES ASSUME Init PROVE OneInv
    OBVIOUS
  <2>2. \A s, n : ~Lives(s, n)
    BY <2>1 DEF Init, Lives, NoPolicy
  <2>3. \A d \in Devices : ~Active(d)
    BY <2>1 DEF Init, Active, Resting
  <2> QED BY <2>2, <2>3 DEF OneInv
<1>2. SetupInv /\ OneInv /\ [Next]_vars => OneInv'
  <2>1. ASSUME SetupInv, OneInv, [Next]_vars PROVE OneInv'
    <3>1. ASSUME NEW d \in Devices,
                 StartSetup(d) \/ StartClose(d) \/ DeviceStep(d) \/ AnswerLost(d)
          PROVE  OneInv'
      BY <2>1, <3>1, StartSetupAims, RestAims, PrepareAims, SendAims, GoOnAims, Zenon DEF DeviceStep
    <3> QED BY <2>1, <3>1, NetworkAims, Zenon DEF Next
  <2> QED BY <2>1
<1>3. SetupInv /\ OneInv => OnePolicyPerSetup
  <2>1. SUFFICES ASSUME SetupInv, OneInv, NEW m \in Seeds, NEW n \in Seeds,
                        policies[m].kind = "sweep", policies[m].made = policies[n].made
                 PROVE  m = n
    BY DEF OnePolicyPerSetup
  <2>2. policies[m].made # 0 /\ policies[n].kind = "sweep" /\ policies[m].made \in Nonces
    BY <2>1 DEF SetupInv, MadeInv, TypeOK
  <2>3. Lives(m, policies[m].made) /\ Lives(n, policies[m].made)
    BY <2>1, <2>2 DEF Lives
  <2> QED BY <2>1, <2>2, <2>3 DEF OneInv
<1> QED BY <1>1, <1>2, <1>3, InitSetup, NextSetup, PTL DEF Spec
=============================================================================
