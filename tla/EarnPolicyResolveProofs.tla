----------------------- MODULE EarnPolicyResolveProofs -----------------------
(***************************************************************************)
(* Pairs of policies are never torn apart, and what a preparation hands    *)
(* out exists, for any number of clients, seeds, faults and foreign        *)
(* policies.                                                               *)
(***************************************************************************)
EXTENDS EarnPolicyResolve, TLAPS

Acting == {"execute", "waiting"}

\* Seeds are used in order.
ChainInv == \A n \in Seeds : n > policySeed => policies[n] = "none"

\* Policies never change: whatever a client has read is still there.
ViewInv == \A c \in Clients, n \in Seeds : view[c][n] \in {"none", policies[n]}

\* A route to complete is on chain, and was the last policy when it was chosen.
TargetInv ==
  \A c \in Clients : pc[c] = "recheck" /\ target[c] # 0 =>
    /\ target[c] \in Seeds /\ target[c] = seedSeen[c]
    /\ policies[target[c]] \in RouteKinds

\* What is still to be sent: a pair, or a setup whose route is on chain.
PlanInv ==
  \A c \in Clients : pc[c] \in Acting =>
    /\ target[c] \in Seeds /\ target[c] + 1 \in Seeds
    /\ \/ plan[c] = <<Op(c, target[c], "route"), Op(c, target[c] + 1, "setup")>>
       \/ /\ plan[c] = <<Op(c, target[c] + 1, "setup")>>
          /\ policies[target[c]] \in RouteKinds

\* A client waits for the operation at the head of its plan, and no setup is
\* sent before its route is on chain.
InflightInv ==
  \A op \in inflight :
    /\ op.seed \in Seeds
    /\ op.kind = "setup" => At(policies, op.seed - 1) \in RouteKinds
    /\ op.client \in Clients => pc[op.client] = "waiting" /\ op = Head(plan[op.client])

SafeInv ==
  /\ ChainInv /\ ViewInv /\ TargetInv /\ PlanInv /\ InflightInv
  /\ SetupHasRoute /\ ReadyPairExists

Inv == TypeOK /\ SafeInv

-----------------------------------------------------------------------------
(* Type correctness.                                                       *)

LEMMA SeedNumbers ==
  /\ MaxSeed \in Nat /\ 0 \in 0 .. MaxSeed
  /\ \A n \in 0 .. MaxSeed : n # 0 => n \in Seeds
BY ResolveAssumption DEF Seeds

LEMMA Bounds == MaxForeign \in Nat /\ MaxFaults \in Nat
BY ResolveAssumption

LEMMA InitType == Init => TypeOK
<1> SUFFICES ASSUME Init PROVE TypeOK
  OBVIOUS
<1> USE ResolveAssumption
<1>1. policySeed \in 0 .. MaxSeed /\ policies \in [Seeds -> PolicyKinds]
  <2>1. PICK old \in InitialKinds :
          /\ policySeed = Len(old)
          /\ policies = [n \in Seeds |-> IF n <= Len(old) THEN old[n] ELSE "none"]
    BY DEF Init
  <2>2. old \in Seq(PolicyKinds) /\ Len(old) <= MaxSeed
    BY <2>1
  <2>3. "none" \in PolicyKinds
    BY DEF PolicyKinds
  <2> QED BY <2>1, <2>2, <2>3 DEF Seeds
<1>2. <<>> \in Seq(Operations) /\ "none" \in PolicyKinds /\ "classic" \in AllMints
  BY DEF PolicyKinds, AllMints
<1> QED BY <1>1, <1>2 DEF Init, TypeOK, Nothing

LEMMA InitSafe == Init => SafeInv
<1> SUFFICES ASSUME Init PROVE SafeInv
  OBVIOUS
<1> USE ResolveAssumption
<1>1. PICK old \in InitialKinds :
        /\ policySeed = Len(old)
        /\ policies = [n \in Seeds |-> IF n <= Len(old) THEN old[n] ELSE "none"]
  BY DEF Init
<1>2. ChainInv
  BY <1>1 DEF ChainInv, Seeds
<1>3. SetupHasRoute
  <2> SUFFICES ASSUME NEW n \in Seeds, policies[n] = "setup"
               PROVE  At(policies, n - 1) \in RouteKinds
    BY DEF SetupHasRoute
  <2>1. n \in 1 .. Len(old) /\ old[n] = "setup"
    BY <1>1 DEF Seeds
  <2>2. n > 1 /\ old[n - 1] \in RouteKinds
    BY <2>1
  <2>3. n - 1 \in Seeds /\ n - 1 <= Len(old)
    BY <1>1, <2>1, <2>2 DEF Seeds
  <2> QED BY <1>1, <2>2, <2>3 DEF At
<1>4. ViewInv /\ TargetInv /\ PlanInv /\ InflightInv /\ ReadyPairExists
  BY DEF Init, ViewInv, TargetInv, PlanInv, InflightInv, ReadyPairExists, Nothing, Acting
<1> QED BY <1>2, <1>3, <1>4 DEF SafeInv

-----------------------------------------------------------------------------
(* One client decides: the chain stays as it is, and so do the clients     *)
(* that have transactions in flight.                                       *)

\* A client that is not sending changes its own position only.
LEMMA LocalStep ==
  ASSUME Inv, NEW c \in Clients, pc[c] \notin Acting,
         UNCHANGED <<chain, faults>>,
         plan' \in [Clients -> Seq(Operations)], \A d \in Clients \ {c} : plan'[d] = plan[d],
         NEW where \in {"reading", "probe route", "probe setup", "recheck", "ready", "threw"},
         pc' = [pc EXCEPT ![c] = where],
         \A d \in Clients \ {c} : /\ view'[d] = view[d] /\ target'[d] = target[d]
                                  /\ seedSeen'[d] = seedSeen[d],
         view' \in [Clients -> [Seeds -> PolicyKinds]],
         \A n \in Seeds : view'[c][n] \in {"none", policies[n]},
         known' \in [Clients -> 0 .. MaxSeed], mint' \in [Clients -> AllMints],
         awaiting' \in [Clients -> SUBSET {"settings", "scan", "route", "setup"}],
         seedSeen' \in [Clients -> 0 .. MaxSeed],
         probed' \in [Clients -> SUBSET Seeds], target' \in [Clients -> 0 .. MaxSeed],
         where = "recheck" /\ target'[c] # 0 =>
           target'[c] \in Seeds /\ target'[c] = seedSeen'[c] /\ policies[target'[c]] \in RouteKinds,
         where = "ready" => /\ At(policies, target'[c]) \in RouteKinds
                            /\ At(policies, target'[c] + 1) = "setup"
  PROVE  Inv'
<1> USE DEF Inv, SafeInv
<1>1. UNCHANGED <<policySeed, policies, inflight, recorded, foreign, faults>>
  BY DEF chain
<1>2. /\ pc'[c] = where
      /\ \A d \in Clients \ {c} : pc'[d] = pc[d]
  BY DEF TypeOK
<1>3. TypeOK'
  BY <1>1 DEF TypeOK
<1>4. ChainInv' /\ SetupHasRoute'
  BY <1>1 DEF ChainInv, SetupHasRoute, At
<1>5. ViewInv'
  BY <1>1 DEF ViewInv
<1>6. TargetInv'
  BY <1>1, <1>2 DEF TargetInv
<1>7. PlanInv'
  BY <1>1, <1>2 DEF PlanInv, Acting
<1>8. InflightInv'
  BY <1>1, <1>2 DEF InflightInv, Acting, At
<1>9. ReadyPairExists'
  <2> SUFFICES ASSUME NEW d \in Clients, pc'[d] = "ready"
               PROVE  /\ At(policies, target'[d]) \in RouteKinds
                      /\ At(policies, target'[d] + 1) = "setup"
    BY <1>1 DEF ReadyPairExists, At
  <2>1. CASE d = c
    BY <1>2, <2>1
  <2>2. CASE d # c
    BY <1>2, <2>2 DEF ReadyPairExists
  <2> QED BY <2>1, <2>2
<1> QED BY <1>3, <1>4, <1>5, <1>6, <1>7, <1>8, <1>9

LEMMA ThrowStep ==
  ASSUME Inv, NEW c \in Clients, NEW why, pc[c] \notin Acting, Throw(c, why)
  PROVE  Inv'
<1>1. /\ UNCHANGED <<chain, faults, plan, known, mint, awaiting, seedSeen, view, probed, target>>
      /\ pc' = [pc EXCEPT ![c] = "threw"]
  BY DEF Throw
<1>2. \A n \in Seeds : view'[c][n] \in {"none", policies[n]}
  BY <1>1 DEF Inv, SafeInv, ViewInv
<1> QED BY <1>1, <1>2, LocalStep DEF Inv, TypeOK

LEMMA AdvanceStep ==
  ASSUME Inv, NEW c \in Clients, pc[c] \notin Acting,
         NEW where \in {"probe route", "probe setup", "recheck", "ready"},
         NEW t \in 0 .. MaxSeed, Advance(c, where, t),
         where = "recheck" /\ t # 0 =>
           t \in Seeds /\ t = seedSeen[c] /\ policies[t] \in RouteKinds,
         where = "ready" => /\ At(policies, t) \in RouteKinds
                            /\ At(policies, t + 1) = "setup"
  PROVE  Inv'
<1>1. /\ UNCHANGED <<chain, faults, plan, known, mint, awaiting, seedSeen, view, probed>>
      /\ pc' = [pc EXCEPT ![c] = where] /\ target' = [target EXCEPT ![c] = t]
  BY DEF Advance
<1>2. \A n \in Seeds : view'[c][n] \in {"none", policies[n]}
  BY <1>1 DEF Inv, SafeInv, ViewInv
<1>3. /\ target' \in [Clients -> 0 .. MaxSeed] /\ target'[c] = t
      /\ \A d \in Clients \ {c} : target'[d] = target[d]
  BY <1>1 DEF Inv, TypeOK
<1>4. /\ known' \in [Clients -> 0 .. MaxSeed] /\ mint' \in [Clients -> AllMints]
      /\ awaiting' \in [Clients -> SUBSET {"settings", "scan", "route", "setup"}]
      /\ seedSeen' \in [Clients -> 0 .. MaxSeed] /\ probed' \in [Clients -> SUBSET Seeds]
      /\ view' \in [Clients -> [Seeds -> PolicyKinds]]
  BY <1>1 DEF Inv, TypeOK
<1>5. /\ where = "recheck" /\ target'[c] # 0 =>
           target'[c] \in Seeds /\ target'[c] = seedSeen'[c] /\ policies[target'[c]] \in RouteKinds
      /\ where = "ready" => /\ At(policies, target'[c]) \in RouteKinds
                            /\ At(policies, target'[c] + 1) = "setup"
  BY <1>1, <1>3
<1>6. plan' \in [Clients -> Seq(Operations)] /\ UNCHANGED <<chain, faults, plan>>
  BY <1>1 DEF Inv, TypeOK
<1> QED BY <1>1, <1>2, <1>3, <1>4, <1>5, <1>6, LocalStep

\* What a client has read of a route or of its setup is on chain.
LEMMA ReadIsThere ==
  ASSUME Inv, NEW c \in Clients, NEW n \in Nat
  PROVE  At(view[c], n) # "none" => At(policies, n) = At(view[c], n)
BY DEF Inv, SafeInv, ViewInv, At

LEMMA UsePairStep ==
  ASSUME Inv, NEW c \in Clients, pc[c] = "reading", NEW r \in Seeds,
         view[c][r] \in RouteKinds, At(view[c], r + 1) = "setup", UsePair(c, r)
  PROVE  Inv'
<1>1. r \in 0 .. MaxSeed /\ r \in Nat /\ r + 1 \in Nat
  BY ResolveAssumption DEF Seeds
<1>2. At(policies, r) \in RouteKinds
  BY <1>1, ReadIsThere DEF At, RouteKinds
<1>3. At(policies, r + 1) = "setup"
  BY <1>1, ReadIsThere
<1>4. CASE Supports(c, r)
  <2>1. Advance(c, "ready", r)
    BY <1>4 DEF UsePair
  <2> QED BY <1>1, <1>2, <1>3, <2>1, AdvanceStep DEF Acting
<1>5. CASE ~Supports(c, r)
  <2>1. Throw(c, "capability")
    BY <1>5 DEF UsePair
  <2> QED BY <2>1, ThrowStep DEF Acting
<1> QED BY <1>4, <1>5

LEMMA CompleteRouteStep ==
  ASSUME Inv, NEW c \in Clients, pc[c] = "reading", NEW r \in Seeds,
         view[c][r] \in RouteKinds, CompleteRoute(c, r)
  PROVE  Inv'
<1>1. r \in 0 .. MaxSeed /\ r \in Nat
  BY ResolveAssumption DEF Seeds
<1>2. policies[r] \in RouteKinds
  BY <1>1, ReadIsThere DEF At, RouteKinds
<1>3. CASE Supports(c, r) /\ seedSeen[c] = r
  <2>1. Advance(c, "recheck", r)
    BY <1>3 DEF CompleteRoute
  <2> QED BY <1>1, <1>2, <1>3, <2>1, AdvanceStep DEF Acting
<1>4. CASE ~(Supports(c, r) /\ seedSeen[c] = r)
  <2>1. PICK why : Throw(c, why)
    BY <1>4, Zenon DEF CompleteRoute
  <2> QED BY <2>1, ThrowStep DEF Acting
<1> QED BY <1>3, <1>4

LEMMA BeginStep ==
  ASSUME Inv, NEW c \in Clients, Begin(c)
  PROVE  Inv'
<1>1. PICK k \in recorded \cup {0}, m \in Mints : Reads(c, k) /\ mint' = [mint EXCEPT ![c] = m]
  BY DEF Begin
<1>2. k \in 0 .. MaxSeed /\ m \in AllMints /\ Nothing \in [Seeds -> PolicyKinds]
  <2>1. recorded \subseteq Seeds /\ Mints \subseteq AllMints /\ "none" \in PolicyKinds
    BY ResolveAssumption DEF Inv, TypeOK, PolicyKinds
  <2>2. MaxSeed \in Nat
    BY ResolveAssumption
  <2> QED BY <2>1, <2>2 DEF Seeds, Nothing
<1>3. /\ known' \in [Clients -> 0 .. MaxSeed] /\ mint' \in [Clients -> AllMints]
      /\ awaiting' \in [Clients -> SUBSET {"settings", "scan", "route", "setup"}]
      /\ view' \in [Clients -> [Seeds -> PolicyKinds]] /\ view'[c] = Nothing
      /\ \A d \in Clients \ {c} : view'[d] = view[d]
      /\ pc' = [pc EXCEPT ![c] = "reading"]
  BY <1>1, <1>2 DEF Inv, TypeOK, Reads
<1>4. /\ seedSeen' = [seedSeen EXCEPT ![c] = 0] /\ probed' = [probed EXCEPT ![c] = {}]
      /\ target' = [target EXCEPT ![c] = 0] /\ plan' = [plan EXCEPT ![c] = <<>>]
      /\ UNCHANGED <<chain, faults>> /\ pc[c] \in {"idle", "ready", "threw"}
  BY Zenon DEF Begin
<1>5. /\ seedSeen' \in [Clients -> 0 .. MaxSeed] /\ probed' \in [Clients -> SUBSET Seeds]
      /\ target' \in [Clients -> 0 .. MaxSeed] /\ plan' \in [Clients -> Seq(Operations)]
      /\ \A d \in Clients \ {c} : /\ seedSeen'[d] = seedSeen[d] /\ target'[d] = target[d]
                                  /\ plan'[d] = plan[d]
      /\ pc[c] \notin Acting
  <2>1. 0 \in 0 .. MaxSeed /\ <<>> \in Seq(Operations)
    BY ResolveAssumption
  <2> QED BY <1>4, <2>1 DEF Inv, TypeOK, Acting
<1>6. \A n \in Seeds : view'[c][n] \in {"none", policies[n]}
  BY <1>3 DEF Nothing
<1> QED BY <1>3, <1>4, <1>5, <1>6, LocalStep

\* The answer to a read, with what the client learns from it.
LEMMA AnswerStep ==
  ASSUME Inv, NEW c \in Clients, NEW read, Answer(c, read),
         seedSeen' \in [Clients -> 0 .. MaxSeed], view' \in [Clients -> [Seeds -> PolicyKinds]],
         \A d \in Clients \ {c} : view'[d] = view[d] /\ seedSeen'[d] = seedSeen[d],
         \A n \in Seeds : view'[c][n] \in {"none", policies[n]}
  PROVE  Inv'
<1>1. /\ pc' = [pc EXCEPT ![c] = "reading"] /\ pc[c] \notin Acting
      /\ UNCHANGED <<chain, faults, known, mint, probed, target, plan>>
      /\ awaiting' \in [Clients -> SUBSET {"settings", "scan", "route", "setup"}]
  BY DEF Inv, TypeOK, Answer, Acting
<1>2. /\ known' \in [Clients -> 0 .. MaxSeed] /\ mint' \in [Clients -> AllMints]
      /\ probed' \in [Clients -> SUBSET Seeds] /\ target' \in [Clients -> 0 .. MaxSeed]
      /\ plan' \in [Clients -> Seq(Operations)]
  BY <1>1 DEF Inv, TypeOK
<1> QED BY <1>1, <1>2, LocalStep

LEMMA ReadStep ==
  ASSUME Inv, NEW c \in Clients, ReadSettings(c) \/ ReadScan(c) \/ ReadKnown(c)
  PROVE  Inv'
<1>1. \A n \in Seeds : view[c][n] \in {"none", policies[n]}
  BY DEF Inv, SafeInv, ViewInv
<1>2. CASE ReadSettings(c)
  BY <1>1, <1>2, AnswerStep DEF Inv, TypeOK, ReadSettings
<1>3. CASE ReadScan(c)
  BY <1>3, AnswerStep DEF Inv, TypeOK, ReadScan
<1>4. ASSUME NEW read, NEW n, ReadAt(c, read, n) PROVE Inv'
  <2>1. At(policies, n) \in PolicyKinds
    BY DEF Inv, TypeOK, At, PolicyKinds
  <2>2. /\ view' \in [Clients -> [Seeds -> PolicyKinds]]
        /\ \A d \in Clients \ {c} : view'[d] = view[d]
        /\ \A m \in Seeds : view'[c][m] = IF m = n THEN At(policies, n) ELSE view[c][m]
    BY <1>4, <2>1 DEF Inv, TypeOK, ReadAt
  <2>3. \A m \in Seeds : view'[c][m] \in {"none", policies[m]}
    BY <1>1, <2>2 DEF At
  <2>4. Answer(c, read) /\ seedSeen' = seedSeen
    BY <1>4 DEF ReadAt
  <2>5. seedSeen' \in [Clients -> 0 .. MaxSeed]
    BY <2>4 DEF Inv, TypeOK
  <2> QED BY <2>2, <2>3, <2>4, <2>5, AnswerStep
<1>5. CASE ReadKnown(c)
  BY <1>4, <1>5 DEF ReadKnown
<1> QED BY <1>2, <1>3, <1>5

LEMMA DecideStep ==
  ASSUME Inv, NEW c \in Clients,
         DecideKnown(c) \/ ScanThrows(c) \/ TryRoute(c) \/ CompleteNewest(c)
  PROVE  Inv'
<1>1. pc[c] = "reading" /\ pc[c] \notin Acting
  BY DEF DecideKnown, ScanThrows, TryRoute, CompleteNewest, Scanned, Decided, Acting
<1>2. CASE DecideKnown(c)
  <2> DEFINE k == known[c]
  <2>1. k \in Seeds
    <3>1. k # 0
      BY <1>2 DEF DecideKnown
    <3>2. known[c] \in 0 .. MaxSeed
      BY DEF Inv, TypeOK
    <3> QED BY <3>1, <3>2, SeedNumbers
  <2>2. CASE view[c][k] = "none"
    <3>1. /\ Reads(c, 0)
          /\ UNCHANGED <<chain, faults, mint, seedSeen, probed, target, plan>>
      BY <1>2, <2>2 DEF DecideKnown
    <3>2. 0 \in 0 .. MaxSeed /\ Nothing \in [Seeds -> PolicyKinds]
      BY ResolveAssumption DEF Nothing, PolicyKinds
    <3>3. /\ known' \in [Clients -> 0 .. MaxSeed]
          /\ awaiting' \in [Clients -> SUBSET {"settings", "scan", "route", "setup"}]
          /\ view' \in [Clients -> [Seeds -> PolicyKinds]] /\ view'[c] = Nothing
          /\ \A d \in Clients \ {c} : view'[d] = view[d]
          /\ pc' = [pc EXCEPT ![c] = "reading"]
      BY <3>1, <3>2 DEF Inv, TypeOK, Reads
    <3>4. /\ mint' \in [Clients -> AllMints] /\ seedSeen' \in [Clients -> 0 .. MaxSeed]
          /\ probed' \in [Clients -> SUBSET Seeds] /\ target' \in [Clients -> 0 .. MaxSeed]
          /\ plan' \in [Clients -> Seq(Operations)]
      BY <3>1 DEF Inv, TypeOK
    <3>5. \A n \in Seeds : view'[c][n] \in {"none", policies[n]}
      BY <3>3 DEF Nothing
    <3> QED BY <1>1, <3>1, <3>3, <3>4, <3>5, LocalStep
  <2>3. CASE view[c][k] # "none" /\ (view[c][k] \notin RouteKinds
               \/ At(view[c], k + 1) \notin {"none", "setup"})
    <3>1. Throw(c, "noncanonical")
      BY <1>2, <2>3 DEF DecideKnown
    <3> QED BY <1>1, <3>1, ThrowStep
  <2>4. CASE view[c][k] \in RouteKinds /\ At(view[c], k + 1) = "setup"
    <3>1. UsePair(c, k)
      BY <1>2, <2>4 DEF DecideKnown, RouteKinds
    <3> QED BY <1>1, <2>1, <2>4, <3>1, UsePairStep
  <2>5. CASE view[c][k] \in RouteKinds /\ At(view[c], k + 1) = "none"
    <3>1. CompleteRoute(c, k)
      BY <1>2, <2>5 DEF DecideKnown, RouteKinds
    <3> QED BY <1>1, <2>1, <2>5, <3>1, CompleteRouteStep
  <2> QED BY <2>2, <2>3, <2>4, <2>5
<1>3. CASE ScanThrows(c)
  BY <1>1, <1>3, ThrowStep DEF ScanThrows
<1>4. CASE TryRoute(c)
  <2>1. PICK r \in Routes(c) :
          IF At(view[c], r + 1) = "setup" THEN UsePair(c, r)
          ELSE IF At(policies, r + 1) # "none" THEN Throw(c, "occupied")
          ELSE /\ probed' = [probed EXCEPT ![c] = @ \cup {r}]
               /\ UNCHANGED <<chain, faults, pc, known, mint, awaiting, seedSeen, view,
                              target, plan, reason>>
    BY <1>4, Zenon DEF TryRoute
  <2>2. r \in Seeds /\ view[c][r] \in RouteKinds
    BY DEF Routes
  <2>3. CASE At(view[c], r + 1) = "setup"
    BY <1>1, <2>1, <2>2, <2>3, UsePairStep
  <2>4. CASE At(view[c], r + 1) # "setup" /\ At(policies, r + 1) # "none"
    BY <1>1, <2>1, <2>4, ThrowStep
  <2>5. CASE At(view[c], r + 1) # "setup" /\ At(policies, r + 1) = "none"
    <3>0. /\ probed' = [probed EXCEPT ![c] = @ \cup {r}]
          /\ UNCHANGED <<chain, faults, pc, known, mint, awaiting, seedSeen, view, target, plan>>
      BY <2>1, <2>5
    <3>1. /\ probed' \in [Clients -> SUBSET Seeds] /\ pc' = [pc EXCEPT ![c] = "reading"]
          /\ UNCHANGED <<chain, faults, known, mint, awaiting, seedSeen, view, target, plan>>
      BY <1>1, <2>2, <3>0 DEF Inv, TypeOK
    <3>2. \A n \in Seeds : view'[c][n] \in {"none", policies[n]}
      BY <3>1 DEF Inv, SafeInv, ViewInv
    <3> QED BY <1>1, <3>1, <3>2, LocalStep DEF Inv, TypeOK
  <2> QED BY <2>3, <2>4, <2>5
<1>5. CASE CompleteNewest(c)
  <2>1. PICK r \in Routes(c) : CompleteRoute(c, r)
    BY <1>5 DEF CompleteNewest
  <2> QED BY <1>1, <2>1, CompleteRouteStep DEF Routes
<1> QED BY <1>2, <1>3, <1>4, <1>5

LEMMA ProbeStep ==
  ASSUME Inv, NEW c \in Clients, NoRoute(c) \/ ProbeTarget(c)
  PROVE  Inv'
<1>1. pc[c] \notin Acting /\ 0 \in 0 .. MaxSeed
  <2>1. pc[c] \in {"reading", "probe route", "probe setup"}
    BY Zenon DEF NoRoute, ProbeTarget, Scanned, Decided
  <2> QED BY <2>1, SeedNumbers DEF Acting
<1>2. \/ \E why : Throw(c, why)
      \/ Advance(c, "probe route", 0) \/ Advance(c, "probe setup", 0) \/ Advance(c, "recheck", 0)
  BY Zenon DEF NoRoute, ProbeTarget
<1> QED BY <1>1, <1>2, ThrowStep, AdvanceStep

-----------------------------------------------------------------------------
(* Preparing and sending the operations.                                   *)

\* A pair is prepared for the seeds after the current one, a setup for the
\* seed after the route that is there.
LEMMA RecheckPlans ==
  ASSUME Inv, NEW c \in Clients, Recheck(c), policySeed = seedSeen[c]
  PROVE  /\ pc' = [pc EXCEPT ![c] = "execute"]
         /\ UNCHANGED <<chain, faults, known, mint, awaiting, seedSeen, view, probed>>
         /\ target'[c] \in Seeds /\ target'[c] + 1 \in Seeds
         /\ target' \in [Clients -> 0 .. MaxSeed] /\ plan' \in [Clients -> Seq(Operations)]
         /\ \A d \in Clients \ {c} : target'[d] = target[d] /\ plan'[d] = plan[d]
         /\ \/ /\ plan'[c] = <<Op(c, target'[c], "route"), Op(c, target'[c] + 1, "setup")>>
               /\ target'[c] > policySeed
            \/ /\ plan'[c] = <<Op(c, target'[c] + 1, "setup")>>
               /\ policies[target'[c]] \in RouteKinds /\ target'[c] = policySeed
<1> USE DEF Inv, SafeInv
<1>1. /\ pc[c] = "recheck" /\ seedSeen[c] + 2 <= MaxSeed
      /\ plan' = [plan EXCEPT ![c] =
           IF target[c] # 0 THEN <<Op(c, target[c] + 1, "setup")>>
           ELSE <<Op(c, seedSeen[c] + 1, "route"), Op(c, seedSeen[c] + 2, "setup")>>]
      /\ target' = [target EXCEPT ![c] = IF @ # 0 THEN @ ELSE seedSeen[c] + 1]
      /\ pc' = [pc EXCEPT ![c] = "execute"]
      /\ UNCHANGED <<chain, faults, known, mint, awaiting, seedSeen, view, probed>>
  BY DEF Recheck
<1>2. policySeed \in 0 .. MaxSeed /\ target[c] \in 0 .. MaxSeed
  BY DEF TypeOK
<1>3. \A n \in Nat, k \in {"route", "setup"} : Op(c, n, k) \in Operations
  BY DEF Op, Operations
<1>4. CASE target[c] # 0
  <2>1. /\ target[c] \in Seeds /\ target[c] = policySeed /\ policies[target[c]] \in RouteKinds
    BY <1>1, <1>4 DEF TargetInv
  <2>2. target[c] + 1 \in Seeds /\ target[c] + 1 \in Nat
    BY <1>1, <1>2, <2>1, SeedNumbers DEF Seeds
  <2>3. target' = target /\ plan' = [plan EXCEPT ![c] = <<Op(c, target[c] + 1, "setup")>>]
    BY <1>1, <1>4 DEF TypeOK
  <2>4. <<Op(c, target[c] + 1, "setup")>> \in Seq(Operations)
    BY <1>3, <2>2
  <2>5. /\ target' \in [Clients -> 0 .. MaxSeed] /\ plan' \in [Clients -> Seq(Operations)]
        /\ \A d \in Clients \ {c} : target'[d] = target[d] /\ plan'[d] = plan[d]
        /\ target'[c] = target[c] /\ plan'[c] = <<Op(c, target[c] + 1, "setup")>>
    BY <2>3, <2>4 DEF TypeOK
  <2> QED BY <1>1, <2>1, <2>2, <2>5
<1>5. CASE target[c] = 0
  <2> DEFINE t == policySeed + 1
  <2>1. t \in Seeds /\ t + 1 \in Seeds /\ t \in Nat /\ t + 1 \in Nat /\ t > policySeed
        /\ t \in 0 .. MaxSeed /\ policySeed + 2 = t + 1
    BY <1>1, <1>2, SeedNumbers DEF Seeds
  <2>2. /\ target' = [target EXCEPT ![c] = t]
        /\ plan' = [plan EXCEPT ![c] = <<Op(c, t, "route"), Op(c, t + 1, "setup")>>]
    BY <1>1, <1>5, <2>1
  <2>3. <<Op(c, t, "route"), Op(c, t + 1, "setup")>> \in Seq(Operations)
    BY <1>3, <2>1
  <2> HIDE DEF t
  <2>4. /\ target' \in [Clients -> 0 .. MaxSeed] /\ plan' \in [Clients -> Seq(Operations)]
        /\ \A d \in Clients \ {c} : target'[d] = target[d] /\ plan'[d] = plan[d]
        /\ target'[c] = t /\ plan'[c] = <<Op(c, t, "route"), Op(c, t + 1, "setup")>>
    BY <2>1, <2>2, <2>3 DEF TypeOK
  <2> QED BY <1>1, <2>1, <2>4
<1> QED BY <1>4, <1>5

LEMMA RecheckStep ==
  ASSUME Inv, NEW c \in Clients, Recheck(c)
  PROVE  Inv'
<1> USE DEF Inv, SafeInv
<1>1. CASE policySeed # seedSeen[c]
  <2>1. Throw(c, "changed") /\ pc[c] = "recheck"
    BY <1>1 DEF Recheck
  <2> QED BY <2>1, ThrowStep DEF Acting
<1>2. CASE policySeed = seedSeen[c]
  <2>1. /\ pc' = [pc EXCEPT ![c] = "execute"] /\ pc[c] = "recheck"
        /\ UNCHANGED <<policySeed, policies, inflight, recorded, foreign, faults>>
        /\ UNCHANGED <<known, mint, awaiting, seedSeen, view, probed>>
    BY <1>2, RecheckPlans DEF Recheck, chain
  <2>2. pc'[c] = "execute" /\ \A d \in Clients \ {c} : pc'[d] = pc[d]
    BY <2>1 DEF TypeOK
  <2>3. TypeOK'
    BY <1>2, <2>1, RecheckPlans DEF TypeOK
  <2>4. ChainInv' /\ SetupHasRoute' /\ ViewInv'
    BY <2>1 DEF ChainInv, SetupHasRoute, ViewInv, At
  <2>5. TargetInv'
    BY <1>2, <2>1, <2>2, RecheckPlans DEF TargetInv
  <2>8. ReadyPairExists'
    <3> SUFFICES ASSUME NEW d \in Clients, pc'[d] = "ready"
                 PROVE  /\ At(policies, target'[d]) \in RouteKinds
                        /\ At(policies, target'[d] + 1) = "setup"
      BY <2>1 DEF ReadyPairExists, At
    <3>1. d # c
      BY <2>2
    <3>2. pc[d] = "ready" /\ target'[d] = target[d]
      BY <1>2, <2>2, <3>1, RecheckPlans
    <3> QED BY <3>2 DEF ReadyPairExists
  <2>6. PlanInv'
    BY <1>2, <2>1, <2>2, RecheckPlans DEF PlanInv, Acting
  <2>7. InflightInv'
    BY <1>2, <2>1, <2>2, RecheckPlans DEF InflightInv, At
  <2> QED BY <2>3, <2>4, <2>5, <2>6, <2>7, <2>8
<1> QED BY <1>1, <1>2

\* The operation at the head of a plan, and what it may do.
LEMMA HeadOfPlan ==
  ASSUME Inv, NEW c \in Clients, pc[c] \in Acting
  PROVE  /\ Head(plan[c]) \in Operations /\ Head(plan[c]).client = c
         /\ Head(plan[c]).seed \in Seeds
         /\ \/ /\ Head(plan[c]).kind = "setup" /\ Len(plan[c]) = 1
               /\ Head(plan[c]).seed = target[c] + 1 /\ policies[target[c]] \in RouteKinds
            \/ /\ Head(plan[c]).kind = "route" /\ Len(plan[c]) = 2
               /\ Head(plan[c]).seed = target[c]
               /\ Tail(plan[c]) = <<Op(c, target[c] + 1, "setup")>>
         /\ target[c] \in Seeds /\ target[c] + 1 \in Seeds
<1>1. /\ target[c] \in Seeds /\ target[c] + 1 \in Seeds
      /\ \/ plan[c] = <<Op(c, target[c], "route"), Op(c, target[c] + 1, "setup")>>
         \/ /\ plan[c] = <<Op(c, target[c] + 1, "setup")>>
            /\ policies[target[c]] \in RouteKinds
  BY DEF Inv, SafeInv, PlanInv
<1>2. target[c] \in Nat /\ target[c] + 1 \in Nat
  BY <1>1, SeedNumbers DEF Seeds
<1>3. \A n \in Nat, k \in {"route", "setup"} :
        /\ Op(c, n, k) \in Operations /\ Op(c, n, k).client = c
        /\ Op(c, n, k).seed = n /\ Op(c, n, k).kind = k
  BY DEF Op, Operations
<1>4. CASE plan[c] = <<Op(c, target[c] + 1, "setup")>> /\ policies[target[c]] \in RouteKinds
  <2>1. Head(plan[c]) = Op(c, target[c] + 1, "setup") /\ Len(plan[c]) = 1
    BY <1>4
  <2> QED BY <1>1, <1>2, <1>3, <1>4, <2>1
<1>5. CASE plan[c] = <<Op(c, target[c], "route"), Op(c, target[c] + 1, "setup")>>
  <2>1. /\ Head(plan[c]) = Op(c, target[c], "route") /\ Len(plan[c]) = 2
        /\ Tail(plan[c]) = <<Op(c, target[c] + 1, "setup")>>
    BY <1>5
  <2> QED BY <1>1, <1>2, <1>3, <2>1
<1> QED BY <1>1, <1>4, <1>5

LEMMA SubmitStep ==
  ASSUME Inv, NEW c \in Clients, Submit(c)
  PROVE  Inv'
<1> USE DEF Inv, SafeInv
<1>1. /\ pc[c] = "execute" /\ pc' = [pc EXCEPT ![c] = "waiting"]
      /\ inflight' = inflight \cup {Head(plan[c])}
      /\ UNCHANGED <<policySeed, policies, recorded, foreign, faults>>
      /\ UNCHANGED <<known, mint, awaiting, seedSeen, view, probed, target, plan>>
  BY DEF Submit
<1>2. pc'[c] = "waiting" /\ \A d \in Clients \ {c} : pc'[d] = pc[d]
  BY <1>1 DEF TypeOK
<1>3. pc[c] \in Acting
  BY <1>1 DEF Acting
<1>4. TypeOK'
  BY <1>1, <1>3, HeadOfPlan DEF TypeOK
<1>5. ChainInv' /\ SetupHasRoute' /\ ViewInv'
  BY <1>1 DEF ChainInv, SetupHasRoute, ViewInv, At
<1>6. TargetInv' /\ ReadyPairExists'
  BY <1>1, <1>2 DEF TargetInv, ReadyPairExists, At
<1>7. PlanInv'
  BY <1>1, <1>2, <1>3 DEF PlanInv, Acting
<1>8. InflightInv'
  <2> SUFFICES ASSUME NEW op \in inflight'
               PROVE  /\ op.seed \in Seeds
                      /\ op.kind = "setup" => At(policies, op.seed - 1) \in RouteKinds
                      /\ op.client \in Clients =>
                           pc'[op.client] = "waiting" /\ op = Head(plan[op.client])
    BY <1>1 DEF InflightInv, At
  <2>1. CASE op \in inflight
    BY <1>1, <1>2, <2>1 DEF InflightInv
  <2>2. CASE op = Head(plan[c])
    <3>1. /\ op.client = c /\ op.seed \in Seeds
          /\ op.kind = "setup" => /\ op.seed = target[c] + 1 /\ target[c] \in Seeds
                                  /\ policies[target[c]] \in RouteKinds
      BY <1>3, <2>2, HeadOfPlan
    <3>2. op.kind = "setup" => At(policies, op.seed - 1) \in RouteKinds
      <4>1. \A t \in Seeds : (t + 1) - 1 = t
        BY SeedNumbers DEF Seeds
      <4> QED BY <3>1, <4>1 DEF At
    <3> QED BY <1>2, <2>2, <3>1, <3>2
  <2> QED BY <1>1, <2>1, <2>2
<1> QED BY <1>4, <1>5, <1>6, <1>7, <1>8

-----------------------------------------------------------------------------
(* What becomes of a transaction.                                          *)

\* A policy created at the next seed: everything known of the others stays.
LEMMA NextSeed ==
  ASSUME Inv, policySeed + 1 \in Seeds, NEW kind \in PolicyKinds,
         policySeed' = policySeed + 1,
         policies' = [policies EXCEPT ![policySeed + 1] = kind],
         kind = "setup" => At(policies, policySeed) \in RouteKinds
  PROVE  /\ policySeed' \in 0 .. MaxSeed /\ policies' \in [Seeds -> PolicyKinds]
         /\ policies'[policySeed'] = kind
         /\ \A n \in Nat : At(policies, n) # "none" => At(policies', n) = At(policies, n)
         /\ ChainInv' /\ SetupHasRoute'
         /\ \A n \in Seeds : \A v : v \in {"none", policies[n]} => v \in {"none", policies'[n]}
<1> USE DEF Inv, SafeInv
<1>1. policySeed \in Nat /\ policySeed' \in 0 .. MaxSeed /\ policySeed' \in Nat
  <2>1. policySeed \in 0 .. MaxSeed
    BY DEF TypeOK
  <2> QED BY <2>1, SeedNumbers DEF Seeds
<1>2. policies' \in [Seeds -> PolicyKinds] /\ policies'[policySeed'] = kind
  BY DEF TypeOK
<1>3. policies[policySeed + 1] = "none"
  BY <1>1 DEF ChainInv
<1>4. \A n \in Seeds : n # policySeed + 1 => policies'[n] = policies[n]
  BY DEF TypeOK
<1>5. \A n \in Nat : At(policies, n) # "none" => At(policies', n) = At(policies, n)
  BY <1>3, <1>4 DEF At
<1>6. ChainInv'
  BY <1>1, <1>4, SeedNumbers DEF ChainInv, Seeds
<1>7. SetupHasRoute'
  <2> SUFFICES ASSUME NEW n \in Seeds, policies'[n] = "setup"
               PROVE  At(policies', n - 1) \in RouteKinds
    BY DEF SetupHasRoute
  <2>1. n - 1 \in Nat /\ (n = policySeed + 1 => n - 1 = policySeed)
    BY <1>1, SeedNumbers DEF Seeds
  <2>2. At(policies, n - 1) \in RouteKinds
    BY <1>2, <1>4, <2>1 DEF SetupHasRoute
  <2> QED BY <1>5, <2>1, <2>2 DEF RouteKinds
<1>8. \A n \in Seeds : \A v : v \in {"none", policies[n]} => v \in {"none", policies'[n]}
  BY <1>3, <1>4
<1> QED BY <1>1, <1>2, <1>5, <1>6, <1>7, <1>8

LEMMA LandStep ==
  ASSUME Inv, NEW op \in inflight, Land(op)
  PROVE  Inv'
<1> USE DEF Inv, SafeInv
<1>1. /\ op.seed = policySeed + 1 /\ policySeed' = op.seed
      /\ policies' = [policies EXCEPT ![op.seed] = op.kind]
      /\ inflight' = inflight \ {op}
      /\ UNCHANGED <<foreign, faults, known, mint, awaiting, seedSeen, view, probed, target>>
  BY DEF Land
<1>2. /\ op.client \in Clients =>
           /\ plan' = [plan EXCEPT ![op.client] = Tail(@)]
           /\ pc' = [pc EXCEPT ![op.client] =
                       IF Len(plan[op.client]) = 1 THEN "ready" ELSE "execute"]
           /\ recorded' \in {recorded, recorded \cup ({op.seed} \ {n \in Seeds : op.kind = "setup"})}
      /\ op.client \notin Clients => UNCHANGED <<plan, pc, recorded>>
  BY DEF Land
<1>3. op \in Operations /\ op.seed \in Seeds /\ op.kind \in {"route", "setup"}
  BY DEF TypeOK, InflightInv, Operations
<1>4. policySeed \in Nat /\ (op.kind = "setup" => At(policies, policySeed) \in RouteKinds)
  <2>1. policySeed \in 0 .. MaxSeed
    BY DEF TypeOK
  <2>2. policySeed \in Nat /\ op.seed - 1 = policySeed
    BY <1>1, <2>1, SeedNumbers
  <2> QED BY <2>2 DEF InflightInv
<1>5. /\ policySeed' \in 0 .. MaxSeed /\ policies' \in [Seeds -> PolicyKinds]
      /\ policies'[op.seed] = op.kind
      /\ \A n \in Nat : At(policies, n) # "none" => At(policies', n) = At(policies, n)
      /\ ChainInv' /\ SetupHasRoute'
      /\ \A n \in Seeds : \A v : v \in {"none", policies[n]} => v \in {"none", policies'[n]}
  <2>1. op.kind \in PolicyKinds
    BY <1>3 DEF PolicyKinds, RouteKinds
  <2> QED BY <1>1, <1>3, <1>4, <2>1, NextSeed
<1>6. \A n \in Seeds : n \in Nat /\ (policies[n] \in RouteKinds => policies'[n] \in RouteKinds)
  <2>1. \A n \in Seeds : n \in Nat
    BY SeedNumbers DEF Seeds
  <2> QED BY <1>5, <2>1 DEF At, RouteKinds
<1>7. \A d \in Clients : d # op.client => pc'[d] = pc[d] /\ plan'[d] = plan[d]
  BY <1>2 DEF TypeOK
<1>8. op.client \in Clients =>
        /\ pc[op.client] = "waiting" /\ pc[op.client] \in Acting
        /\ op = Head(plan[op.client])
        /\ plan'[op.client] = Tail(plan[op.client])
        /\ pc'[op.client] = IF Len(plan[op.client]) = 1 THEN "ready" ELSE "execute"
  BY <1>2 DEF TypeOK, InflightInv, Acting
<1>9. op.client \in Clients =>
        LET c == op.client IN
        /\ target[c] \in Seeds /\ target[c] + 1 \in Seeds
        /\ \/ /\ op.kind = "setup" /\ op.seed = target[c] + 1
              /\ policies[target[c]] \in RouteKinds /\ pc'[c] = "ready"
           \/ /\ op.kind = "route" /\ op.seed = target[c] /\ pc'[c] = "execute"
              /\ plan'[c] = <<Op(c, target[c] + 1, "setup")>>
  <2> SUFFICES ASSUME NEW c \in Clients, c = op.client
               PROVE  /\ target[c] \in Seeds /\ target[c] + 1 \in Seeds
                      /\ \/ /\ op.kind = "setup" /\ op.seed = target[c] + 1
                            /\ policies[target[c]] \in RouteKinds /\ pc'[c] = "ready"
                         \/ /\ op.kind = "route" /\ op.seed = target[c] /\ pc'[c] = "execute"
                            /\ plan'[c] = <<Op(c, target[c] + 1, "setup")>>
    OBVIOUS
  <2>1. /\ op = Head(plan[c]) /\ plan'[c] = Tail(plan[c]) /\ pc[c] \in Acting
        /\ pc'[c] = IF Len(plan[c]) = 1 THEN "ready" ELSE "execute"
    BY <1>8
  <2>2. CASE op.kind = "setup"
    BY <2>1, <2>2, HeadOfPlan
  <2>3. CASE op.kind = "route"
    <3>1. /\ op.seed = target[c] /\ target[c] \in Seeds /\ target[c] + 1 \in Seeds
          /\ Len(plan[c]) = 2 /\ Tail(plan[c]) = <<Op(c, target[c] + 1, "setup")>>
      BY <2>1, <2>3, HeadOfPlan, Zenon
    <3>2. pc'[c] = "execute"
      BY <2>1, <3>1
    <3>3. plan'[c] = <<Op(c, target[c] + 1, "setup")>>
      BY <2>1, <3>1, Zenon
    <3> QED BY <2>3, <3>1, <3>2, <3>3, Zenon
  <2> QED BY <1>3, <2>2, <2>3
<1>10. TypeOK'
  <2>1. plan' \in [Clients -> Seq(Operations)]
    <3>1. CASE op.client \in Clients
      <4>1. plan[op.client] \in Seq(Operations) /\ plan[op.client] # <<>>
        <5>1. plan[op.client] \in Seq(Operations)
          BY <3>1 DEF TypeOK
        <5>2. Len(plan[op.client]) \in {1, 2}
          BY <1>8, <3>1, HeadOfPlan
        <5>3. plan[op.client] = <<>> => Len(plan[op.client]) = 0
          OBVIOUS
        <5>4. 0 \notin {1, 2}
          OBVIOUS
        <5> QED BY <5>1, <5>2, <5>3, <5>4, Zenon
      <4>2. Tail(plan[op.client]) \in Seq(Operations)
        BY <4>1
      <4> QED BY <1>2, <3>1, <4>2 DEF TypeOK
    <3>2. CASE op.client \notin Clients
      BY <1>2, <3>2 DEF TypeOK
    <3> QED BY <3>1, <3>2
  <2>2. recorded' \subseteq Seeds /\ inflight' \subseteq Operations
    BY <1>1, <1>2, <1>3 DEF TypeOK
  <2>3. pc' \in [Clients -> {"idle", "reading", "probe route", "probe setup", "recheck",
                             "execute", "waiting", "ready", "threw"}]
    BY <1>2 DEF TypeOK
  <2> QED BY <1>1, <1>5, <2>1, <2>2, <2>3 DEF TypeOK
<1>11. ViewInv'
  BY <1>1, <1>5 DEF ViewInv
<1>12. TargetInv'
  <2> SUFFICES ASSUME NEW d \in Clients, pc'[d] = "recheck", target[d] # 0
               PROVE  /\ target[d] \in Seeds /\ target[d] = seedSeen[d]
                      /\ policies'[target[d]] \in RouteKinds
    BY <1>1 DEF TargetInv
  <2>1. d # op.client
    BY <1>9
  <2> QED BY <1>6, <1>7, <2>1 DEF TargetInv
<1>13. PlanInv'
  <2> SUFFICES ASSUME NEW d \in Clients, pc'[d] \in Acting
               PROVE  /\ target[d] \in Seeds /\ target[d] + 1 \in Seeds
                      /\ \/ plan'[d] = <<Op(d, target[d], "route"), Op(d, target[d] + 1, "setup")>>
                         \/ /\ plan'[d] = <<Op(d, target[d] + 1, "setup")>>
                            /\ policies'[target[d]] \in RouteKinds
    BY <1>1 DEF PlanInv
  <2>1. CASE d = op.client
    <3>1. /\ op.kind = "route" /\ op.seed = target[d] /\ target[d] \in Seeds
          /\ target[d] + 1 \in Seeds /\ plan'[d] = <<Op(d, target[d] + 1, "setup")>>
      BY <1>9, <2>1 DEF Acting
    <3> QED BY <1>5, <3>1 DEF RouteKinds
  <2>2. CASE d # op.client
    BY <1>6, <1>7, <2>2 DEF PlanInv
  <2> QED BY <2>1, <2>2
<1>14. InflightInv'
  <2> SUFFICES ASSUME NEW other \in inflight, other # op
               PROVE  /\ other.seed \in Seeds
                      /\ other.kind = "setup" => At(policies', other.seed - 1) \in RouteKinds
                      /\ other.client \in Clients => /\ pc'[other.client] = "waiting"
                                                     /\ other = Head(plan'[other.client])
    BY <1>1 DEF InflightInv
  <2>1. other.seed \in Seeds /\ other.seed - 1 \in Nat
    BY SeedNumbers DEF InflightInv, Seeds
  <2>2. other.kind = "setup" => At(policies', other.seed - 1) \in RouteKinds
    BY <1>5, <2>1 DEF InflightInv, RouteKinds
  <2>3. other.client \in Clients => other.client # op.client
    BY <1>8 DEF InflightInv
  <2> QED BY <1>7, <2>1, <2>2, <2>3 DEF InflightInv
<1>15. ReadyPairExists'
  <2> SUFFICES ASSUME NEW d \in Clients, pc'[d] = "ready"
               PROVE  /\ At(policies', target[d]) \in RouteKinds
                      /\ At(policies', target[d] + 1) = "setup"
    BY <1>1 DEF ReadyPairExists, At
  <2>1. CASE d = op.client
    <3>1. /\ op.kind = "setup" /\ op.seed = target[d] + 1 /\ target[d] \in Seeds
          /\ policies[target[d]] \in RouteKinds
      BY <1>9, <2>1
    <3> QED BY <1>3, <1>5, <1>6, <3>1 DEF At
  <2>2. CASE d # op.client
    <3>1. /\ At(policies, target[d]) \in RouteKinds /\ At(policies, target[d] + 1) = "setup"
      BY <1>7, <2>2 DEF ReadyPairExists
    <3>2. target[d] \in 0 .. MaxSeed
      BY DEF TypeOK
    <3>3. target[d] \in Nat /\ target[d] + 1 \in Nat
      BY <3>2, SeedNumbers
    <3> QED BY <1>5, <3>1, <3>3 DEF RouteKinds
  <2> QED BY <2>1, <2>2
<1> QED BY <1>5, <1>10, <1>11, <1>12, <1>13, <1>14, <1>15

\* A client stops waiting: its transaction is gone, or nobody's any more.
LEMMA StopStep ==
  ASSUME Inv, NEW where \in {"threw", "idle"}, NEW c,
         UNCHANGED <<policySeed, policies, recorded, foreign>>,
         UNCHANGED <<known, mint, awaiting, seedSeen, view, probed, target, plan>>,
         faults' \in 0 .. MaxFaults,
         IF c \in Clients THEN pc' = [pc EXCEPT ![c] = where] ELSE UNCHANGED pc,
         inflight' \subseteq Operations,
         \A op \in inflight' :
           \/ op \in inflight /\ (op.client = c => c \notin Clients)
           \/ /\ op.client = "nobody"
              /\ \E old \in inflight : op.seed = old.seed /\ op.kind = old.kind
  PROVE  Inv'
<1> USE DEF Inv, SafeInv
<1>1. \A d \in Clients : pc'[d] = IF d = c THEN where ELSE pc[d]
  BY DEF TypeOK
<1>2. TypeOK'
  <2>1. pc' \in [Clients -> {"idle", "reading", "probe route", "probe setup", "recheck",
                             "execute", "waiting", "ready", "threw"}]
    BY DEF TypeOK
  <2> QED BY <2>1 DEF TypeOK
<1>3. ChainInv' /\ SetupHasRoute' /\ ViewInv'
  BY DEF ChainInv, SetupHasRoute, ViewInv, At
<1>4. TargetInv' /\ PlanInv' /\ ReadyPairExists'
  BY <1>1 DEF TargetInv, PlanInv, ReadyPairExists, Acting, At
<1>5. InflightInv'
  <2> SUFFICES ASSUME NEW op \in inflight'
               PROVE  /\ op.seed \in Seeds
                      /\ op.kind = "setup" => At(policies, op.seed - 1) \in RouteKinds
                      /\ op.client \in Clients =>
                           pc'[op.client] = "waiting" /\ op = Head(plan[op.client])
    BY DEF InflightInv, At
  <2>1. CASE op \in inflight /\ (op.client = c => c \notin Clients)
    BY <1>1, <2>1 DEF InflightInv
  <2>2. CASE /\ op.client = "nobody"
             /\ \E old \in inflight : op.seed = old.seed /\ op.kind = old.kind
    BY <2>2, ResolveAssumption DEF InflightInv
  <2> QED BY <2>1, <2>2
<1> QED BY <1>2, <1>3, <1>4, <1>5

LEMMA EndStep ==
  ASSUME Inv, NEW op \in inflight, Fails(op) \/ Expires(op)
  PROVE  Inv'
<1>1. Sender(op, "failed") /\ faults' \in 0 .. MaxFaults
  <2>1. CASE Fails(op)
    BY <2>1 DEF Inv, TypeOK, Fails
  <2>2. CASE Expires(op)
    <3>1. /\ faults < MaxFaults /\ faults' = faults + 1 /\ Sender(op, "failed")
      BY <2>2 DEF Expires
    <3>2. faults \in 0 .. MaxFaults
      BY DEF Inv, TypeOK
    <3> QED BY <3>1, <3>2, Bounds
  <2> QED BY <2>1, <2>2
<1>2. /\ UNCHANGED <<policySeed, policies, recorded, foreign>>
      /\ UNCHANGED <<known, mint, awaiting, seedSeen, view, probed, target, plan>>
      /\ inflight' = inflight \ {op}
      /\ IF op.client \in Clients THEN pc' = [pc EXCEPT ![op.client] = "threw"]
         ELSE UNCHANGED pc
  BY <1>1 DEF Sender
<1>3. inflight' \subseteq Operations
  BY <1>2 DEF Inv, TypeOK
<1>4. \A other \in inflight' :
        other \in inflight /\ (other.client = op.client => op.client \notin Clients)
  BY <1>2 DEF Inv, SafeInv, InflightInv
<1> QED BY <1>1, <1>2, <1>3, <1>4, StopStep

LEMMA CrashStep ==
  ASSUME Inv, NEW c \in Clients, Crash(c)
  PROVE  Inv'
<1>1. /\ UNCHANGED <<policySeed, policies, recorded, foreign>>
      /\ UNCHANGED <<known, mint, awaiting, seedSeen, view, probed, target, plan>>
      /\ inflight' = {IF op.client = c THEN [op EXCEPT !.client = "nobody"] ELSE op :
                        op \in inflight}
      /\ pc' = [pc EXCEPT ![c] = "idle"]
  BY DEF Crash
<1>2. faults' \in 0 .. MaxFaults
  <2>1. faults < MaxFaults /\ faults' = faults + 1
    BY DEF Crash
  <2>2. faults \in 0 .. MaxFaults
    BY DEF Inv, TypeOK
  <2> QED BY <2>1, <2>2, Bounds
<1>3. \A op \in inflight :
        /\ [op EXCEPT !.client = "nobody"] \in Operations
        /\ [op EXCEPT !.client = "nobody"].client = "nobody"
        /\ [op EXCEPT !.client = "nobody"].seed = op.seed
        /\ [op EXCEPT !.client = "nobody"].kind = op.kind
  <2> SUFFICES ASSUME NEW op \in Operations
               PROVE  /\ [op EXCEPT !.client = "nobody"] \in Operations
                      /\ [op EXCEPT !.client = "nobody"].client = "nobody"
                      /\ [op EXCEPT !.client = "nobody"].seed = op.seed
                      /\ [op EXCEPT !.client = "nobody"].kind = op.kind
    BY DEF Inv, TypeOK
  <2> QED BY DEF Operations
<1>4. inflight' \subseteq Operations
  <2>1. inflight \subseteq Operations
    BY DEF Inv, TypeOK
  <2> QED BY <1>1, <1>3, <2>1
<1>5. \A op \in inflight' :
        \/ op \in inflight /\ (op.client = c => c \notin Clients)
        \/ /\ op.client = "nobody"
           /\ \E old \in inflight : op.seed = old.seed /\ op.kind = old.kind
  BY <1>1, <1>3
<1> QED BY <1>1, <1>2, <1>4, <1>5, StopStep

LEMMA ForeignStep ==
  ASSUME Inv, Foreign
  PROVE  Inv'
<1> USE DEF Inv, SafeInv
<1>1. /\ policySeed' = policySeed + 1 /\ policySeed < MaxSeed
      /\ policies' = [policies EXCEPT ![policySeed + 1] = "other"]
      /\ foreign < MaxForeign /\ foreign' = foreign + 1
      /\ UNCHANGED <<inflight, recorded, faults>>
      /\ UNCHANGED <<pc, known, mint, awaiting, seedSeen, view, probed, target, plan>>
  BY DEF Foreign, client
<1>2. policySeed \in 0 .. MaxSeed
  BY DEF TypeOK
<1>3. policySeed + 1 \in Seeds
  BY <1>1, <1>2, SeedNumbers DEF Seeds
<1>4. /\ policySeed' \in 0 .. MaxSeed /\ policies' \in [Seeds -> PolicyKinds]
      /\ \A n \in Nat : At(policies, n) # "none" => At(policies', n) = At(policies, n)
      /\ ChainInv' /\ SetupHasRoute'
      /\ \A n \in Seeds : \A v : v \in {"none", policies[n]} => v \in {"none", policies'[n]}
  <2>1. "other" \in PolicyKinds
    BY DEF PolicyKinds
  <2> QED BY <1>1, <1>3, <2>1, NextSeed
<1>5. foreign' \in 0 .. MaxForeign
  <2>1. foreign \in 0 .. MaxForeign
    BY DEF TypeOK
  <2> QED BY <1>1, <2>1, Bounds
<1>6. TypeOK'
  BY <1>1, <1>4, <1>5 DEF TypeOK
<1>7. \A n \in Seeds : n \in Nat /\ (policies[n] \in RouteKinds => policies'[n] \in RouteKinds)
  <2>1. \A n \in Seeds : n \in Nat
    BY SeedNumbers DEF Seeds
  <2> QED BY <1>4, <2>1 DEF At, RouteKinds
<1>8. ViewInv'
  BY <1>1, <1>4 DEF ViewInv
<1>9. TargetInv' /\ PlanInv'
  BY <1>1, <1>7 DEF TargetInv, PlanInv
<1>10. InflightInv'
  <2> SUFFICES ASSUME NEW op \in inflight
               PROVE  op.kind = "setup" => At(policies', op.seed - 1) \in RouteKinds
    BY <1>1 DEF InflightInv
  <2>1. op.seed - 1 \in Nat
    BY SeedNumbers DEF InflightInv, Seeds
  <2> QED BY <1>4, <2>1 DEF InflightInv, RouteKinds
<1>11. ReadyPairExists'
  <2> SUFFICES ASSUME NEW d \in Clients, pc[d] = "ready"
               PROVE  /\ At(policies', target[d]) \in RouteKinds
                      /\ At(policies', target[d] + 1) = "setup"
    BY <1>1 DEF ReadyPairExists, At
  <2>1. target[d] \in 0 .. MaxSeed
    BY DEF TypeOK
  <2>2. target[d] \in Nat /\ target[d] + 1 \in Nat
    BY <2>1, SeedNumbers
  <2> QED BY <1>4, <2>2 DEF ReadyPairExists, RouteKinds
<1> QED BY <1>4, <1>6, <1>8, <1>9, <1>10, <1>11

LEMMA InvHolds == Spec => []Inv
<1>1. Init => Inv
  BY InitType, InitSafe DEF Inv
<1>2. Inv /\ [Next]_vars => Inv'
  <2> SUFFICES ASSUME Inv, [Next]_vars PROVE Inv'
    OBVIOUS
  <2>1. ASSUME NEW c \in Clients, Begin(c) \/ Resolve(c) \/ Crash(c) PROVE Inv'
    BY <2>1, BeginStep, ReadStep, DecideStep, ProbeStep, RecheckStep, SubmitStep, CrashStep
       DEF Resolve
  <2>2. ASSUME NEW op \in inflight, Land(op) \/ Fails(op) \/ Expires(op) PROVE Inv'
    BY <2>2, LandStep, EndStep
  <2>3. ASSUME Foreign PROVE Inv'
    BY <2>3, ForeignStep
  <2>4. ASSUME UNCHANGED vars PROVE Inv'
    BY <2>4 DEF Inv, SafeInv, TypeOK, ChainInv, ViewInv, TargetInv, PlanInv, InflightInv,
                SetupHasRoute, ReadyPairExists, At, vars
  <2> QED BY <2>1, <2>2, <2>3, <2>4 DEF Next
<1> QED BY <1>1, <1>2, PTL DEF Spec

-----------------------------------------------------------------------------
(* What follows.                                                           *)

\* Every variable stays in its range (TypeOK).
THEOREM ResolveTypeCorrect == Spec => []TypeOK
<1>1. Inv => TypeOK
  BY DEF Inv
<1> QED BY <1>1, InvHolds, PTL

\* Whatever races, crashes and late transactions do, a setup policy is the twin
\* of a route (prepareEarnUsdcYieldRoutingPolicy, sent one by one).
THEOREM PairsAreNotTorn == Spec => []SetupHasRoute
<1>1. Inv => SetupHasRoute
  BY DEF Inv, SafeInv
<1> QED BY <1>1, InvHolds, PTL

\* A preparation that succeeds hands out a pair that is on chain
\* (resolveEarnYieldRoutingPolicyForPreparation).
THEOREM ReadyPairsExist == Spec => []ReadyPairExists
<1>1. Inv => ReadyPairExists
  BY DEF Inv, SafeInv
<1> QED BY <1>1, InvHolds, PTL

\* A client gets something to send from Recheck only, or goes on with a plan.
LEMMA OnlyRecheckPlans ==
  ASSUME Inv, [Next]_vars, NEW c \in Clients,
         pc[c] # "execute", pc'[c] = "execute", plan[c] = <<>>
  PROVE  Recheck(c) /\ policySeed = seedSeen[c]
<1>0. pc \in [Clients -> {"idle", "reading", "probe route", "probe setup", "recheck",
                          "execute", "waiting", "ready", "threw"}]
  BY DEF Inv, TypeOK
<1>1. ASSUME NEW d \in Clients, NEW where, where # "execute", pc' = [pc EXCEPT ![d] = where]
      PROVE  FALSE
  BY <1>0, <1>1
<1>2. ASSUME pc' = pc PROVE FALSE
  BY <1>2
<1>3. ASSUME NEW d \in Clients, NEW why, Throw(d, why) PROVE FALSE
  BY <1>1, <1>3 DEF Throw
<1>4. ASSUME NEW d \in Clients, NEW where, NEW t, where # "execute", Advance(d, where, t)
      PROVE  FALSE
  BY <1>1, <1>4 DEF Advance
<1>5. ASSUME NEW d \in Clients, NEW r, UsePair(d, r) \/ CompleteRoute(d, r) PROVE FALSE
  <2>1. \/ \E why : Throw(d, why)
        \/ Advance(d, "ready", r) \/ Advance(d, "recheck", r)
    BY <1>5, Zenon DEF UsePair, CompleteRoute
  <2> QED BY <1>3, <1>4, <2>1
<1>6. ASSUME NEW d \in Clients, NEW k, Reads(d, k) PROVE FALSE
  BY <1>1, <1>6 DEF Reads
<1>7. ASSUME NEW d \in Clients, Begin(d) \/ Crash(d) \/ Submit(d) PROVE FALSE
  <2>1. CASE Begin(d)
    BY <1>6, <2>1 DEF Begin
  <2>2. CASE Crash(d) \/ Submit(d)
    BY <1>1, <2>2 DEF Crash, Submit
  <2> QED BY <1>7, <2>1, <2>2
<1>8. ASSUME NEW d \in Clients, ReadSettings(d) \/ ReadScan(d) \/ ReadKnown(d) PROVE FALSE
  <2>1. \E read : Answer(d, read)
    BY <1>8, Zenon DEF ReadSettings, ReadScan, ReadKnown, ReadAt
  <2> QED BY <1>2, <2>1 DEF Answer
<1>9. ASSUME NEW d \in Clients, DecideKnown(d) \/ ScanThrows(d) PROVE FALSE
  <2>1. \/ \E why : Throw(d, why)
        \/ Reads(d, 0)
        \/ \E r : UsePair(d, r) \/ CompleteRoute(d, r)
    BY <1>9, Zenon DEF DecideKnown, ScanThrows
  <2> QED BY <1>3, <1>5, <1>6, <2>1
<1>10. ASSUME NEW d \in Clients, TryRoute(d) PROVE FALSE
  <2>1. \/ \E why : Throw(d, why)
        \/ \E r : UsePair(d, r)
        \/ UNCHANGED <<chain, faults, pc, known, mint, awaiting, seedSeen, view,
                       target, plan, reason>>
    BY <1>10, Zenon DEF TryRoute
  <2> QED BY <1>2, <1>3, <1>5, <2>1
<1>11. ASSUME NEW d \in Clients, CompleteNewest(d) \/ NoRoute(d) \/ ProbeTarget(d) PROVE FALSE
  <2>1. \/ \E why : Throw(d, why)
        \/ \E r : CompleteRoute(d, r)
        \/ Advance(d, "probe route", 0) \/ Advance(d, "probe setup", 0) \/ Advance(d, "recheck", 0)
    BY <1>11, Zenon DEF CompleteNewest, NoRoute, ProbeTarget
  <2> QED BY <1>3, <1>4, <1>5, <2>1
<1>12. ASSUME NEW d \in Clients, Recheck(d) PROVE Recheck(c) /\ policySeed = seedSeen[c]
  <2>1. policySeed = seedSeen[d]
    BY <1>3, <1>12 DEF Recheck
  <2>2. pc' = [pc EXCEPT ![d] = "execute"]
    BY <1>12, <2>1 DEF Recheck
  <2>3. d = c
    BY <1>0, <2>2
  <2> QED BY <1>12, <2>1, <2>3
<1>13. ASSUME NEW op \in inflight, Land(op) PROVE FALSE
  <2>1. CASE op.client = c
    <3>1. pc[c] \in Acting
      BY <2>1 DEF Inv, SafeInv, InflightInv, Acting
    <3>2. Len(plan[c]) \in {1, 2}
      BY <3>1, HeadOfPlan
    <3>3. Len(plan[c]) = 0
      OBVIOUS
    <3> QED BY <3>2, <3>3
  <2>2. CASE op.client # c
    <3>1. pc'[c] = pc[c]
      BY <1>0, <1>13, <2>2 DEF Land
    <3> QED BY <3>1
  <2> QED BY <2>1, <2>2
<1>14. ASSUME NEW op \in inflight, Fails(op) \/ Expires(op) PROVE FALSE
  <2>1. Sender(op, "failed")
    BY <1>14 DEF Fails, Expires
  <2> QED BY <1>1, <1>2, <2>1 DEF Sender
<1>15. ASSUME Foreign \/ UNCHANGED vars PROVE FALSE
  BY <1>2, <1>15 DEF Foreign, client, vars
<1> QED
  BY <1>7, <1>8, <1>9, <1>10, <1>11, <1>12, <1>13, <1>14, <1>15 DEF Next, Resolve

\* Operations are prepared only for seeds at which the chain has no policy, also
\* when somebody else creates policies between the reads and the plan
\* (resolveEarnYieldRoutingPolicyForCreation reads the Settings once more).
THEOREM PlansAreForAbsentSeeds == Spec => TargetsAbsent
<1>1. ASSUME Inv, [Next]_vars, NEW c \in Clients,
             pc[c] # "execute", pc'[c] = "execute", plan[c] = <<>>
      PROVE  \A i \in DOMAIN plan'[c] : At(policies, plan'[c][i].seed) = "none"
  <2>1. Recheck(c) /\ policySeed = seedSeen[c]
    BY <1>1, OnlyRecheckPlans
  <2>2. /\ target'[c] \in Seeds /\ target'[c] + 1 \in Seeds
        /\ \/ /\ plan'[c] = <<Op(c, target'[c], "route"), Op(c, target'[c] + 1, "setup")>>
              /\ target'[c] > policySeed
           \/ /\ plan'[c] = <<Op(c, target'[c] + 1, "setup")>>
              /\ target'[c] = policySeed
    BY <1>1, <2>1, RecheckPlans
  <2>3. policySeed \in 0 .. MaxSeed
    BY <1>1 DEF Inv, TypeOK
  <2>4. target'[c] + 1 > policySeed /\ target'[c] \in Nat
    BY <2>2, <2>3, SeedNumbers DEF Seeds
  <2>5. /\ At(policies, target'[c] + 1) = "none"
        /\ target'[c] > policySeed => At(policies, target'[c]) = "none"
    BY <1>1, <2>2, <2>4 DEF Inv, SafeInv, ChainInv, At
  <2>6. \A n, k : Op(c, n, k).seed = n
    BY DEF Op
  <2> QED BY <2>2, <2>5, <2>6
<1>2. Inv /\ [Next]_vars =>
        [\A c \in Clients : pc[c] # "execute" /\ pc'[c] = "execute" /\ plan[c] = <<>> =>
           \A i \in DOMAIN plan'[c] : At(policies, plan'[c][i].seed) = "none"]_vars
  BY <1>1
<1> QED BY <1>2, InvHolds, PTL DEF Spec, TargetsAbsent

=============================================================================
