-------------------------- MODULE EarnPolicyResolve --------------------------
(***************************************************************************)
(* Finding or creating the pair of Squads policies an Earn deposit needs:  *)
(* a route policy at seed n and its setup twin at seed n + 1               *)
(* (resolveEarnYieldRoutingPolicyForPreparation and the helpers it calls,  *)
(* packages/smart-account-vaults/src/client.ts).                           *)
(*                                                                         *)
(* Clients prepare concurrently, each with its own reads of the chain;     *)
(* they send what they prepared one operation at a time, crash, and        *)
(* prepare again.  Other owners of the same Settings account create        *)
(* policies of their own.                                                  *)
(***************************************************************************)
EXTENDS Naturals, Sequences, FiniteSets

CONSTANTS
  Clients,
  MaxSeed,      \* bound: policy seeds ever used
  MaxForeign,   \* bound: policies created by others
  MaxFaults,    \* bound: crashes and expired transactions
  Mints,        \* token programs of the deposits: subset of AllMints
  InitialKinds  \* what a legacy version may have left at seed 1 and 2

AllMints == {"classic", "token_2022"}
RouteKinds == {"route", "legacy"}
\* "odd": the state of an Earn policy with other signers, threshold or timelock.
\* "other": a policy the scan skips.
PolicyKinds == RouteKinds \cup {"none", "setup", "odd", "other"}
Seeds == 1 .. MaxSeed

ASSUME ResolveAssumption ==
  /\ MaxSeed \in Nat /\ MaxForeign \in Nat /\ MaxFaults \in Nat
  /\ Mints \subseteq AllMints
  /\ "nobody" \notin Clients
  /\ \A old \in InitialKinds :
       /\ old \in Seq(PolicyKinds) /\ Len(old) <= MaxSeed
       /\ \A n \in 1 .. Len(old) :
            old[n] = "setup" => n > 1 /\ old[n - 1] \in RouteKinds

VARIABLES
  policySeed,  \* Settings.policySeed: the last seed used
  policies,    \* the policy account of every seed
  inflight,    \* PolicyCreate transactions the network has
  recorded,    \* route seeds the control plane has been told of
  foreign, faults,
  pc, known, mint,   \* of each client: where it is, its knownRoute, its deposit
  awaiting,    \* reads started and not answered yet
  seedSeen,    \* currentPolicySeed
  view,        \* the policies it has read
  probed,      \* routes without a setup, confirmed by a direct read
  target,      \* the route to complete, 0 to create a pair
  plan,        \* operations prepared and not confirmed yet
  reason       \* why it threw

chain == <<policySeed, policies, inflight, recorded, foreign>>
client == <<pc, known, mint, awaiting, seedSeen, view, probed, target, plan, reason>>
vars == <<policySeed, policies, inflight, recorded, foreign, faults, pc, known, mint,
          awaiting, seedSeen, view, probed, target, plan, reason>>

Operations == [client : Clients \cup {"nobody"}, seed : Nat, kind : {"route", "setup"}]
Nothing == [n \in Seeds |-> "none"]
At(p, n) == IF n \in Seeds THEN p[n] ELSE "none"

Init ==
  /\ \E old \in InitialKinds :
       /\ policySeed = Len(old)
       /\ policies = [n \in Seeds |-> IF n <= Len(old) THEN old[n] ELSE "none"]
  /\ inflight = {} /\ recorded = {} /\ foreign = 0 /\ faults = 0
  /\ pc = [c \in Clients |-> "idle"]
  /\ known = [c \in Clients |-> 0]
  /\ mint = [c \in Clients |-> "classic"]
  /\ awaiting = [c \in Clients |-> {}]
  /\ seedSeen = [c \in Clients |-> 0]
  /\ view = [c \in Clients |-> Nothing]
  /\ probed = [c \in Clients |-> {}]
  /\ target = [c \in Clients |-> 0]
  /\ plan = [c \in Clients |-> <<>>]
  /\ reason = [c \in Clients |-> "none"]

-----------------------------------------------------------------------------
(* Reading the chain.                                                      *)

Reads(c, k) ==
  /\ known' = [known EXCEPT ![c] = k]
  /\ awaiting' = [awaiting EXCEPT ![c] = IF k = 0 THEN {"settings", "scan"}
                                         ELSE {"settings", "route", "setup"}]
  /\ view' = [view EXCEPT ![c] = Nothing]
  /\ pc' = [pc EXCEPT ![c] = "reading"]

Begin(c) ==
  /\ pc[c] \in {"idle", "ready", "threw"}
  /\ \E k \in recorded \cup {0}, m \in Mints :
       Reads(c, k) /\ mint' = [mint EXCEPT ![c] = m]
  /\ seedSeen' = [seedSeen EXCEPT ![c] = 0]
  /\ probed' = [probed EXCEPT ![c] = {}]
  /\ target' = [target EXCEPT ![c] = 0]
  /\ plan' = [plan EXCEPT ![c] = <<>>]
  /\ reason' = [reason EXCEPT ![c] = "none"]
  /\ UNCHANGED <<chain, faults>>

Answer(c, read) ==
  /\ pc[c] = "reading" /\ read \in awaiting[c]
  /\ awaiting' = [awaiting EXCEPT ![c] = @ \ {read}]
  /\ UNCHANGED <<chain, faults, pc, known, mint, probed, target, plan, reason>>

\* fetchSettings, listRawPolicies and fetchRawPolicyAtAddress run concurrently:
\* each answers with the chain of its own moment.
ReadSettings(c) ==
  /\ Answer(c, "settings") /\ seedSeen' = [seedSeen EXCEPT ![c] = policySeed]
  /\ UNCHANGED view

ReadScan(c) ==
  /\ Answer(c, "scan") /\ view' = [view EXCEPT ![c] = policies]
  /\ UNCHANGED seedSeen

ReadAt(c, read, n) ==
  /\ Answer(c, read)
  /\ view' = [view EXCEPT ![c] = [m \in Seeds |-> IF m = n THEN At(policies, n) ELSE @[m]]]
  /\ UNCHANGED seedSeen

ReadKnown(c) == ReadAt(c, "route", known[c]) \/ ReadAt(c, "setup", known[c] + 1)

-----------------------------------------------------------------------------
(* Deciding.                                                               *)

Throw(c, why) ==
  /\ pc' = [pc EXCEPT ![c] = "threw"]
  /\ reason' = [reason EXCEPT ![c] = why]
  /\ UNCHANGED <<chain, faults, known, mint, awaiting, seedSeen, view, probed, target, plan>>

Advance(c, where, t) ==
  /\ pc' = [pc EXCEPT ![c] = where]
  /\ target' = [target EXCEPT ![c] = t]
  /\ UNCHANGED <<chain, faults, known, mint, awaiting, seedSeen, view, probed, plan, reason>>

\* assertEarnPolicySupportsTokenProgram
Supports(c, r) == ~ (view[c][r] = "legacy" /\ mint[c] = "token_2022")

UsePair(c, r) ==
  IF Supports(c, r) THEN Advance(c, "ready", r) ELSE Throw(c, "capability")

\* A route without its setup can be completed only at the current seed.
CompleteRoute(c, r) ==
  IF ~Supports(c, r) THEN Throw(c, "capability")
  ELSE IF seedSeen[c] # r THEN Throw(c, "advanced")
  ELSE Advance(c, "recheck", r)

Decided(c) == pc[c] = "reading" /\ awaiting[c] = {}

\* The route the control plane knows: validated directly.
DecideKnown(c) ==
  LET k == known[c]
      setup == At(view[c], k + 1)
  IN  /\ Decided(c) /\ k # 0
      /\ IF view[c][k] = "none"
         THEN /\ Reads(c, 0)
              /\ UNCHANGED <<chain, faults, mint, seedSeen, probed, target, plan, reason>>
         ELSE IF view[c][k] \notin RouteKinds \/ setup \notin {"none", "setup"}
         THEN Throw(c, "noncanonical")
         ELSE IF setup = "setup" THEN UsePair(c, k) ELSE CompleteRoute(c, k)

Routes(c) == {n \in Seeds : view[c][n] \in RouteKinds}
Setups(c) == {n \in Seeds : view[c][n] = "setup"}

\* sortedRoutes: compatible routes before legacy ones, then the highest seed.
Before(c, r, s) ==
  IF view[c][r] = view[c][s] THEN r > s ELSE view[c][r] = "route"
IsFirst(c, r, rs) == r \in rs /\ \A s \in rs \ {r} : Before(c, r, s)

Scanned(c) ==
  /\ Decided(c) /\ known[c] = 0
  /\ \A n \in Seeds : view[c][n] # "odd"

\* assertRoute or assertSetup fails for one of the scanned policies.
ScanThrows(c) ==
  /\ Decided(c) /\ known[c] = 0 /\ \E n \in Seeds : view[c][n] = "odd"
  /\ Throw(c, "noncanonical")

\* Mutant: any setup policy will do.
TryRouteAnySetup(c) ==
  \E r \in Routes(c) :
    /\ Scanned(c) /\ IsFirst(c, r, Routes(c) \ probed[c])
    /\ IF Setups(c) # {} THEN UsePair(c, r)
       ELSE /\ probed' = [probed EXCEPT ![c] = @ \cup {r}]
            /\ UNCHANGED <<chain, faults, pc, known, mint, awaiting, seedSeen, view,
                           target, plan, reason>>

\* The loop over sortedRoutes: a complete pair is used, a route without a
\* scanned setup has its setup account read directly.
TryRoute(c) ==
  \E r \in Routes(c) :
    /\ Scanned(c) /\ IsFirst(c, r, Routes(c) \ probed[c])
    /\ IF At(view[c], r + 1) = "setup" THEN UsePair(c, r)
       ELSE IF At(policies, r + 1) # "none" THEN Throw(c, "occupied")
       ELSE /\ probed' = [probed EXCEPT ![c] = @ \cup {r}]
            /\ UNCHANGED <<chain, faults, pc, known, mint, awaiting, seedSeen, view,
                           target, plan, reason>>

CompleteNewest(c) ==
  /\ Scanned(c) /\ Routes(c) \subseteq probed[c]
  /\ \E r \in Routes(c) : IsFirst(c, r, Routes(c)) /\ CompleteRoute(c, r)

NoRoute(c) ==
  /\ Scanned(c) /\ Routes(c) = {}
  /\ IF Setups(c) # {} THEN Throw(c, "orphan setup") ELSE Advance(c, "probe route", 0)

\* Both target accounts are read, the route's first.
ProbeTarget(c) ==
  \/ /\ pc[c] = "probe route"
     /\ IF At(policies, seedSeen[c] + 1) # "none"
        THEN Throw(c, "occupied") ELSE Advance(c, "probe setup", 0)
  \/ /\ pc[c] = "probe setup"
     /\ IF At(policies, seedSeen[c] + 2) # "none"
        THEN Throw(c, "occupied") ELSE Advance(c, "recheck", 0)

Op(c, n, k) == [client |-> c, seed |-> n, kind |-> k]

\* Mutant: the Settings account is not read again.
RecheckNothing(c) ==
  /\ pc[c] = "recheck" /\ seedSeen[c] + 2 <= MaxSeed
  /\ plan' = [plan EXCEPT ![c] =
                IF target[c] # 0 THEN <<Op(c, target[c] + 1, "setup")>>
                ELSE <<Op(c, seedSeen[c] + 1, "route"), Op(c, seedSeen[c] + 2, "setup")>>]
  /\ target' = [target EXCEPT ![c] = IF @ # 0 THEN @ ELSE seedSeen[c] + 1]
  /\ pc' = [pc EXCEPT ![c] = "execute"]
  /\ UNCHANGED <<chain, faults, known, mint, awaiting, seedSeen, view, probed, reason>>

\* The Settings account is read again; the operations are prepared only when
\* its seed has not moved.
Recheck(c) ==
  /\ pc[c] = "recheck"
  /\ IF policySeed # seedSeen[c] THEN Throw(c, "changed")
     ELSE /\ seedSeen[c] + 2 <= MaxSeed
          /\ plan' = [plan EXCEPT ![c] =
                IF target[c] # 0 THEN <<Op(c, target[c] + 1, "setup")>>
                ELSE <<Op(c, seedSeen[c] + 1, "route"), Op(c, seedSeen[c] + 2, "setup")>>]
          /\ target' = [target EXCEPT ![c] = IF @ # 0 THEN @ ELSE seedSeen[c] + 1]
          /\ pc' = [pc EXCEPT ![c] = "execute"]
          /\ UNCHANGED <<chain, faults, known, mint, awaiting, seedSeen, view, probed, reason>>

-----------------------------------------------------------------------------
(* Executing, with sendMode sign-and-confirm-each.                         *)

\* Mutant: every operation is sent before any is confirmed.
SubmitAll(c) ==
  /\ pc[c] = "execute"
  /\ inflight' = inflight \cup {plan[c][i] : i \in DOMAIN plan[c]}
  /\ pc' = [pc EXCEPT ![c] = "waiting"]
  /\ UNCHANGED <<policySeed, policies, recorded, foreign, faults, known, mint, awaiting,
                 seedSeen, view, probed, target, plan, reason>>

Submit(c) ==
  /\ pc[c] = "execute"
  /\ inflight' = inflight \cup {Head(plan[c])}
  /\ pc' = [pc EXCEPT ![c] = "waiting"]
  /\ UNCHANGED <<policySeed, policies, recorded, foreign, faults, known, mint, awaiting,
                 seedSeen, view, probed, target, plan, reason>>

\* The program creates a policy only at the seed after Settings.policySeed.
Land(op) ==
  /\ op.seed = policySeed + 1
  /\ policySeed' = op.seed
  /\ policies' = [policies EXCEPT ![op.seed] = op.kind]
  /\ inflight' = inflight \ {op}
  /\ IF op.client \in Clients
     THEN LET c == op.client IN
          /\ plan' = [plan EXCEPT ![c] = Tail(@)]
          /\ pc' = [pc EXCEPT ![c] = IF Len(plan[c]) = 1 THEN "ready" ELSE "execute"]
          \* onTransactionConfirmed tells the control plane, or fails to
          /\ recorded' \in {recorded, recorded \cup ({op.seed} \ {n \in Seeds : op.kind = "setup"})}
     ELSE UNCHANGED <<plan, pc, recorded>>
  /\ UNCHANGED <<foreign, faults, known, mint, awaiting, seedSeen, view, probed, target, reason>>

Sender(op, why) ==
  /\ inflight' = inflight \ {op}
  /\ IF op.client \in Clients
     THEN /\ pc' = [pc EXCEPT ![op.client] = "threw"]
          /\ reason' = [reason EXCEPT ![op.client] = why]
     ELSE UNCHANGED <<pc, reason>>
  /\ UNCHANGED <<policySeed, policies, recorded, foreign, known, mint, awaiting, seedSeen,
                 view, probed, target, plan>>

\* Its seed has been used meanwhile.
Fails(op) == op.seed # policySeed + 1 /\ Sender(op, "failed") /\ UNCHANGED faults

Expires(op) ==
  /\ faults < MaxFaults /\ faults' = faults + 1
  /\ Sender(op, "failed")

\* The client stops: a reload, or an unresolved confirmation.  What it sent
\* stays with the network.
Crash(c) ==
  /\ faults < MaxFaults /\ faults' = faults + 1
  /\ pc[c] \notin {"idle", "ready", "threw"}
  /\ pc' = [pc EXCEPT ![c] = "idle"]
  /\ inflight' = {IF op.client = c THEN [op EXCEPT !.client = "nobody"] ELSE op : op \in inflight}
  /\ UNCHANGED <<policySeed, policies, recorded, foreign, known, mint, awaiting, seedSeen,
                 view, probed, target, plan, reason>>

\* Another operation on the Settings account creates an unrelated policy.
Foreign ==
  /\ foreign < MaxForeign /\ foreign' = foreign + 1
  /\ policySeed < MaxSeed /\ policySeed' = policySeed + 1
  /\ policies' = [policies EXCEPT ![policySeed'] = "other"]
  /\ UNCHANGED <<inflight, recorded, faults, client>>

Resolve(c) ==
  \/ ReadSettings(c) \/ ReadScan(c) \/ ReadKnown(c) \/ DecideKnown(c) \/ ScanThrows(c)
  \/ TryRoute(c) \/ CompleteNewest(c) \/ NoRoute(c) \/ ProbeTarget(c) \/ Recheck(c)
  \/ Submit(c)

Next ==
  \/ \E c \in Clients : Begin(c) \/ Resolve(c) \/ Crash(c)
  \/ \E op \in inflight : Land(op) \/ Fails(op) \/ Expires(op)
  \/ Foreign

Spec == Init /\ [][Next]_vars

\* A client that threw or crashed is run again, its awaits settle, and the
\* network decides every transaction it has.
Retry(c) == pc[c] \in {"idle", "threw"} /\ Begin(c)
Settles == \E op \in inflight : Land(op) \/ Fails(op)
FairSpec == Spec /\ WF_vars(Settles) /\ \A c \in Clients : WF_vars(Resolve(c)) /\ WF_vars(Retry(c))

-----------------------------------------------------------------------------
(* Properties.                                                             *)

\* Every variable stays in its range.
TypeOK ==
  /\ policySeed \in 0 .. MaxSeed /\ policies \in [Seeds -> PolicyKinds]
  /\ inflight \subseteq Operations /\ recorded \subseteq Seeds
  /\ foreign \in 0 .. MaxForeign /\ faults \in 0 .. MaxFaults
  /\ pc \in [Clients -> {"idle", "reading", "probe route", "probe setup", "recheck",
                         "execute", "waiting", "ready", "threw"}]
  /\ known \in [Clients -> 0 .. MaxSeed] /\ mint \in [Clients -> AllMints]
  /\ awaiting \in [Clients -> SUBSET {"settings", "scan", "route", "setup"}]
  /\ seedSeen \in [Clients -> 0 .. MaxSeed] /\ view \in [Clients -> [Seeds -> PolicyKinds]]
  /\ probed \in [Clients -> SUBSET Seeds] /\ target \in [Clients -> 0 .. MaxSeed]
  /\ plan \in [Clients -> Seq(Operations)]

\* Whatever races, crashes and late transactions do, a setup policy of this code
\* is the twin of a route: the seeds of a pair are never torn apart.
SetupHasRoute ==
  \A n \in Seeds : policies[n] = "setup" => At(policies, n - 1) \in RouteKinds

\* A preparation that succeeds hands the deposit a pair that is on chain.
ReadyPairExists ==
  \A c \in Clients : pc[c] = "ready" =>
    /\ At(policies, target[c]) \in RouteKinds
    /\ At(policies, target[c] + 1) = "setup"

\* Operations are prepared only for seeds at which the chain has no policy at
\* that moment ("create only after authoritative reads prove the target absent").
TargetsAbsent ==
  [][\A c \in Clients : pc[c] # "execute" /\ pc'[c] = "execute" /\ plan[c] = <<>> =>
       \A i \in DOMAIN plan'[c] : At(policies, plan'[c][i].seed) = "none"]_vars

\* A client that keeps retrying ends with a usable pair.
EventuallyReady == \A c \in Clients : <>(pc[c] = "ready")
=============================================================================
