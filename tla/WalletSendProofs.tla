-------------------------- MODULE WalletSendProofs --------------------------
(***************************************************************************)
(* What holds of WalletSend for every number of operations and attempts.   *)
(* The at-most-once guarantee needs what the counterexamples of the runs   *)
(* show it needs: no send-all-before-confirm call, a wallet that signs but *)
(* does not broadcast, and errors that no fork takes back.                 *)
(***************************************************************************)
EXTENDS WalletSend, TLAPS

CarefulUse ==
  /\ "send-all-before-confirm" \notin Modes
  /\ Wallets \subseteq {"signs"}
  /\ ErrorsAreFinal

Unsent == {"absent", "signed", "expired"}

\* The call never waits for two operations at once.
CallInv ==
  /\ call.mode # "send-all-before-confirm"
  /\ call.wallet = "signs"
  /\ sendFailure = NoFailure
  /\ answer = "running" => failure = NoFailure
  /\ answer = "running" =>
       \A o \in Prepared : phase[o] \notin {"start", "signed"} =>
         \A p \in Earlier(o) : phase[p] = "done"

\* Transactions other than the current one can no longer take effect.
HistoryInv ==
  \A o \in Ops : \A k \in 1 .. MaxAttempts :
    /\ k < attempt[o] => ledger[<<o, k>>] \in Dead
    /\ k > attempt[o] => ledger[<<o, k>>] = "absent"

\* What the caller does not know of, and the call is not about to reconcile,
\* cannot take effect either.
Known(o) ==
  \/ ledger[Cur(o)] \in Dead
  \/ Cur(o) \in sent
  \/ Doubtful(o)
  \/ answer = "running" /\ o \in Prepared /\ phase[o] \in {"lost", "sent"}

KnowledgeInv == \A o \in Ops : attempt[o] > 0 => Known(o)

PhaseInv ==
  answer = "running" =>
    \A o \in Prepared : phase[o] \in {"start", "signed", "recorded", "refused"} =>
      ledger[Cur(o)] \in Unsent

ReportInv ==
  answer = "threw" /\ failure.kind \in {"rejected", "preflight", "failed"}
    /\ failure.op \in Ops => ledger[Cur(failure.op)] \in Dead

\* Doubts are about transactions of earlier calls.
DoubtInv ==
  /\ \A o \in Prepared : Cur(o) \notin doubt
  /\ \A t \in doubt : t[2] <= attempt[t[1]]

\* The call works on the operations it was given, each with a transaction.
PreparedInv ==
  /\ \A o \in Ops : phase[o] # "idle" => o \in Prepared
  /\ \A o \in Prepared : attempt[o] > 0
  /\ failure.op \in Ops => failure.op \in Prepared
  /\ sendFailure.op \in Ops => sendFailure.op \in Prepared

TInv == TypeOK /\ PreparedInv

IInv == CallInv /\ HistoryInv /\ KnowledgeInv /\ PhaseInv /\ ReportInv /\ DoubtInv

-----------------------------------------------------------------------------
(* Type correctness, for all constants.                                    *)

\* A prepared operation's current transaction is a transaction.
LEMMA CurIsTx ==
  ASSUME TInv, NEW o \in Prepared
  PROVE  o \in Ops /\ Cur(o) \in Txs
BY SendAssumption DEF TInv, TypeOK, PreparedInv, Prepared, Cur, Txs, Ops

\* The steps of the call on one operation keep every variable in its range.
LEMMA CodeStepType ==
  ASSUME TInv, NEW o \in Ops, CodeStep(o)
  PROVE  TInv'
<1> USE SendAssumption DEF TInv
<1>0. o \in Prepared
  BY DEF CodeStep, SignOne, Decline, WalletSends, RecordClaim, RefuseClaim,
     SendAccepted, SendRefused, SendLost, ReconcileSend, NotifySent, ConfirmationArrives,
     ConfirmationLost, ReconcileConfirm, NotifyConfirmed, Turn, ReadyToSend, PreparedInv
<1>1. Cur(o) \in Txs
  BY <1>0, CurIsTx
<1>2. CASE SignOne(o)
  BY <1>0, <1>1, <1>2 DEF SignOne, Goto, TypeOK, PreparedInv, Prepared, Phases, Statuses, callerVars
<1>3. CASE Decline(o)
  BY <1>0, <1>1, <1>3 DEF Decline, Fail, TypeOK, PreparedInv, Prepared, Phases, Failures, Kinds, Ops, callerVars
<1>4. CASE WalletSends(o)
  BY <1>0, <1>1, <1>4 DEF WalletSends, Goto, Fail, TypeOK, PreparedInv, Prepared, Phases, Failures, Kinds, Ops, Statuses, callerVars
<1>5. CASE RecordClaim(o)
  BY <1>0, <1>1, <1>5 DEF RecordClaim, Goto, TypeOK, PreparedInv, Prepared, Phases
<1>6. CASE RefuseClaim(o)
  BY <1>0, <1>1, <1>6 DEF RefuseClaim, Fail, TypeOK, PreparedInv, Prepared, Phases, Failures, Kinds, Ops, callerVars
<1>7. CASE SendAccepted(o)
  BY <1>0, <1>1, <1>7 DEF SendAccepted, Broadcast, Goto, TypeOK, PreparedInv, Prepared, Phases, Statuses, callerVars
<1>8. CASE SendRefused(o)
  BY <1>0, <1>1, <1>8 DEF SendRefused, Goto, TypeOK, PreparedInv, Prepared, Phases, callerVars
<1>9. CASE SendLost(o)
  BY <1>0, <1>1, <1>9 DEF SendLost, Broadcast, Goto, TypeOK, PreparedInv, Prepared, Phases, Statuses, callerVars
<1>10. CASE ReconcileSend(o)
  BY <1>0, <1>1, <1>10 DEF ReconcileSend, FailSend, Fail, Goto, TypeOK, PreparedInv, Prepared, Phases, Failures, Kinds, Ops, callerVars
<1>11. CASE NotifySent(o)
  BY <1>0, <1>1, <1>11 DEF NotifySent, AfterSent, Fail, Goto, TypeOK, PreparedInv, Prepared, Phases, Failures, Kinds, Ops
<1>12. CASE ConfirmationArrives(o)
  BY <1>0, <1>1, <1>12 DEF ConfirmationArrives, Goto, TypeOK, PreparedInv, Prepared, Phases, callerVars
<1>13. CASE ConfirmationLost(o)
  BY <1>0, <1>1, <1>13 DEF ConfirmationLost, Goto, TypeOK, PreparedInv, Prepared, Phases, callerVars
<1>14. CASE ReconcileConfirm(o)
  <2>1. \/ FailConfirmation(o, "failed") \/ FailConfirmation(o, "unresolved")
        \/ Goto(o, "notify")
    BY <1>14 DEF ReconcileConfirm
  <2>2. UNCHANGED <<ledger, sent, recorded, claims, doubt>>
    BY <1>14 DEF ReconcileConfirm, callerVars
  <2>3. ASSUME NEW kind \in Kinds, FailConfirmation(o, kind)
        PROVE  TInv'
    BY <1>0, <2>2, <2>3 DEF FailConfirmation, Fail, TypeOK, PreparedInv, Prepared,
       Phases, Failures, Ops
  <2>4. CASE Goto(o, "notify")
    BY <1>0, <2>2, <2>4 DEF Goto, TypeOK, PreparedInv, Prepared, Phases
  <2>5. QED
    BY <2>1, <2>3, <2>4 DEF Kinds
<1>15. CASE NotifyConfirmed(o)
  BY <1>0, <1>1, <1>15 DEF NotifyConfirmed, FailConfirmation, Fail, Goto, TypeOK, PreparedInv, Prepared, Phases, Failures, Kinds, Ops
<1>16. QED
  BY <1>2, <1>3, <1>4, <1>5, <1>6, <1>7, <1>8, <1>9, <1>10, <1>11, <1>12, <1>13,
     <1>14, <1>15 DEF CodeStep

\* A call's start keeps every variable in its range.
LEMMA StartCallType ==
  ASSUME TInv, StartCall
  PROVE  TInv'
<1> USE SendAssumption DEF TInv
<1>1. PICK m \in Modes, c \in Confirms, w \in Wallets, ops \in (SUBSET Ops) \ {{}} :
        /\ \A o \in ops : attempt[o] < MaxAttempts
        /\ call' = [mode |-> m, confirm |-> c, wallet |-> w, ops |-> ops]
        /\ attempt' = [o \in Ops |-> IF o \in ops THEN attempt[o] + 1 ELSE attempt[o]]
        /\ phase' = [o \in Ops |-> IF o \in ops THEN "start" ELSE "idle"]
        /\ \/ answer' = "threw" /\ failure' = [op |-> 0, kind |-> "rejected"]
           \/ answer' = "running" /\ failure' = NoFailure
  BY DEF StartCall
<1>2. call' \in [mode : SequentialModes \cup BatchModes, confirm : ConfirmArgs,
                 wallet : {"signs", "sends"}, ops : SUBSET Ops]
  BY <1>1
<1>3. attempt' \in [Ops -> 0 .. MaxAttempts]
  BY <1>1 DEF TypeOK
<1>4. phase' \in [Ops -> Phases]
  BY <1>1 DEF Phases
<1>5. failure' \in Failures /\ failure'.op \notin Ops /\ sendFailure' \in Failures
        /\ sendFailure'.op \notin Ops /\ answer' \in {"running", "threw"}
  BY <1>1 DEF StartCall, NoFailure, Failures, Kinds, Ops
<1>6. doubt' \subseteq Txs
  <2>1. \A p \in Ops : Reported(p, "unresolved") => Cur(p) \in Txs
    BY CurIsTx DEF Reported, PreparedInv, TypeOK, Failures
  <2>2. QED
    BY <2>1 DEF StartCall, TypeOK
<1>7. UNCHANGED <<ledger, sent, recorded, claims>>
  BY DEF StartCall
<1>8. TypeOK'
  BY <1>2, <1>3, <1>4, <1>5, <1>6, <1>7 DEF TypeOK
<1>9. PreparedInv'
  BY <1>1, <1>5 DEF PreparedInv, Prepared, TypeOK
<1>10. QED
  BY <1>8, <1>9

\* The initial states and every step satisfy the type invariant.
LEMMA TypeInductive ==
  /\ Init => TInv
  /\ TInv /\ [Next]_vars => TInv'
<1> USE SendAssumption DEF TInv
<1>1. Init => TInv
  BY DEF Init, TypeOK, PreparedInv, Prepared, NoFailure, Failures, Kinds, Phases,
     Statuses, SequentialModes, BatchModes, ConfirmArgs, Ops, Txs
<1>2. ASSUME TInv, [Next]_vars
      PROVE  TInv'
  <2>1. CASE StartCall
    BY <1>2, <2>1, StartCallType
  <2>2. CASE SignAll
    BY <1>2, <2>2 DEF SignAll, TypeOK, PreparedInv, Prepared, Phases, Statuses, callerVars
  <2>3. CASE DeclineAll
    BY <1>2, <2>3 DEF DeclineAll, TypeOK, PreparedInv, Prepared, Failures, Kinds, Ops, callerVars
  <2>4. CASE Settle
    BY <1>2, <2>4 DEF Settle, TypeOK, PreparedInv, Prepared, callerVars
  <2>5. CASE \E o \in Ops : CodeStep(o)
    BY <1>2, <2>5, CodeStepType
  <2>6. CASE \E t \in Txs : Cluster(t) \/ Fork(t)
    BY <1>2, <2>6 DEF Cluster, Transition, Fork, TypeOK, PreparedInv, Prepared, Statuses,
       codeVars, callerVars
  <2>7. CASE UNCHANGED vars
    BY <1>2, <2>7 DEF vars, TypeOK, PreparedInv, Prepared
  <2>8. QED
    BY <1>2, <2>1, <2>2, <2>3, <2>4, <2>5, <2>6, <2>7 DEF Next, BatchStep
<1>3. QED
  BY <1>1, <1>2

\* Every variable stays in its range, whatever the modes, the wallets and the
\* cluster do.
THEOREM TypeCorrect == Spec => []TypeOK
<1>1. TInv => TypeOK
  BY DEF TInv
<1>2. QED
  BY <1>1, TypeInductive, PTL DEF Spec
-----------------------------------------------------------------------------
(* At most once, under careful use.                                        *)

\* A step of the call on one operation leaves the others' phases and all other
\* transactions alone.
LEMMA CodeStepFrame ==
  ASSUME TInv, NEW o \in Ops, CodeStep(o)
  PROVE  /\ o \in Prepared /\ answer = "running"
         /\ UNCHANGED <<call, attempt, doubt>> /\ sent \subseteq sent'
         /\ \A p \in Ops \ {o} : phase'[p] = phase[p]
         /\ \A t \in Txs \ {Cur(o)} : ledger'[t] = ledger[t]
<1> USE DEF TInv, TypeOK, PreparedInv, Goto, Fail, callerVars
<1>1. CASE SignOne(o)
  BY <1>1 DEF SignOne, Turn
<1>2. CASE Decline(o)
  BY <1>2 DEF Decline, Turn
<1>3. CASE WalletSends(o)
  BY <1>3 DEF WalletSends, Turn
<1>4. CASE RecordClaim(o)
  BY <1>4 DEF RecordClaim, Turn
<1>5. CASE RefuseClaim(o)
  BY <1>5 DEF RefuseClaim, Turn
<1>6. CASE SendAccepted(o)
  BY <1>6 DEF SendAccepted, ReadyToSend, Broadcast
<1>7. CASE SendRefused(o)
  BY <1>7 DEF SendRefused, ReadyToSend
<1>8. CASE SendLost(o)
  BY <1>8 DEF SendLost, ReadyToSend, Broadcast
<1>9. CASE ReconcileSend(o)
  BY <1>9 DEF ReconcileSend, FailSend
<1>10. CASE NotifySent(o)
  BY <1>10 DEF NotifySent
<1>11. CASE ConfirmationArrives(o)
  BY <1>11 DEF ConfirmationArrives, Confirming
<1>12. CASE ConfirmationLost(o)
  BY <1>12 DEF ConfirmationLost, Confirming
<1>13. CASE ReconcileConfirm(o)
  BY <1>13 DEF ReconcileConfirm, FailConfirmation
<1>14. CASE NotifyConfirmed(o)
  BY <1>14 DEF NotifyConfirmed, Confirming, FailConfirmation
<1>15. QED
  BY <1>1, <1>2, <1>3, <1>4, <1>5, <1>6, <1>7, <1>8, <1>9, <1>10, <1>11, <1>12, <1>13, <1>14 DEF CodeStep

\* While one operation is past its signature, or has its turn, no other one has
\* an outcome the call still has to reconcile.
LEMMA Alone ==
  ASSUME TInv, CallInv, answer = "running", NEW o \in Prepared, NEW p \in Prepared \ {o},
         phase[o] # "done",
         \/ phase[o] \notin {"start", "signed"}
         \/ \A q \in Earlier(o) : phase[q] = "done"
  PROVE  phase[p] \notin {"lost", "sent"}
<1>1. o \in Nat /\ p \in Nat
  BY SendAssumption DEF TInv, TypeOK, Prepared, Ops
<1>2. p < o \/ o < p
  BY <1>1
<1>3. CASE p < o
  BY <1>3 DEF CallInv, Earlier
<1>4. CASE o < p
  BY <1>4 DEF CallInv, Earlier
<1>5. QED
  BY <1>2, <1>3, <1>4

\* The steps of the call on one operation preserve the invariant.
LEMMA CodeStepSafe ==
  ASSUME CarefulUse, TInv, IInv, NEW o \in Ops, CodeStep(o)
  PROVE  IInv'
<1> USE SendAssumption
<1>1. /\ o \in Prepared /\ answer = "running"
      /\ UNCHANGED <<call, attempt, doubt>> /\ sent \subseteq sent'
      /\ \A p \in Ops \ {o} : phase'[p] = phase[p]
      /\ \A t \in Txs \ {Cur(o)} : ledger'[t] = ledger[t]
  BY CodeStepFrame
<1>2. Cur(o) \in Txs /\ TInv'
  BY <1>1, CurIsTx, CodeStepType
<1>3. ~SendAll /\ call.wallet = "signs"
  BY DEF IInv, CallInv, SendAll
<1>4. HistoryInv'
  <2>1. ASSUME NEW p \in Ops, NEW k \in 1 .. MaxAttempts, k # attempt[p]
        PROVE  ledger'[<<p, k>>] = ledger[<<p, k>>]
    BY <1>1, <2>1 DEF Cur, Txs
  <2>2. \A p \in Ops : attempt[p] \in Nat
    BY DEF TInv, TypeOK
  <2>3. ASSUME NEW p \in Ops, NEW k \in 1 .. MaxAttempts
        PROVE  /\ k < attempt[p] => ledger'[<<p, k>>] \in Dead
               /\ k > attempt[p] => ledger'[<<p, k>>] = "absent"
    <3>1. /\ k < attempt[p] => ledger[<<p, k>>] \in Dead
          /\ k > attempt[p] => ledger[<<p, k>>] = "absent"
      BY DEF IInv, HistoryInv
    <3>2. k < attempt[p] \/ k > attempt[p] => k # attempt[p]
      BY <2>2
    <3>3. QED
      BY <2>1, <3>1, <3>2
  <2>4. QED
    BY <1>1, <2>3 DEF HistoryInv
<1>5. DoubtInv'
  BY <1>1 DEF IInv, DoubtInv, Prepared, Cur
<1>6. /\ CallInv' /\ PhaseInv' /\ ReportInv' /\ Known(o)'
      /\ answer' = "running" \/ \A p \in Prepared \ {o} : phase[p] \notin {"lost", "sent"}
  <2>1. CASE SignOne(o)
    <3>1. CallInv'
      BY <1>1, <1>2, <1>3, <2>1 DEF SignOne, Goto, IInv, TInv, TypeOK, Cur, Prepared, Turn, callerVars, CallInv, Earlier
    <3>2. PhaseInv'
      BY <1>1, <1>2, <1>3, <2>1 DEF SignOne, Goto, IInv, TInv, TypeOK, Cur, Prepared, Turn, callerVars, PhaseInv, CallInv, Unsent, Batched
    <3>3. ReportInv'
      BY <1>1, <1>2, <1>3, <2>1 DEF SignOne, Goto, IInv, TInv, TypeOK, Cur, Prepared, Turn, callerVars, ReportInv, CallInv, PhaseInv, Unsent, Dead, CarefulUse
    <3>4. Known(o)'
      BY <1>1, <1>2, <1>3, <2>1 DEF SignOne, Goto, IInv, TInv, TypeOK, Cur, Prepared, Turn, callerVars, KnowledgeInv, Known, CallInv, PhaseInv, Unsent, Dead, CarefulUse, Doubtful, Reported, PreparedInv
    <3>5. answer' = "running" \/ \A p \in Prepared \ {o} : phase[p] \notin {"lost", "sent"}
      BY <1>1, <1>3, <2>1, Alone DEF IInv, SignOne, Goto, Turn, SendAll
    <3>6. QED
      BY <3>1, <3>2, <3>3, <3>4, <3>5
  <2>2. CASE Decline(o)
    <3>1. CallInv'
      BY <1>1, <1>2, <1>3, <2>2 DEF Decline, Fail, IInv, TInv, TypeOK, Cur, Prepared, Turn, callerVars, CallInv, Earlier
    <3>2. PhaseInv'
      BY <1>1, <1>2, <1>3, <2>2 DEF Decline, Fail, IInv, TInv, TypeOK, Cur, Prepared, Turn, callerVars, PhaseInv, CallInv, Unsent, Batched
    <3>3. ReportInv'
      BY <1>1, <1>2, <1>3, <2>2 DEF Decline, Fail, IInv, TInv, TypeOK, Cur, Prepared, Turn, callerVars, ReportInv, CallInv, PhaseInv, Unsent, Dead, CarefulUse
    <3>4. Known(o)'
      BY <1>1, <1>2, <1>3, <2>2 DEF Decline, Fail, IInv, TInv, TypeOK, Cur, Prepared, Turn, callerVars, KnowledgeInv, Known, CallInv, PhaseInv, Unsent, Dead, CarefulUse, Doubtful, Reported, PreparedInv
    <3>5. answer' = "running" \/ \A p \in Prepared \ {o} : phase[p] \notin {"lost", "sent"}
      BY <1>1, <1>3, <2>2, Alone DEF IInv, Decline, Fail, Turn, SendAll
    <3>6. QED
      BY <3>1, <3>2, <3>3, <3>4, <3>5
  <2>3. CASE RecordClaim(o)
    <3>1. CallInv'
      BY <1>1, <1>2, <1>3, <2>3 DEF RecordClaim, Goto, IInv, TInv, TypeOK, Cur, Prepared, Turn, callerVars, CallInv, Earlier
    <3>2. PhaseInv'
      BY <1>1, <1>2, <1>3, <2>3 DEF RecordClaim, Goto, IInv, TInv, TypeOK, Cur, Prepared, Turn, callerVars, PhaseInv, CallInv, Unsent, Batched
    <3>3. ReportInv'
      BY <1>1, <1>2, <1>3, <2>3 DEF RecordClaim, Goto, IInv, TInv, TypeOK, Cur, Prepared, Turn, callerVars, ReportInv, CallInv, PhaseInv, Unsent, Dead, CarefulUse
    <3>4. Known(o)'
      BY <1>1, <1>2, <1>3, <2>3 DEF RecordClaim, Goto, IInv, TInv, TypeOK, Cur, Prepared, Turn, callerVars, KnowledgeInv, Known, CallInv, PhaseInv, Unsent, Dead, CarefulUse, Doubtful, Reported, PreparedInv
    <3>5. answer' = "running" \/ \A p \in Prepared \ {o} : phase[p] \notin {"lost", "sent"}
      BY <1>1, <1>3, <2>3, Alone DEF IInv, RecordClaim, Goto, Turn, SendAll
    <3>6. QED
      BY <3>1, <3>2, <3>3, <3>4, <3>5
  <2>4. CASE RefuseClaim(o)
    <3>1. CallInv'
      BY <1>1, <1>2, <1>3, <2>4 DEF RefuseClaim, Fail, IInv, TInv, TypeOK, Cur, Prepared, Turn, callerVars, CallInv, Earlier
    <3>2. PhaseInv'
      BY <1>1, <1>2, <1>3, <2>4 DEF RefuseClaim, Fail, IInv, TInv, TypeOK, Cur, Prepared, Turn, callerVars, PhaseInv, CallInv, Unsent, Batched
    <3>3. ReportInv'
      BY <1>1, <1>2, <1>3, <2>4 DEF RefuseClaim, Fail, IInv, TInv, TypeOK, Cur, Prepared, Turn, callerVars, ReportInv, CallInv, PhaseInv, Unsent, Dead, CarefulUse
    <3>4. Known(o)'
      BY <1>1, <1>2, <1>3, <2>4 DEF RefuseClaim, Fail, IInv, TInv, TypeOK, Cur, Prepared, Turn, callerVars, KnowledgeInv, Known, CallInv, PhaseInv, Unsent, Dead, CarefulUse, Doubtful, Reported, PreparedInv
    <3>5. answer' = "running" \/ \A p \in Prepared \ {o} : phase[p] \notin {"lost", "sent"}
      BY <1>1, <1>3, <2>4, Alone DEF IInv, RefuseClaim, Fail, Turn, SendAll
    <3>6. QED
      BY <3>1, <3>2, <3>3, <3>4, <3>5
  <2>5. CASE SendAccepted(o)
    <3>1. CallInv'
      BY <1>1, <1>2, <1>3, <2>5 DEF SendAccepted, ReadyToSend, Broadcast, Goto, IInv, TInv, TypeOK, Cur, Prepared, Turn, callerVars, CallInv, Earlier
    <3>2. PhaseInv'
      BY <1>1, <1>2, <1>3, <2>5 DEF SendAccepted, ReadyToSend, Broadcast, Goto, IInv, TInv, TypeOK, Cur, Prepared, Turn, callerVars, PhaseInv, CallInv, Unsent, Batched
    <3>3. ReportInv'
      BY <1>1, <1>2, <1>3, <2>5 DEF SendAccepted, ReadyToSend, Broadcast, Goto, IInv, TInv, TypeOK, Cur, Prepared, Turn, callerVars, ReportInv, CallInv, PhaseInv, Unsent, Dead, CarefulUse
    <3>4. Known(o)'
      BY <1>1, <1>2, <1>3, <2>5 DEF SendAccepted, ReadyToSend, Broadcast, Goto, IInv, TInv, TypeOK, Cur, Prepared, Turn, callerVars, KnowledgeInv, Known, CallInv, PhaseInv, Unsent, Dead, CarefulUse, Doubtful, Reported, PreparedInv
    <3>5. answer' = "running" \/ \A p \in Prepared \ {o} : phase[p] \notin {"lost", "sent"}
      BY <1>1, <1>3, <2>5, Alone DEF IInv, SendAccepted, ReadyToSend, Broadcast, Goto, Turn, SendAll
    <3>6. QED
      BY <3>1, <3>2, <3>3, <3>4, <3>5
  <2>6. CASE SendRefused(o)
    <3>1. CallInv'
      BY <1>1, <1>2, <1>3, <2>6 DEF SendRefused, ReadyToSend, Goto, IInv, TInv, TypeOK, Cur, Prepared, Turn, callerVars, CallInv, Earlier
    <3>2. PhaseInv'
      BY <1>1, <1>2, <1>3, <2>6 DEF SendRefused, ReadyToSend, Goto, IInv, TInv, TypeOK, Cur, Prepared, Turn, callerVars, PhaseInv, CallInv, Unsent, Batched
    <3>3. ReportInv'
      BY <1>1, <1>2, <1>3, <2>6 DEF SendRefused, ReadyToSend, Goto, IInv, TInv, TypeOK, Cur, Prepared, Turn, callerVars, ReportInv, CallInv, PhaseInv, Unsent, Dead, CarefulUse
    <3>4. Known(o)'
      BY <1>1, <1>2, <1>3, <2>6 DEF SendRefused, ReadyToSend, Goto, IInv, TInv, TypeOK, Cur, Prepared, Turn, callerVars, KnowledgeInv, Known, CallInv, PhaseInv, Unsent, Dead, CarefulUse, Doubtful, Reported, PreparedInv
    <3>5. answer' = "running" \/ \A p \in Prepared \ {o} : phase[p] \notin {"lost", "sent"}
      BY <1>1, <1>3, <2>6, Alone DEF IInv, SendRefused, ReadyToSend, Goto, Turn, SendAll
    <3>6. QED
      BY <3>1, <3>2, <3>3, <3>4, <3>5
  <2>7. CASE SendLost(o)
    <3>1. CallInv'
      BY <1>1, <1>2, <1>3, <2>7 DEF SendLost, ReadyToSend, Broadcast, Goto, IInv, TInv, TypeOK, Cur, Prepared, Turn, callerVars, CallInv, Earlier
    <3>2. PhaseInv'
      <4>1. ASSUME NEW p \in Prepared, p # o, phase[p] \in {"start", "signed", "recorded", "refused"}
            PROVE  ledger'[Cur(p)] \in Unsent
        <5>1. Cur(p) \in Txs \ {Cur(o)}
          BY <4>1, CurIsTx DEF Cur
        <5>2. QED
          BY <1>1, <4>1, <5>1 DEF IInv, PhaseInv
      <4>2. phase'[o] = "lost"
        BY <2>7, <1>1 DEF SendLost, Goto, TInv, TypeOK
      <4>3. QED
        BY <1>1, <4>1, <4>2 DEF PhaseInv, Prepared, Cur, TInv, TypeOK
    <3>3. ReportInv'
      BY <1>1, <1>2, <1>3, <2>7 DEF SendLost, ReadyToSend, Broadcast, Goto, IInv, TInv, TypeOK, Cur, Prepared, Turn, callerVars, ReportInv, CallInv, PhaseInv, Unsent, Dead, CarefulUse
    <3>4. Known(o)'
      BY <1>1, <1>2, <1>3, <2>7 DEF SendLost, ReadyToSend, Broadcast, Goto, IInv, TInv, TypeOK, Cur, Prepared, Turn, callerVars, KnowledgeInv, Known, CallInv, PhaseInv, Unsent, Dead, CarefulUse, Doubtful, Reported, PreparedInv
    <3>5. answer' = "running" \/ \A p \in Prepared \ {o} : phase[p] \notin {"lost", "sent"}
      BY <1>1, <1>3, <2>7, Alone DEF IInv, SendLost, ReadyToSend, Broadcast, Goto, Turn, SendAll
    <3>6. QED
      BY <3>1, <3>2, <3>3, <3>4, <3>5
  <2>8. CASE ReconcileSend(o)
    <3>1. CallInv'
      BY <1>1, <1>2, <1>3, <2>8 DEF ReconcileSend, StatusesSeen, FailSend, Fail, Goto, IInv, TInv, TypeOK, Cur, Prepared, Turn, callerVars, CallInv, Earlier
    <3>2. PhaseInv'
      BY <1>1, <1>2, <1>3, <2>8 DEF ReconcileSend, StatusesSeen, FailSend, Fail, Goto, IInv, TInv, TypeOK, Cur, Prepared, Turn, callerVars, PhaseInv, CallInv, Unsent, Batched
    <3>3. ReportInv'
      BY <1>1, <1>2, <1>3, <2>8 DEF ReconcileSend, StatusesSeen, FailSend, Fail, Goto, IInv, TInv, TypeOK, Cur, Prepared, Turn, callerVars, ReportInv, CallInv, PhaseInv, Unsent, Dead, CarefulUse
    <3>4. Known(o)'
      BY <1>1, <1>2, <1>3, <2>8 DEF ReconcileSend, StatusesSeen, FailSend, Fail, Goto, IInv, TInv, TypeOK, Cur, Prepared, Turn, callerVars, KnowledgeInv, Known, CallInv, PhaseInv, Unsent, Dead, CarefulUse, Doubtful, Reported, PreparedInv
    <3>5. answer' = "running" \/ \A p \in Prepared \ {o} : phase[p] \notin {"lost", "sent"}
      BY <1>1, <1>3, <2>8, Alone DEF IInv, ReconcileSend, StatusesSeen, FailSend, Fail, Goto, Turn, SendAll
    <3>6. QED
      BY <3>1, <3>2, <3>3, <3>4, <3>5
  <2>9. CASE NotifySent(o)
    <3>1. CallInv'
      BY <1>1, <1>2, <1>3, <2>9 DEF NotifySent, AfterSent, Fail, Goto, IInv, TInv, TypeOK, Cur, Prepared, Turn, callerVars, CallInv, Earlier
    <3>2. PhaseInv'
      BY <1>1, <1>2, <1>3, <2>9 DEF NotifySent, AfterSent, Fail, Goto, IInv, TInv, TypeOK, Cur, Prepared, Turn, callerVars, PhaseInv, CallInv, Unsent, Batched
    <3>3. ReportInv'
      BY <1>1, <1>2, <1>3, <2>9 DEF NotifySent, AfterSent, Fail, Goto, IInv, TInv, TypeOK, Cur, Prepared, Turn, callerVars, ReportInv, CallInv, PhaseInv, Unsent, Dead, CarefulUse
    <3>4. Known(o)'
      BY <1>1, <1>2, <1>3, <2>9 DEF NotifySent, AfterSent, Fail, Goto, IInv, TInv, TypeOK, Cur, Prepared, Turn, callerVars, KnowledgeInv, Known, CallInv, PhaseInv, Unsent, Dead, CarefulUse, Doubtful, Reported, PreparedInv
    <3>5. answer' = "running" \/ \A p \in Prepared \ {o} : phase[p] \notin {"lost", "sent"}
      BY <1>1, <1>3, <2>9, Alone DEF IInv, NotifySent, AfterSent, Fail, Goto, Turn, SendAll
    <3>6. QED
      BY <3>1, <3>2, <3>3, <3>4, <3>5
  <2>10. CASE ConfirmationArrives(o)
    <3>1. CallInv'
      BY <1>1, <1>2, <1>3, <2>10 DEF ConfirmationArrives, Goto, IInv, TInv, TypeOK, Cur, Prepared, Turn, callerVars, CallInv, Earlier
    <3>2. PhaseInv'
      BY <1>1, <1>2, <1>3, <2>10 DEF ConfirmationArrives, Goto, IInv, TInv, TypeOK, Cur, Prepared, Turn, callerVars, PhaseInv, CallInv, Unsent, Batched
    <3>3. ReportInv'
      BY <1>1, <1>2, <1>3, <2>10 DEF ConfirmationArrives, Goto, IInv, TInv, TypeOK, Cur, Prepared, Turn, callerVars, ReportInv, CallInv, PhaseInv, Unsent, Dead, CarefulUse
    <3>4. Known(o)'
      BY <1>1, <1>2, <1>3, <2>10 DEF ConfirmationArrives, Goto, IInv, TInv, TypeOK, Cur, Prepared, Turn, callerVars, KnowledgeInv, Known, CallInv, PhaseInv, Unsent, Dead, CarefulUse, Doubtful, Reported, PreparedInv
    <3>5. answer' = "running" \/ \A p \in Prepared \ {o} : phase[p] \notin {"lost", "sent"}
      BY <1>1, <1>3, <2>10, Alone DEF IInv, ConfirmationArrives, Goto, Turn, SendAll
    <3>6. QED
      BY <3>1, <3>2, <3>3, <3>4, <3>5
  <2>11. CASE ConfirmationLost(o)
    <3>1. CallInv'
      BY <1>1, <1>2, <1>3, <2>11 DEF ConfirmationLost, Goto, IInv, TInv, TypeOK, Cur, Prepared, Turn, callerVars, CallInv, Earlier
    <3>2. PhaseInv'
      BY <1>1, <1>2, <1>3, <2>11 DEF ConfirmationLost, Goto, IInv, TInv, TypeOK, Cur, Prepared, Turn, callerVars, PhaseInv, CallInv, Unsent, Batched
    <3>3. ReportInv'
      BY <1>1, <1>2, <1>3, <2>11 DEF ConfirmationLost, Goto, IInv, TInv, TypeOK, Cur, Prepared, Turn, callerVars, ReportInv, CallInv, PhaseInv, Unsent, Dead, CarefulUse
    <3>4. Known(o)'
      BY <1>1, <1>2, <1>3, <2>11 DEF ConfirmationLost, Goto, IInv, TInv, TypeOK, Cur, Prepared, Turn, callerVars, KnowledgeInv, Known, CallInv, PhaseInv, Unsent, Dead, CarefulUse, Doubtful, Reported, PreparedInv
    <3>5. answer' = "running" \/ \A p \in Prepared \ {o} : phase[p] \notin {"lost", "sent"}
      BY <1>1, <1>3, <2>11, Alone DEF IInv, ConfirmationLost, Goto, Turn, SendAll
    <3>6. QED
      BY <3>1, <3>2, <3>3, <3>4, <3>5
  <2>12. CASE ReconcileConfirm(o)
    <3>1. CallInv'
      BY <1>1, <1>2, <1>3, <2>12 DEF ReconcileConfirm, FailConfirmation, StatusesSeen, Fail, Goto, IInv, TInv, TypeOK, Cur, Prepared, Turn, callerVars, CallInv, Earlier
    <3>2. PhaseInv'
      BY <1>1, <1>2, <1>3, <2>12 DEF ReconcileConfirm, FailConfirmation, StatusesSeen, Fail, Goto, IInv, TInv, TypeOK, Cur, Prepared, Turn, callerVars, PhaseInv, CallInv, Unsent, Batched
    <3>3. ReportInv'
      BY <1>1, <1>2, <1>3, <2>12 DEF ReconcileConfirm, FailConfirmation, StatusesSeen, Fail, Goto, IInv, TInv, TypeOK, Cur, Prepared, Turn, callerVars, ReportInv, CallInv, PhaseInv, Unsent, Dead, CarefulUse
    <3>4. Known(o)'
      BY <1>1, <1>2, <1>3, <2>12 DEF ReconcileConfirm, FailConfirmation, StatusesSeen, Fail, Goto, IInv, TInv, TypeOK, Cur, Prepared, Turn, callerVars, KnowledgeInv, Known, CallInv, PhaseInv, Unsent, Dead, CarefulUse, Doubtful, Reported, PreparedInv
    <3>5. answer' = "running" \/ \A p \in Prepared \ {o} : phase[p] \notin {"lost", "sent"}
      BY <1>1, <1>3, <2>12, Alone DEF IInv, ReconcileConfirm, FailConfirmation, StatusesSeen, Fail, Goto, Turn, SendAll
    <3>6. QED
      BY <3>1, <3>2, <3>3, <3>4, <3>5
  <2>13. CASE NotifyConfirmed(o)
    <3>1. CallInv'
      BY <1>1, <1>2, <1>3, <2>13 DEF NotifyConfirmed, FailConfirmation, Fail, Goto, IInv, TInv, TypeOK, Cur, Prepared, Turn, callerVars, CallInv, Earlier
    <3>2. PhaseInv'
      BY <1>1, <1>2, <1>3, <2>13 DEF NotifyConfirmed, FailConfirmation, Fail, Goto, IInv, TInv, TypeOK, Cur, Prepared, Turn, callerVars, PhaseInv, CallInv, Unsent, Batched
    <3>3. ReportInv'
      BY <1>1, <1>2, <1>3, <2>13 DEF NotifyConfirmed, FailConfirmation, Fail, Goto, IInv, TInv, TypeOK, Cur, Prepared, Turn, callerVars, ReportInv, CallInv, PhaseInv, Unsent, Dead, CarefulUse
    <3>4. Known(o)'
      BY <1>1, <1>2, <1>3, <2>13 DEF NotifyConfirmed, FailConfirmation, Fail, Goto, IInv, TInv, TypeOK, Cur, Prepared, Turn, callerVars, KnowledgeInv, Known, CallInv, PhaseInv, Unsent, Dead, CarefulUse, Doubtful, Reported, PreparedInv
    <3>5. answer' = "running" \/ \A p \in Prepared \ {o} : phase[p] \notin {"lost", "sent"}
      BY <1>1, <1>3, <2>13, Alone DEF IInv, NotifyConfirmed, FailConfirmation, Fail, Goto, Turn, SendAll
    <3>6. QED
      BY <3>1, <3>2, <3>3, <3>4, <3>5
  <2>14. ~WalletSends(o)
    BY <1>3 DEF WalletSends
  <2>15. QED
    BY <2>1, <2>2, <2>3, <2>4, <2>5, <2>6, <2>7, <2>8, <2>9, <2>10, <2>11, <2>12, <2>13, <2>14 DEF CodeStep
<1>7. ASSUME NEW p \in Ops, attempt'[p] > 0
      PROVE  Known(p)'
  <2>1. CASE p = o
    BY <2>1, <1>6
  <2>2. CASE p # o
    <3>1. Known(p) /\ Cur(p) \in Txs /\ Cur(p) # Cur(o)
      BY <1>1, <1>7, <2>2 DEF IInv, KnowledgeInv, Cur, Txs, TInv, TypeOK
    <3>2. Cur(p)' = Cur(p) /\ ledger'[Cur(p)] = ledger[Cur(p)] /\ phase'[p] = phase[p]
      BY <1>1, <2>2, <3>1 DEF Cur
    <3>3. ~Reported(p, "unresolved")
      BY <1>1 DEF Reported
    <3>4. QED
      BY <1>1, <1>6, <2>2, <3>1, <3>2, <3>3 DEF Known, Doubtful, Prepared
  <2>3. QED
    BY <2>1, <2>2
<1>8. QED
  BY <1>4, <1>5, <1>6, <1>7 DEF IInv, KnowledgeInv

\* A new call preserves it: an operation is resubmitted only when its previous
\* transaction can no longer take effect.
LEMMA StartCallSafe ==
  ASSUME CarefulUse, TInv, IInv, StartCall
  PROVE  IInv'
<1> USE SendAssumption
<1>1. PICK m \in Modes, c \in Confirms, w \in Wallets, ops \in (SUBSET Ops) \ {{}} :
        /\ \A o \in ops : MayResubmit(o) /\ attempt[o] < MaxAttempts
        /\ call' = [mode |-> m, confirm |-> c, wallet |-> w, ops |-> ops]
        /\ attempt' = [o \in Ops |-> IF o \in ops THEN attempt[o] + 1 ELSE attempt[o]]
        /\ phase' = [o \in Ops |-> IF o \in ops THEN "start" ELSE "idle"]
        /\ \/ answer' = "threw" /\ failure' = [op |-> 0, kind |-> "rejected"]
           \/ answer' = "running" /\ failure' = NoFailure
  BY DEF StartCall
<1>2. /\ answer # "running" /\ sendFailure' = NoFailure
      /\ doubt' = doubt \cup {Cur(o) : o \in {p \in Ops : Reported(p, "unresolved")}}
      /\ UNCHANGED <<ledger, sent>>
  BY DEF StartCall
<1>3. failure'.op \notin Ops
  BY <1>1 DEF NoFailure, Ops
<1>4. \A o \in Ops : attempt[o] \in 0 .. MaxAttempts /\ attempt'[o] \in 0 .. MaxAttempts
  BY StartCallType DEF TInv, TypeOK
<1>5. \A o \in Ops : attempt[o] > 0 => Cur(o) \in Txs
  BY <1>4 DEF Cur, Txs
<1>6. ASSUME NEW o \in ops, attempt[o] > 0
      PROVE  ledger[Cur(o)] \in Dead
  <2>1. Known(o) /\ o \in Ops
    BY <1>6 DEF IInv, KnowledgeInv
  <2>2. Reported(o, "failed") => ledger[Cur(o)] \in Dead
    BY <2>1 DEF IInv, ReportInv, Reported
  <2>3. QED
    BY <1>1, <1>2, <2>1, <2>2 DEF MayResubmit, Known, Dead
<1>7. CallInv'
  BY <1>1, <1>2 DEF CarefulUse, CallInv, Prepared, Earlier
<1>8. HistoryInv'
  <2>1. ASSUME NEW o \in Ops, NEW k \in 1 .. MaxAttempts
        PROVE  /\ k < attempt'[o] => ledger[<<o, k>>] \in Dead
               /\ k > attempt'[o] => ledger[<<o, k>>] = "absent"
    <3>1. /\ k < attempt[o] => ledger[<<o, k>>] \in Dead
          /\ k > attempt[o] => ledger[<<o, k>>] = "absent"
      BY DEF IInv, HistoryInv
    <3>2. CASE o \in ops
      <4>1. attempt'[o] = attempt[o] + 1 /\ attempt[o] \in Nat
        BY <1>1, <1>4, <3>2
      <4>2. k = attempt[o] => ledger[<<o, k>>] \in Dead
        BY <1>6, <3>2 DEF Cur
      <4>3. k < attempt'[o] => k < attempt[o] \/ k = attempt[o]
        BY <4>1
      <4>4. k > attempt'[o] => k > attempt[o]
        BY <4>1
      <4>5. QED
        BY <3>1, <4>2, <4>3, <4>4
    <3>3. CASE o \notin ops
      BY <1>1, <3>1, <3>3
    <3>4. QED
      BY <3>2, <3>3
  <2>2. QED
    BY <1>2, <2>1 DEF HistoryInv
<1>9. ASSUME NEW o \in ops
      PROVE  ledger'[Cur(o)'] = "absent"
  <2>1. attempt'[o] = attempt[o] + 1 /\ attempt'[o] \in 1 .. MaxAttempts
    BY <1>1, <1>4
  <2>2. ledger[<<o, attempt'[o]>>] = "absent"
    BY <1>4, <2>1 DEF IInv, HistoryInv
  <2>3. QED
    BY <1>2, <2>2 DEF Cur
<1>10. KnowledgeInv'
  <2>1. ASSUME NEW o \in Ops, attempt'[o] > 0
        PROVE  Known(o)'
    <3>1. CASE o \in ops
      BY <1>9, <3>1 DEF Known, Dead
    <3>2. CASE o \notin ops
      <4>1. Cur(o)' = Cur(o) /\ Known(o)
        BY <1>1, <2>1, <3>2 DEF Cur, IInv, KnowledgeInv
      <4>2. QED
        BY <1>2, <4>1 DEF Known, Doubtful
    <3>3. QED
      BY <3>1, <3>2
  <2>2. QED
    BY <2>1 DEF KnowledgeInv
<1>11. PhaseInv'
  BY <1>1, <1>9 DEF PhaseInv, Prepared, Unsent
<1>12. ReportInv'
  BY <1>3 DEF ReportInv
<1>13. DoubtInv'
  <2>1. ASSUME NEW t \in doubt'
        PROVE  t[1] \in Ops /\ t[2] \in Nat /\ t[2] <= attempt[t[1]]
    <3>1. CASE t \in doubt
      BY <3>1, <1>4 DEF IInv, DoubtInv, TInv, TypeOK, Txs
    <3>2. CASE \E o \in Ops : t = Cur(o)
      BY <3>2, <1>4 DEF Cur
    <3>3. QED
      BY <1>2, <2>1, <3>1, <3>2
  <2>2. \A o \in Ops : attempt'[o] = attempt[o] + (IF o \in ops THEN 1 ELSE 0)
    BY <1>1, <1>4
  <2>3. QED
    BY <1>1, <1>4, <2>1, <2>2 DEF DoubtInv, Prepared, Cur
<1>14. QED
  BY <1>7, <1>8, <1>10, <1>11, <1>12, <1>13 DEF IInv

\* Signing a batch, refusing one and returning from a call preserve it.
LEMMA BatchStepSafe ==
  ASSUME CarefulUse, TInv, IInv, BatchStep
  PROVE  IInv'
<1> USE SendAssumption
<1>1. CASE SignAll
  <2>1. /\ answer = "running" /\ \A o \in Prepared : phase[o] = "start"
        /\ UNCHANGED <<call, answer, failure, sendFailure, attempt, sent, doubt>>
        /\ phase' = [o \in Ops |-> IF o \in Prepared THEN "signed" ELSE phase[o]]
        /\ ledger' = [t \in Txs |-> IF t[1] \in Prepared /\ t = Cur(t[1])
                                    THEN "signed" ELSE ledger[t]]
    BY <1>1 DEF SignAll, callerVars
  <2>2. \A o \in Prepared : Cur(o) \in Txs /\ ledger'[Cur(o)] = "signed"
    BY <2>1, CurIsTx DEF Cur
  <2>3. \A o \in Ops : attempt[o] \in 0 .. MaxAttempts
    BY DEF TInv, TypeOK
  <2>4. \A o \in Ops \ Prepared : attempt[o] > 0 => ledger'[Cur(o)] = ledger[Cur(o)]
    BY <2>1, <2>3 DEF Cur, Txs
  <2>5. \A o \in Ops : \A k \in 1 .. MaxAttempts :
          k # attempt[o] => ledger'[<<o, k>>] = ledger[<<o, k>>]
    BY <2>1 DEF Cur, Txs
  <2>6. CallInv'
    BY <2>1 DEF IInv, CallInv, Prepared, Earlier, TInv, TypeOK
  <2>7. HistoryInv'
    <3>1. ASSUME NEW o \in Ops, NEW k \in 1 .. MaxAttempts
          PROVE  /\ k < attempt[o] => ledger'[<<o, k>>] \in Dead
                 /\ k > attempt[o] => ledger'[<<o, k>>] = "absent"
      BY <2>3, <2>5 DEF IInv, HistoryInv
    <3>2. QED
      BY <2>1, <3>1 DEF HistoryInv
  <2>8. KnowledgeInv'
    <3>1. ASSUME NEW o \in Ops, attempt[o] > 0
          PROVE  Known(o)'
      <4>1. CASE o \in Prepared
        BY <2>1, <2>2, <4>1 DEF Known, Cur, Dead
      <4>2. CASE o \notin Prepared
        BY <2>1, <2>4, <3>1, <4>2 DEF IInv, KnowledgeInv, Known, Cur, Doubtful, Reported, Prepared
      <4>3. QED
        BY <4>1, <4>2
    <3>2. QED
      BY <2>1, <3>1 DEF KnowledgeInv
  <2>9. PhaseInv'
    BY <2>1, <2>2 DEF PhaseInv, Prepared, Cur, Unsent
  <2>10. ReportInv' /\ DoubtInv'
    BY <2>1 DEF IInv, ReportInv, DoubtInv, Prepared, Cur
  <2>11. QED
    BY <2>6, <2>7, <2>8, <2>9, <2>10 DEF IInv
<1>2. ASSUME answer = "running", answer' # "running",
             \A o \in Prepared : phase[o] \in {"start", "done"},
             UNCHANGED <<call, sendFailure, phase, attempt, ledger, callerVars>>,
             failure'.op \notin Ops
      PROVE  IInv'
  <2>1. CallInv' /\ PhaseInv' /\ ReportInv' /\ DoubtInv'
    BY <1>2 DEF IInv, CallInv, PhaseInv, ReportInv, DoubtInv, Prepared, Cur, callerVars
  <2>2. HistoryInv'
    BY <1>2 DEF IInv, HistoryInv
  <2>3. KnowledgeInv'
    BY <1>2 DEF IInv, KnowledgeInv, Known, Doubtful, Reported, Cur, Prepared, callerVars
  <2>4. QED
    BY <2>1, <2>2, <2>3 DEF IInv
<1>3. CASE DeclineAll
  BY <1>2, <1>3 DEF DeclineAll, Ops
<1>4. CASE Settle
  BY <1>2, <1>4 DEF Settle, IInv, CallInv, SendAll, NoFailure, Ops, callerVars
<1>5. QED
  BY <1>1, <1>3, <1>4 DEF BatchStep

\* What can no longer take effect stays so, whatever the cluster does.
LEMMA DeadStaysDead ==
  ASSUME CarefulUse, TInv, NEW t \in Txs, Cluster(t) \/ Fork(t), NEW u \in Txs
  PROVE  /\ ledger[u] \in Dead => ledger'[u] \in Dead
         /\ ledger[u] \in Unsent => ledger'[u] \in Unsent
         /\ ledger[u] = "absent" => ledger'[u] = "absent"
BY DEF CarefulUse, Cluster, Transition, Fork, Dead, Unsent, TInv, TypeOK

\* The cluster preserves the invariant.
LEMMA ClusterSafe ==
  ASSUME CarefulUse, TInv, IInv, NEW t \in Txs, Cluster(t) \/ Fork(t)
  PROVE  IInv'
<1> USE SendAssumption
<1>1. UNCHANGED <<call, answer, failure, sendFailure, phase, attempt, sent, doubt>>
  BY DEF Cluster, Fork, codeVars, callerVars
<1>2. \A o \in Ops : attempt[o] > 0 => Cur(o) \in Txs
  BY DEF TInv, TypeOK, Cur, Txs
<1>3. CallInv' /\ DoubtInv'
  BY <1>1 DEF IInv, CallInv, DoubtInv, Prepared, Earlier, Cur
<1>4. HistoryInv'
  <2>1. \A o \in Ops, k \in 1 .. MaxAttempts : <<o, k>> \in Txs
    BY DEF Txs
  <2>2. QED
    BY <1>1, <2>1, DeadStaysDead DEF IInv, HistoryInv
<1>5. KnowledgeInv'
  <2>1. ASSUME NEW o \in Ops, attempt[o] > 0
        PROVE  Known(o)'
    BY <1>1, <1>2, <2>1, DeadStaysDead DEF IInv, KnowledgeInv, Known, Doubtful,
       Reported, Cur, Prepared
  <2>2. QED
    BY <1>1, <2>1 DEF KnowledgeInv
<1>6. PhaseInv'
  BY <1>1, CurIsTx, DeadStaysDead DEF IInv, PhaseInv, Cur, Prepared
<1>7. ReportInv'
  <2>1. failure.op \in Ops => Cur(failure.op) \in Txs
    BY CurIsTx DEF TInv, PreparedInv
  <2>2. QED
    BY <1>1, <2>1, DeadStaysDead DEF IInv, ReportInv, Cur
<1>8. QED
  BY <1>3, <1>4, <1>5, <1>6, <1>7 DEF IInv

\* The invariant is inductive.
LEMMA SafetyInductive ==
  ASSUME CarefulUse
  PROVE  /\ Init => IInv
         /\ TInv /\ IInv /\ [Next]_vars => IInv'
<1>1. Init => IInv
  <2>1. ASSUME Init
        PROVE  CallInv /\ HistoryInv /\ KnowledgeInv /\ PhaseInv /\ ReportInv /\ DoubtInv
    BY <2>1, SendAssumption DEF Init, CallInv, HistoryInv, KnowledgeInv, PhaseInv,
       ReportInv, DoubtInv, Prepared, Earlier, Ops, Txs
  <2>2. QED
    BY <2>1 DEF IInv
<1>2. ASSUME TInv, IInv, [Next]_vars
      PROVE  IInv'
  <2>1. CASE UNCHANGED vars
    <3>1. CallInv' /\ DoubtInv' /\ HistoryInv'
      BY <1>2, <2>1 DEF vars, IInv, CallInv, DoubtInv, HistoryInv, Prepared, Earlier, Cur
    <3>2. KnowledgeInv' /\ PhaseInv' /\ ReportInv'
      BY <1>2, <2>1 DEF vars, IInv, KnowledgeInv, Known, Doubtful, Reported, PhaseInv,
         ReportInv, Prepared, Cur
    <3>3. QED
      BY <3>1, <3>2 DEF IInv
  <2>2. QED
    BY <1>2, <2>1, StartCallSafe, BatchStepSafe, CodeStepSafe, ClusterSafe DEF Next
<1>3. QED
  BY <1>1, <1>2

\* Resubmitting only what failed, or what nobody has a signature for, never lets
\* one operation take effect twice.
THEOREM SubmittedAtMostOnce == CarefulUse => (Spec => []AtMostOnce)
<1> SUFFICES ASSUME CarefulUse PROVE Spec => []AtMostOnce
  OBVIOUS
<1>1. ASSUME TInv, HistoryInv
      PROVE  AtMostOnce
  <2>1. ASSUME NEW o \in Ops, NEW j \in 1 .. MaxAttempts, ledger[<<o, j>>] \in Live
        PROVE  j = attempt[o]
    <3>1. attempt[o] \in Nat
      BY <1>1, SendAssumption DEF TInv, TypeOK
    <3>2. j < attempt[o] \/ j > attempt[o] \/ j = attempt[o]
      BY <3>1
    <3>3. QED
      BY <1>1, <2>1, <3>2 DEF HistoryInv, Live, Dead
  <2>2. QED
    BY <2>1 DEF AtMostOnce
<1>2. (Init => IInv) /\ (TInv /\ IInv /\ [Next]_vars => IInv')
  BY SafetyInductive
<1>3. IInv => HistoryInv
  BY DEF IInv
<1>4. QED
  BY <1>1, <1>2, <1>3, TypeInductive, PTL DEF Spec

\* An error without transactionWasSubmitted leaves nothing that can still land
\* and that the caller has not been told of.
THEOREM FailuresAreFinal == CarefulUse => (Spec => []FailureIsFinal)
<1> SUFFICES ASSUME CarefulUse PROVE Spec => []FailureIsFinal
  OBVIOUS
<1>1. ASSUME TInv, IInv
      PROVE  FailureIsFinal
  <2>1. ASSUME answer = "threw", failure.kind \in {"rejected", "preflight", "failed"},
               NEW o \in Prepared, Cur(o) \notin sent
        PROVE  ledger[Cur(o)] \in Dead
    <3>1. Known(o) /\ Cur(o) \notin doubt
      BY <1>1, CurIsTx DEF IInv, KnowledgeInv, DoubtInv, TInv, PreparedInv
    <3>2. ~Reported(o, "unresolved")
      BY <2>1 DEF Reported
    <3>3. QED
      BY <2>1, <3>1, <3>2 DEF Known, Doubtful
  <2>2. QED
    BY <1>1, <2>1 DEF FailureIsFinal, IInv, ReportInv
<1>2. (Init => IInv) /\ (TInv /\ IInv /\ [Next]_vars => IInv')
  BY SafetyInductive
<1>3. QED
  BY <1>1, <1>2, TypeInductive, PTL DEF Spec
-----------------------------------------------------------------------------
(* What the loops of one call keep, in every mode, with every wallet and   *)
(* whatever forks do: order, stopping, settling, and what a return means.  *)

Handed == {"confirming", "unconfirmed", "notify", "done", "failed"}
Forwarded == {"pending", "processed", "erred", "confirmed"}

\* What the phase of an operation says of its transaction.
Meaning(o) ==
  /\ phase[o] # "idle"
  /\ phase[o] = "start" => ledger[Cur(o)] = "absent"
  /\ phase[o] = "recorded" => o \in Protected /\ Cur(o) \in claims
  /\ Cur(o) \in sent => phase[o] \in Handed
  /\ phase[o] \in {"notify", "done"} /\ ShouldConfirm(o) => ledger[Cur(o)] = "confirmed"
  /\ phase[o] = "done" /\ ShouldConfirm(o) => Cur(o) \in recorded

MeaningInv == \A o \in Prepared : Meaning(o)

\* Attempts still to come have left no trace.
FutureInv ==
  \A o \in Ops : \A k \in 1 .. MaxAttempts :
    k > attempt[o] => ledger[<<o, k>>] = "absent" /\ <<o, k>> \notin sent

\* A loop that completes each operation before the next one has touched none
\* behind the one it is at; only a loop that signs first has signed those.
OrderInv ==
  /\ ~SendAll => sendFailure = NoFailure
  /\ ~SendAll => \A o \in Prepared : phase[o] \notin {"start", "signed"} =>
                   \A p \in Earlier(o) : phase[p] = "done"
  /\ ~Batched => \A o \in Prepared : phase[o] # "start" =>
                   \A p \in Earlier(o) : phase[p] = "done"
  /\ answer = "running" /\ call.mode # "single" => Prepared \cap Protected = {}

\* A call has not forgotten a failure, and ends with nothing half done.
EndInv ==
  /\ answer = "idle" => Prepared = {}
  /\ answer = "running" /\ (\E o \in Prepared : phase[o] = "failed") =>
       failure # NoFailure \/ sendFailure # NoFailure
  /\ answer = "returned" => \A o \in Prepared : phase[o] = "done"
  /\ answer = "threw" => \A o \in Prepared : phase[o] \in {"start", "signed", "done", "failed"}

\* A claim the network has had, also one a fork has dropped, is recorded.
ClaimInv ==
  \A t \in Txs : t[1] \in Protected /\ ledger[t] \in Forwarded => t \in claims

LoopInv == MeaningInv /\ FutureInv /\ OrderInv /\ EndInv /\ ClaimInv

\* A step of the call on one operation adds to what is known, and only of it.
LEMMA CodeStepAdds ==
  ASSUME NEW o \in Ops, CodeStep(o)
  PROVE  /\ sent \subseteq sent' /\ sent' \subseteq sent \cup {Cur(o)}
         /\ recorded \subseteq recorded' /\ claims \subseteq claims'
BY DEF CodeStep, SignOne, Decline, WalletSends, RecordClaim, RefuseClaim, SendAccepted,
   SendRefused, SendLost, ReconcileSend, NotifySent, ConfirmationArrives, ConfirmationLost,
   ReconcileConfirm, NotifyConfirmed, callerVars

\* A step works on an operation whose turn it is, moves it on, and remembers its
\* failure; outside the send-all loop the failure ends the call.
Effect(o) ==
  /\ ~SendAll => \A p \in Earlier(o) : phase[p] = "done"
  /\ phase[o] \notin {"done", "failed"} /\ phase'[o] \notin {"idle", "start"}
  /\ phase'[o] \in {"signed", "recorded"} => phase[o] \in {"start", "signed"}
  /\ answer' \in {"running", "threw"}
  /\ answer' = "threw" => ~SendAll /\ phase'[o] = "failed"
  /\ phase'[o] = "failed" => failure' # NoFailure \/ sendFailure' # NoFailure
  /\ failure # NoFailure => failure' # NoFailure
  /\ sendFailure # NoFailure => sendFailure' # NoFailure
  /\ ~SendAll => sendFailure' = sendFailure

LEMMA CodeStepEffect ==
  ASSUME TInv, OrderInv, NEW o \in Ops, CodeStep(o)
  PROVE  Effect(o)
<1>1. /\ o \in Prepared /\ phase \in [Ops -> Phases] /\ o # 0 /\ (SendAll => Batched)
  BY CodeStepFrame, SendAssumption DEF TInv, TypeOK, SendAll, Batched, BatchModes, Ops
<1>2. \A kind : [op |-> o, kind |-> kind] # NoFailure
  BY <1>1 DEF NoFailure
<1>3. ASSUME ~SendAll, phase[o] \notin {"start", "signed"}
      PROVE  \A p \in Earlier(o) : phase[p] = "done"
  BY <1>1, <1>3 DEF OrderInv
<1>4. CASE SignOne(o)
  BY <1>1, <1>2, <1>3, <1>4 DEF Effect, SignOne, Turn, Goto, callerVars
<1>5. CASE Decline(o)
  BY <1>1, <1>2, <1>3, <1>5 DEF Effect, Decline, Turn, Fail, callerVars, SendAll, Batched, BatchModes
<1>6. CASE WalletSends(o)
  BY <1>1, <1>2, <1>3, <1>6 DEF Effect, WalletSends, Turn, Goto, Fail, callerVars, SendAll, Batched, BatchModes
<1>7. CASE RecordClaim(o)
  BY <1>1, <1>2, <1>3, <1>7 DEF Effect, RecordClaim, Turn, Goto
<1>8. CASE RefuseClaim(o)
  BY <1>1, <1>2, <1>3, <1>8 DEF Effect, RefuseClaim, Turn, Fail, callerVars, OrderInv, SendAll, Batched, BatchModes
<1>9. CASE SendAccepted(o)
  BY <1>1, <1>2, <1>3, <1>9 DEF Effect, SendAccepted, ReadyToSend, Broadcast, Goto, callerVars
<1>10. CASE SendRefused(o)
  BY <1>1, <1>2, <1>3, <1>10 DEF Effect, SendRefused, ReadyToSend, Goto, callerVars
<1>11. CASE SendLost(o)
  BY <1>1, <1>2, <1>3, <1>11 DEF Effect, SendLost, ReadyToSend, Broadcast, Goto, callerVars
<1>12. CASE ReconcileSend(o)
  BY <1>1, <1>2, <1>3, <1>12 DEF Effect, ReconcileSend, FailSend, Fail, Goto, callerVars
<1>13. CASE NotifySent(o)
  BY <1>1, <1>2, <1>3, <1>13 DEF Effect, NotifySent, AfterSent, Fail, Goto
<1>14. CASE ConfirmationArrives(o)
  BY <1>1, <1>2, <1>3, <1>14 DEF Effect, ConfirmationArrives, Confirming, Goto, callerVars
<1>15. CASE ConfirmationLost(o)
  BY <1>1, <1>2, <1>3, <1>15 DEF Effect, ConfirmationLost, Confirming, Goto, callerVars
<1>16. CASE ReconcileConfirm(o)
  BY <1>1, <1>2, <1>3, <1>16 DEF Effect, ReconcileConfirm, FailConfirmation, Fail, Goto, callerVars
<1>17. CASE NotifyConfirmed(o)
  BY <1>1, <1>2, <1>3, <1>17 DEF Effect, NotifyConfirmed, Confirming, FailConfirmation, Fail, Goto
<1>18. QED
  BY <1>4, <1>5, <1>6, <1>7, <1>8, <1>9, <1>10, <1>11, <1>12, <1>13, <1>14, <1>15, <1>16, <1>17 DEF CodeStep

\* Phases keep their meaning, and claims are recorded before they are forwarded.
LEMMA CodeStepMeaning ==
  ASSUME TInv, LoopInv, NEW o \in Ops, CodeStep(o)
  PROVE  Meaning(o)' /\ ClaimInv'
<1> USE DEF Meaning, ClaimInv, Forwarded, Handed
<1>1. o \in Prepared /\ Cur(o) \in Txs /\ Cur(o)[1] = o /\ Meaning(o)
  BY CodeStepFrame, CurIsTx DEF LoopInv, MeaningInv, Cur
<1>2. /\ phase \in [Ops -> Phases] /\ ledger \in [Txs -> Statuses]
      /\ UNCHANGED <<call, attempt>> /\ Cur(o)' = Cur(o)
      /\ ShouldConfirm(o)' = ShouldConfirm(o)
  BY CodeStepFrame DEF TInv, TypeOK, Cur, ShouldConfirm
<1>3. ClaimInv
  BY DEF LoopInv
<1>4. CASE SignOne(o)
  BY <1>1, <1>2, <1>3, <1>4 DEF SignOne, Turn, Goto, callerVars
<1>5. CASE Decline(o)
  BY <1>1, <1>2, <1>3, <1>5 DEF Decline, Turn, Fail, callerVars
<1>6. CASE WalletSends(o)
  BY <1>1, <1>2, <1>3, <1>6 DEF WalletSends, Turn, Goto, Fail, callerVars
<1>7. CASE RecordClaim(o)
  BY <1>1, <1>2, <1>3, <1>7 DEF RecordClaim, Turn, Goto
<1>8. CASE RefuseClaim(o)
  BY <1>1, <1>2, <1>3, <1>8 DEF RefuseClaim, Turn, Fail, callerVars
<1>9. CASE SendAccepted(o)
  BY <1>1, <1>2, <1>3, <1>9 DEF SendAccepted, ReadyToSend, Broadcast, Goto, callerVars
<1>10. CASE SendRefused(o)
  BY <1>1, <1>2, <1>3, <1>10 DEF SendRefused, ReadyToSend, Goto, callerVars
<1>11. CASE SendLost(o)
  BY <1>1, <1>2, <1>3, <1>11 DEF SendLost, ReadyToSend, Broadcast, Goto, callerVars
<1>12. CASE ReconcileSend(o)
  BY <1>1, <1>2, <1>3, <1>12 DEF ReconcileSend, FailSend, Fail, Goto, callerVars, StatusesSeen
<1>13. CASE NotifySent(o)
  BY <1>1, <1>2, <1>3, <1>13 DEF NotifySent, AfterSent, Fail, Goto
<1>14. CASE ConfirmationArrives(o)
  BY <1>1, <1>2, <1>3, <1>14 DEF ConfirmationArrives, Confirming, Goto, callerVars
<1>15. CASE ConfirmationLost(o)
  BY <1>1, <1>2, <1>3, <1>15 DEF ConfirmationLost, Confirming, Goto, callerVars
<1>16. CASE ReconcileConfirm(o)
  BY <1>1, <1>2, <1>3, <1>16 DEF ReconcileConfirm, FailConfirmation, Fail, Goto, callerVars, StatusesSeen
<1>17. CASE NotifyConfirmed(o)
  BY <1>1, <1>2, <1>3, <1>17 DEF NotifyConfirmed, Confirming, FailConfirmation, Fail, Goto
<1>18. QED
  BY <1>4, <1>5, <1>6, <1>7, <1>8, <1>9, <1>10, <1>11, <1>12, <1>13, <1>14, <1>15, <1>16, <1>17 DEF CodeStep

\* The steps of the call on one operation preserve the invariant of the loops.
LEMMA CodeStepLoop ==
  ASSUME TInv, LoopInv, NEW o \in Ops, CodeStep(o)
  PROVE  LoopInv'
<1>1. /\ o \in Prepared /\ answer = "running"
      /\ UNCHANGED <<call, attempt>> /\ Prepared' = Prepared
      /\ \A p \in Ops \ {o} : phase'[p] = phase[p]
      /\ \A t \in Txs \ {Cur(o)} : ledger'[t] = ledger[t]
  BY CodeStepFrame DEF Prepared
<1>2. /\ sent' \subseteq sent \cup {Cur(o)} /\ sent \subseteq sent'
      /\ recorded \subseteq recorded' /\ claims \subseteq claims'
  BY CodeStepAdds
<1>3. Effect(o) /\ Meaning(o)' /\ ClaimInv'
  BY CodeStepEffect, CodeStepMeaning DEF LoopInv
<1>4. MeaningInv'
  <2>1. ASSUME NEW p \in Prepared, p # o
        PROVE  Meaning(p)'
    <3>1. /\ Cur(p) \in Txs /\ Cur(p) # Cur(o) /\ Cur(p)' = Cur(p)
          /\ ShouldConfirm(p)' = ShouldConfirm(p) /\ p \in Ops
      BY <1>1, <2>1, CurIsTx DEF Cur, ShouldConfirm
    <3>2. phase'[p] = phase[p] /\ ledger'[Cur(p)] = ledger[Cur(p)]
      BY <1>1, <2>1, <3>1
    <3>3. QED
      BY <1>2, <3>1, <3>2 DEF LoopInv, MeaningInv, Meaning
  <2>2. QED
    BY <1>1, <1>3, <2>1 DEF MeaningInv
<1>5. FutureInv'
  <2>1. ASSUME NEW p \in Ops, NEW k \in 1 .. MaxAttempts, k > attempt[p]
        PROVE  ledger'[<<p, k>>] = "absent" /\ <<p, k>> \notin sent'
    <3>1. <<p, k>> # Cur(o) /\ <<p, k>> \in Txs
      BY <2>1 DEF Cur, Txs, TInv, TypeOK
    <3>2. QED
      BY <1>1, <1>2, <2>1, <3>1 DEF LoopInv, FutureInv
  <2>2. QED
    BY <1>1, <2>1 DEF FutureInv
<1>6. OrderInv'
  <2>1. Earlier(o)' = Earlier(o) /\ SendAll' = SendAll /\ Batched' = Batched
        /\ (\A p \in Prepared : Earlier(p)' = Earlier(p)) /\ (SendAll => Batched)
    BY <1>1 DEF Earlier, SendAll, Batched, BatchModes
  <2>2. \A p \in Prepared : p \in Ops
    BY CurIsTx
  <2>3. \A p \in Prepared : o \notin Earlier(o) /\ Earlier(p) \subseteq Prepared
    BY <1>1, <2>2 DEF Earlier, Ops
  <2>4. QED
    BY <1>1, <1>3, <2>1, <2>2, <2>3 DEF LoopInv, OrderInv, Effect
<1>7. EndInv'
  <2>1. ASSUME answer' = "threw", NEW p \in Prepared
        PROVE  phase'[p] \in {"start", "signed", "done", "failed"}
    <3>1. p \in Nat /\ o \in Nat /\ p \in Ops
      BY <1>1, CurIsTx DEF Ops
    <3>2. p = o \/ p \in Earlier(o) \/ o \in Earlier(p)
      BY <1>1, <3>1 DEF Earlier
    <3>3. CASE p = o
      BY <1>3, <2>1, <3>3 DEF Effect
    <3>4. CASE p \in Earlier(o)
      BY <1>1, <1>3, <2>1, <3>1, <3>4 DEF Effect
    <3>5. CASE p # o /\ o \in Earlier(p)
      BY <1>1, <1>3, <2>1, <3>1, <3>5 DEF Effect, LoopInv, OrderInv
    <3>6. QED
      BY <3>2, <3>3, <3>4, <3>5
  <2>2. ASSUME answer' = "running", \E p \in Prepared : phase'[p] = "failed"
        PROVE  failure' # NoFailure \/ sendFailure' # NoFailure
    <3>1. PICK p \in Prepared : phase'[p] = "failed"
      BY <2>2
    <3>2. CASE p = o
      BY <1>3, <3>1, <3>2 DEF Effect
    <3>3. CASE p # o
      <4>1. phase[p] = "failed"
        BY <1>1, <3>1, <3>3, CurIsTx
      <4>2. QED
        BY <1>1, <1>3, <4>1 DEF Effect, LoopInv, EndInv
    <3>4. QED
      BY <3>2, <3>3
  <2>3. QED
    BY <1>1, <1>3, <2>1, <2>2 DEF EndInv, Effect
<1>8. QED
  BY <1>3, <1>4, <1>5, <1>6, <1>7 DEF LoopInv

\* A new call starts with transactions nobody has seen.
LEMMA StartCallLoop ==
  ASSUME TInv, LoopInv, StartCall
  PROVE  LoopInv'
<1>1. PICK m \in Modes, c \in Confirms, w \in Wallets, ops \in (SUBSET Ops) \ {{}} :
        /\ \A o \in ops : attempt[o] < MaxAttempts
        /\ call' = [mode |-> m, confirm |-> c, wallet |-> w, ops |-> ops]
        /\ attempt' = [o \in Ops |-> IF o \in ops THEN attempt[o] + 1 ELSE attempt[o]]
        /\ phase' = [o \in Ops |-> IF o \in ops THEN "start" ELSE "idle"]
        /\ IF m # "single" /\ ops \cap Protected # {} THEN answer' = "threw"
           ELSE answer' = "running"
  BY DEF StartCall
<1>2. sendFailure' = NoFailure /\ UNCHANGED <<ledger, sent, recorded, claims>>
  BY DEF StartCall
<1>3. /\ Prepared' = ops /\ call'.mode = m
      /\ \A o \in ops : o \in Ops /\ phase'[o] = "start"
  BY <1>1 DEF Prepared
<1>4. \A o \in Ops : attempt[o] \in 0 .. MaxAttempts
  BY DEF TInv, TypeOK
<1>5. FutureInv'
  <2>1. ASSUME NEW o \in Ops, NEW k \in 1 .. MaxAttempts, k > attempt'[o]
        PROVE  k > attempt[o]
    BY <1>1, <1>4, <2>1
  <2>2. QED
    BY <1>2, <2>1 DEF LoopInv, FutureInv
<1>6. MeaningInv'
  <2>1. ASSUME NEW o \in ops
        PROVE  ledger[<<o, attempt'[o]>>] = "absent" /\ <<o, attempt'[o]>> \notin sent
    <3>1. attempt'[o] = attempt[o] + 1 /\ attempt'[o] \in 1 .. MaxAttempts
      BY <1>1, <1>4, SendAssumption
    <3>2. attempt'[o] > attempt[o]
      BY <1>4, <3>1
    <3>3. QED
      BY <3>1, <3>2 DEF LoopInv, FutureInv
  <2>2. QED
    BY <1>2, <1>3, <2>1 DEF MeaningInv, Meaning, Cur
<1>7. OrderInv'
  BY <1>1, <1>2, <1>3 DEF OrderInv
<1>8. EndInv'
  BY <1>1, <1>3 DEF EndInv
<1>9. ClaimInv'
  BY <1>2 DEF LoopInv, ClaimInv
<1>10. QED
  BY <1>5, <1>6, <1>7, <1>8, <1>9 DEF LoopInv

\* Signing a batch, refusing one and returning from a call.
LEMMA BatchStepLoop ==
  ASSUME TInv, LoopInv, BatchStep
  PROVE  LoopInv'
<1>1. /\ answer = "running" /\ UNCHANGED <<call, attempt, sent, recorded, claims, sendFailure>>
      /\ Prepared' = Prepared /\ SendAll' = SendAll /\ Batched' = Batched
      /\ \A o : Cur(o)' = Cur(o) /\ Earlier(o)' = Earlier(o) /\ ShouldConfirm(o)' = ShouldConfirm(o)
  BY DEF BatchStep, SignAll, DeclineAll, Settle, callerVars, Prepared, SendAll, Batched,
     Cur, Earlier, ShouldConfirm
<1>2. \A o \in Prepared : o \in Ops /\ Cur(o) \in Txs
  BY CurIsTx
<1>3. CASE SignAll
  <2>1. /\ Batched /\ answer' = "running"
        /\ \A o \in Prepared : phase[o] = "start" /\ phase'[o] = "signed"
        /\ ledger' = [t \in Txs |-> IF t[1] \in Prepared /\ t = Cur(t[1])
                                    THEN "signed" ELSE ledger[t]]
    BY <1>2, <1>3 DEF SignAll
  <2>2. MeaningInv'
    BY <1>1, <2>1 DEF LoopInv, MeaningInv, Meaning, Handed
  <2>3. FutureInv'
    <3>1. ASSUME NEW o \in Ops, NEW k \in 1 .. MaxAttempts, k > attempt[o]
          PROVE  ledger'[<<o, k>>] = "absent" /\ <<o, k>> \notin sent
      <4>1. <<o, k>> \in Txs /\ <<o, k>> # Cur(o) /\ <<o, k>>[1] = o
        BY <3>1 DEF Txs, Cur, TInv, TypeOK
      <4>2. QED
        BY <2>1, <3>1, <4>1 DEF LoopInv, FutureInv
    <3>2. QED
      BY <1>1, <3>1 DEF FutureInv
  <2>4. OrderInv' /\ EndInv'
    BY <1>1, <2>1 DEF LoopInv, OrderInv, EndInv
  <2>5. ClaimInv'
    BY <1>1, <2>1 DEF LoopInv, ClaimInv, Forwarded
  <2>6. QED
    BY <2>2, <2>3, <2>4, <2>5 DEF LoopInv
<1>4. ASSUME UNCHANGED <<phase, ledger>>,
             answer' \in {"returned", "threw"},
             answer' = "returned" => \A o \in Prepared : phase[o] = "done",
             answer' = "threw" =>
               \A o \in Prepared : phase[o] \in {"start", "signed", "done", "failed"}
      PROVE  LoopInv'
  <2>1. MeaningInv' /\ FutureInv' /\ OrderInv' /\ ClaimInv'
    BY <1>1, <1>4 DEF LoopInv, MeaningInv, Meaning, FutureInv, OrderInv, ClaimInv
  <2>2. EndInv'
    BY <1>1, <1>4 DEF EndInv
  <2>3. QED
    BY <2>1, <2>2 DEF LoopInv
<1>5. CASE DeclineAll
  BY <1>4, <1>5 DEF DeclineAll
<1>6. CASE Settle
  <2>1. /\ SendAll => SendLoopEnded /\ \A o \in Prepared : phase[o] \in {"signed", "done", "failed"}
        /\ ~SendAll => \A o \in Prepared : phase[o] = "done"
        /\ failure' = IF failure # NoFailure THEN failure ELSE sendFailure
        /\ answer' = IF failure' # NoFailure THEN "threw" ELSE "returned"
        /\ UNCHANGED <<phase, ledger>>
    BY <1>6 DEF Settle
  <2>2. ASSUME answer' = "returned", NEW o \in Prepared
        PROVE  phase[o] = "done"
    <3>1. failure = NoFailure /\ sendFailure = NoFailure
      BY <2>1, <2>2
    <3>2. phase[o] # "failed"
      BY <1>1, <3>1 DEF LoopInv, EndInv
    <3>3. SendAll => phase[o] # "signed"
      BY <2>1, <3>1 DEF SendLoopEnded
    <3>4. QED
      BY <2>1, <3>2, <3>3
  <2>3. QED
    BY <1>4, <2>1, <2>2
<1>7. QED
  BY <1>3, <1>5, <1>6 DEF BatchStep

\* Forks and the cluster: what is absent, and what is confirmed, stays so.
LEMMA ClusterLoop ==
  ASSUME TInv, LoopInv, NEW t \in Txs, Cluster(t) \/ Fork(t)
  PROVE  LoopInv'
<1>1. /\ UNCHANGED <<call, answer, failure, sendFailure, phase, attempt, sent, recorded, claims>>
      /\ Prepared' = Prepared /\ SendAll' = SendAll /\ Batched' = Batched
      /\ \A o : Cur(o)' = Cur(o) /\ Earlier(o)' = Earlier(o) /\ ShouldConfirm(o)' = ShouldConfirm(o)
  BY DEF Cluster, Fork, codeVars, callerVars, Prepared, SendAll, Batched, Cur, Earlier, ShouldConfirm
<1>2. \A u \in Txs : /\ ledger[u] = "absent" => ledger'[u] = "absent"
                     /\ ledger[u] = "confirmed" => ledger'[u] = "confirmed"
                     /\ ledger'[u] \in Forwarded => ledger[u] \in Forwarded
  BY DEF Cluster, Transition, Fork, Forwarded, TInv, TypeOK
<1>3. MeaningInv'
  BY <1>1, <1>2, CurIsTx DEF LoopInv, MeaningInv, Meaning
<1>4. FutureInv'
  <2>1. \A o \in Ops, k \in 1 .. MaxAttempts : <<o, k>> \in Txs
    BY DEF Txs
  <2>2. QED
    BY <1>1, <1>2, <2>1 DEF LoopInv, FutureInv
<1>5. OrderInv' /\ EndInv'
  BY <1>1 DEF LoopInv, OrderInv, EndInv
<1>6. ClaimInv'
  BY <1>1, <1>2 DEF LoopInv, ClaimInv
<1>7. QED
  BY <1>3, <1>4, <1>5, <1>6 DEF LoopInv

\* The invariant of the loops is inductive.
LEMMA LoopInductive ==
  /\ Init => LoopInv
  /\ TInv /\ LoopInv /\ [Next]_vars => LoopInv'
<1>1. ASSUME Init
      PROVE  LoopInv
  <2>1. Prepared = {} /\ answer = "idle" /\ sendFailure = NoFailure /\ sent = {}
        /\ ledger = [t \in Txs |-> "absent"]
    BY <1>1 DEF Init, Prepared
  <2>2. \A o \in Ops, k \in 1 .. MaxAttempts : <<o, k>> \in Txs
    BY DEF Txs
  <2>3. QED
    BY <2>1, <2>2 DEF LoopInv, MeaningInv, FutureInv, OrderInv, EndInv, ClaimInv, Forwarded
<1>2. ASSUME TInv, LoopInv, [Next]_vars
      PROVE  LoopInv'
  <2>1. CASE UNCHANGED vars
    <3>1. \A o : Cur(o)' = Cur(o) /\ Earlier(o)' = Earlier(o) /\ ShouldConfirm(o)' = ShouldConfirm(o)
      BY <2>1 DEF vars, Cur, Earlier, ShouldConfirm, Prepared
    <3>2. QED
      BY <1>2, <2>1, <3>1 DEF vars, LoopInv, MeaningInv, Meaning, FutureInv, OrderInv, EndInv,
         ClaimInv, Prepared, SendAll, Batched
  <2>2. QED
    BY <1>2, <2>1, StartCallLoop, BatchStepLoop, CodeStepLoop, ClusterLoop DEF Next
<1>3. QED
  BY <1>1, <1>2

\* sign-and-confirm-each never asks the wallet for an approval before every
\* predecessor is confirmed and its callback has completed.
THEOREM OrderIsKept == Spec => []DependentOrder
<1>1. ASSUME TInv, LoopInv
      PROVE  DependentOrder
  <2>1. SUFFICES ASSUME call.mode = "sign-and-confirm-each", NEW o \in Prepared,
                        ledger[Cur(o)] # "absent", NEW p \in Earlier(o)
                 PROVE  ledger[Cur(p)] = "confirmed" /\ Cur(p) \in recorded
    BY DEF DependentOrder
  <2>2. ~Batched /\ p \in Prepared /\ ShouldConfirm(p)
    BY <2>1 DEF Batched, BatchModes, Earlier, ShouldConfirm
  <2>3. phase[o] # "start"
    BY <1>1, <2>1 DEF LoopInv, MeaningInv, Meaning
  <2>4. phase[p] = "done"
    BY <1>1, <2>2, <2>3 DEF LoopInv, OrderInv
  <2>5. QED
    BY <1>1, <2>2, <2>4 DEF LoopInv, MeaningInv, Meaning
<1>2. QED
  BY <1>1, LoopInductive, TypeInductive, PTL DEF Spec

\* Signatures are returned only when all that had to be confirmed is confirmed,
\* and no fork takes that back.
THEOREM ReturnsAreConfirmed == Spec => []ReturnMeansConfirmed
<1>1. LoopInv => ReturnMeansConfirmed
  BY DEF LoopInv, EndInv, MeaningInv, Meaning, ReturnMeansConfirmed
<1>2. QED
  BY <1>1, LoopInductive, TypeInductive, PTL DEF Spec

\* A call that ends, however it does, has settled every transaction it sent.
THEOREM SentIsSettled == Spec => []SentAreSettled
<1>1. LoopInv => SentAreSettled
  BY DEF LoopInv, EndInv, MeaningInv, Meaning, Handed, SentAreSettled
<1>2. QED
  BY <1>1, LoopInductive, TypeInductive, PTL DEF Spec

\* A protected claim the network has was recorded by the accounting hook.
THEOREM ClaimsAreRecorded == Spec => []ClaimRecordedFirst
<1>1. LoopInv => ClaimRecordedFirst
  BY DEF LoopInv, ClaimInv, Forwarded, Live, ClaimRecordedFirst
<1>2. QED
  BY <1>1, LoopInductive, TypeInductive, PTL DEF Spec

\* No transaction is handed to the network after an earlier one has failed.
THEOREM LoopsStop == Spec => StopsAtFirstFailure
<1> DEFINE Stops == \A o \in Prepared :
      ledger[Cur(o)] \in {"absent", "signed"} /\ ledger'[Cur(o)] = "pending" =>
        \A p \in Earlier(o) : phase[p] # "failed" /\ sendFailure = NoFailure
<1>1. ASSUME TInv, LoopInv, [Next]_vars
      PROVE  [Stops]_vars
  <2>1. SUFFICES ASSUME Next, NEW o \in Prepared, NEW p \in Earlier(o),
                        ledger[Cur(o)] \in {"absent", "signed"}, ledger'[Cur(o)] = "pending"
                 PROVE  phase[p] # "failed" /\ sendFailure = NoFailure
    BY <1>1
  <2>2. Cur(o) \in Txs /\ o \in Ops
    BY <1>1, CurIsTx
  <2>3. ~StartCall /\ ~BatchStep
    BY <2>1, <2>2 DEF StartCall, BatchStep, SignAll, DeclineAll, Settle
  <2>4. ~\E t \in Txs : Cluster(t) \/ Fork(t)
    BY <1>1, <2>1, <2>2 DEF Cluster, Transition, Fork, TInv, TypeOK
  <2>5. CodeStep(o)
    <3>1. PICK q \in Ops : CodeStep(q)
      BY <2>1, <2>3, <2>4 DEF Next
    <3>2. q = o
      BY <1>1, <2>1, <2>2, <3>1, CodeStepFrame DEF Cur
    <3>3. QED
      BY <3>1, <3>2
  <2>6. WalletSends(o) \/ SendAccepted(o) \/ SendLost(o)
    BY <1>1, <2>1, <2>2, <2>5 DEF CodeStep, SignOne, Decline, RecordClaim, RefuseClaim,
       SendRefused, ReconcileSend, NotifySent, ConfirmationArrives, ConfirmationLost,
       ReconcileConfirm, NotifyConfirmed, TInv, TypeOK
  <2>7. CASE WalletSends(o)
    BY <1>1, <2>1, <2>7 DEF WalletSends, Turn, Batched, BatchModes, SendAll, LoopInv, OrderInv
  <2>8. CASE ReadyToSend(o)
    BY <1>1, <2>1, <2>8 DEF ReadyToSend, LoopInv, OrderInv
  <2>9. QED
    BY <2>6, <2>7, <2>8 DEF SendAccepted, SendLost
<1>2. QED
  BY <1>1, LoopInductive, TypeInductive, PTL DEF Spec, StopsAtFirstFailure
=============================================================================
