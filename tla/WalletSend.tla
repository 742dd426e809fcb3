----------------------------- MODULE WalletSend -----------------------------
(***************************************************************************)
(* Sending prepared operations with a wallet: sendPreparedWithWallet and   *)
(* sendPreparedBatchWithWallet (packages/smart-account-vaults/src/         *)
(* wallet.ts), with the wallet, the RPC endpoint and the cluster they      *)
(* depend on, and a caller that resubmits what it was not told about.      *)
(*                                                                         *)
(* An operation is a number; its position in the prepared list.  Every     *)
(* call compiles a transaction of its own for each operation it is given:  *)
(* transaction <<o, k>> is the k-th one compiled for operation o.          *)
(***************************************************************************)
EXTENDS Naturals, FiniteSets

CONSTANTS
  NumOps,           \* operations the caller wants to perform
  MaxAttempts,      \* bound: transactions ever compiled for one operation
  Required,         \* operations prepared with requiresConfirmation
  Protected,        \* operations that are protected Voltr withdrawal claims
  Modes,            \* send modes the caller uses
  Confirms,         \* values of the confirm argument the caller uses
  Wallets,          \* "signs": signTransaction only; "sends": sendTransaction
  ErrorsAreFinal    \* FALSE: a fork may drop a block holding a failed status

Ops == 1 .. NumOps
Txs == Ops \X (1 .. MaxAttempts)

SequentialModes == {"single", "sign-and-confirm-each"}
BatchModes == {"send-all-before-confirm", "confirm-each"}
ConfirmArgs == {"always", "never", "if-required"}

ASSUME SendAssumption ==
  /\ NumOps \in Nat /\ MaxAttempts \in Nat
  /\ Required \subseteq Ops /\ Protected \subseteq Ops
  /\ Modes \subseteq SequentialModes \cup BatchModes
  /\ Confirms \subseteq ConfirmArgs
  /\ Wallets \subseteq {"signs", "sends"}
  /\ ErrorsAreFinal \in BOOLEAN

VARIABLES
  call,       \* arguments of the current (or last) call
  answer,     \* what that call has told its caller
  failure,    \* the error it threw: whose, and of which kind
  sendFailure,\* sendFailure of the send-all-before-confirm loop
  phase,      \* where the call is with each operation
  attempt,    \* number of the operation's current transaction
  ledger,     \* the cluster's (and the network's) view of every transaction
  sent,       \* transactions onTransactionSent was called for
  recorded,   \* transactions onTransactionConfirmed completed for
  claims,     \* claims beforeProtectedClaimBroadcast completed for
  doubt       \* transactions earlier calls reported as unresolved

codeVars == <<call, answer, failure, sendFailure, phase, attempt>>
callerVars == <<sent, recorded, claims, doubt>>
vars == <<call, answer, failure, sendFailure, phase, attempt, ledger,
          sent, recorded, claims, doubt>>

\* Errors by what the code knows when it throws them.  Only "unresolved"
\* carries transactionWasSubmitted: true.
Kinds == {"rejected", "preflight", "failed", "unresolved", "callback"}
Phases == {"idle", "start", "signed", "recorded", "refused", "lost", "sent",
           "confirming", "unconfirmed", "notify", "done", "failed"}
NoFailure == [op |-> 0, kind |-> "none"]
Failures == [op : 0 .. NumOps, kind : Kinds \cup {"none"}]

\* "pending": the network has it.  "processed" and "erred": in a block a fork
\* can still drop, without and with an error.
Statuses == {"absent", "signed", "pending", "processed", "erred",
             "confirmed", "failed", "expired"}
Live == {"pending", "processed", "confirmed"}
Dead == {"absent", "signed", "failed", "expired"}
             \cup (IF ErrorsAreFinal THEN {"erred"} ELSE {})

Cur(o) == <<o, attempt[o]>>
Prepared == call.ops
Earlier(o) == {p \in Prepared : p < o}
Batched == call.mode \in BatchModes
SendAll == call.mode = "send-all-before-confirm"

ShouldConfirm(o) ==
  \/ call.confirm = "always" \/ call.mode = "sign-and-confirm-each"
  \/ call.confirm = "if-required" /\ o \in Required

Init ==
  /\ call = [mode |-> "single", confirm |-> "if-required",
             wallet |-> "signs", ops |-> {}]
  /\ answer = "idle"
  /\ failure = NoFailure /\ sendFailure = NoFailure
  /\ phase = [o \in Ops |-> "idle"]
  /\ attempt = [o \in Ops |-> 0]
  /\ ledger = [t \in Txs |-> "absent"]
  /\ sent = {} /\ recorded = {} /\ claims = {} /\ doubt = {}

-----------------------------------------------------------------------------
(* The caller.  It resubmits an operation it holds no signature for, and   *)
(* one whose failure it was told; a transaction reported as unresolved it  *)
(* refreshes first, until the cluster has settled its fate.                *)

Reported(o, kind) == answer = "threw" /\ failure = [op |-> o, kind |-> kind]

Doubtful(o) == Cur(o) \in doubt \/ Reported(o, "unresolved")

MayResubmit(o) ==
  IF Doubtful(o) THEN ledger[Cur(o)] \in {"failed", "expired"}
  ELSE Cur(o) \notin sent \/ Reported(o, "failed")

StartCall ==
  /\ answer # "running"
  /\ \E m \in Modes, c \in Confirms, w \in Wallets,
        ops \in (SUBSET Ops) \ {{}} :
       /\ m = "single" => Cardinality(ops) = 1
       /\ m \in BatchModes => w = "signs"
       /\ \A o \in ops : MayResubmit(o) /\ attempt[o] < MaxAttempts
       /\ call' = [mode |-> m, confirm |-> c, wallet |-> w, ops |-> ops]
       /\ attempt' = [o \in Ops |->
                        IF o \in ops THEN attempt[o] + 1 ELSE attempt[o]]
       /\ phase' = [o \in Ops |-> IF o \in ops THEN "start" ELSE "idle"]
       /\ IF m # "single" /\ ops \cap Protected # {}
          THEN /\ answer' = "threw"
               /\ failure' = [op |-> 0, kind |-> "rejected"]
          ELSE answer' = "running" /\ failure' = NoFailure
  /\ sendFailure' = NoFailure
  /\ doubt' = doubt \cup {Cur(o) : o \in {p \in Ops : Reported(p, "unresolved")}}
  /\ UNCHANGED <<ledger, sent, recorded, claims>>

-----------------------------------------------------------------------------
(* The call.                                                               *)

Goto(o, p) ==
  /\ phase' = [phase EXCEPT ![o] = p]
  /\ UNCHANGED <<call, answer, failure, sendFailure, attempt>>

\* An operation fails.  The sequential loops rethrow at once; the send-all
\* loop keeps a send's error in sendFailure and lets confirmations settle.
Fail(o, kind) ==
  /\ phase' = [phase EXCEPT ![o] = "failed"]
  /\ answer' = "threw" /\ failure' = [op |-> o, kind |-> kind]
  /\ UNCHANGED <<call, sendFailure, attempt>>

\* Mutant: confirmations wait for every send, also after a failed one.
SendLoopNeverBroken ==
  \A o \in Prepared : phase[o] \notin {"start", "signed", "recorded", "refused",
                                        "lost", "sent"}

SendLoopEnded ==
  \/ sendFailure # NoFailure
  \/ \A o \in Prepared : phase[o] \notin {"start", "signed", "recorded", "refused",
                                          "lost", "sent"}

FailSend(o, kind) ==
  IF SendAll
  THEN /\ phase' = [phase EXCEPT ![o] = "failed"]
       /\ sendFailure' = [op |-> o, kind |-> kind]
       /\ UNCHANGED <<call, answer, failure, attempt>>
  ELSE Fail(o, kind)

\* Mutant: the confirmation callback is not awaited.
TurnWithoutCallback(o) ==
  /\ answer = "running" /\ o \in Prepared
  /\ \A p \in Earlier(o) : phase[p] \in {"notify", "done"}

\* An operation's turn in a loop that completes each one before the next.
Turn(o) ==
  /\ answer = "running" /\ o \in Prepared
  /\ \A p \in Earlier(o) : phase[p] = "done"

\* getLatestBlockhash, compilePreparedOperation and signTransaction.
SignOne(o) ==
  /\ Turn(o) /\ ~Batched /\ phase[o] = "start"
  /\ call.wallet = "signs" \/ o \in Protected
  /\ ledger' = [ledger EXCEPT ![Cur(o)] = "signed"]
  /\ Goto(o, "signed") /\ UNCHANGED callerVars

\* The wallet declines, or no blockhash could be read.
Decline(o) ==
  /\ Turn(o) /\ ~Batched /\ phase[o] = "start"
  /\ Fail(o, "rejected") /\ UNCHANGED <<ledger, callerVars>>

\* wallet.sendTransaction signs and broadcasts in one step.
WalletSends(o) ==
  /\ Turn(o) /\ ~Batched /\ phase[o] = "start"
  /\ call.wallet = "sends" /\ o \notin Protected
  /\ ledger' = [ledger EXCEPT ![Cur(o)] = "pending"]
  /\ \/ Goto(o, "sent")
     \/ Fail(o, "rejected")     \* ... and rejects although it broadcast
  /\ UNCHANGED callerVars

\* One blockhash for the whole batch, then signAllTransactions.
SignAll ==
  /\ answer = "running" /\ Batched
  /\ \A o \in Prepared : phase[o] = "start"
  /\ ledger' = [t \in Txs |-> IF t[1] \in Prepared /\ t = Cur(t[1])
                              THEN "signed" ELSE ledger[t]]
  /\ phase' = [o \in Ops |-> IF o \in Prepared THEN "signed" ELSE phase[o]]
  /\ UNCHANGED <<call, answer, failure, sendFailure, attempt, callerVars>>

\* signAllTransactions rejects, is missing, or returns the wrong number.
DeclineAll ==
  /\ answer = "running" /\ Batched
  /\ \A o \in Prepared : phase[o] = "start"
  /\ answer' = "threw" /\ failure' = [op |-> 0, kind |-> "rejected"]
  /\ UNCHANGED <<call, sendFailure, phase, attempt, ledger, callerVars>>

\* The checks of a protected claim pass and the accounting hook has stored
\* the signed wire; or a check or the hook fails before anything is sent.
RecordClaim(o) ==
  /\ Turn(o) /\ phase[o] = "signed" /\ o \in Protected
  /\ claims' = claims \cup {Cur(o)}
  /\ Goto(o, "recorded") /\ UNCHANGED <<ledger, sent, recorded, doubt>>

RefuseClaim(o) ==
  /\ Turn(o) /\ phase[o] = "signed" /\ o \in Protected
  /\ Fail(o, "rejected") /\ UNCHANGED <<ledger, callerVars>>

\* Mutants: a protected claim skips its accounting hook; the send-all loop goes
\* on after a failed send.
ReadyToSendUnrecorded(o) ==
  /\ answer = "running" /\ o \in Prepared /\ phase[o] = "signed"
  /\ \A p \in Earlier(o) : phase[p] = "done"

ReadyToSendUnbroken(o) ==
  /\ answer = "running" /\ o \in Prepared /\ phase[o] = "signed"
  /\ \A p \in Earlier(o) : phase[p] \in {"confirming", "notify", "failed"}

ReadyToSend(o) ==
  /\ answer = "running" /\ o \in Prepared
  /\ phase[o] = IF o \in Protected THEN "recorded" ELSE "signed"
  /\ IF SendAll
     THEN /\ sendFailure = NoFailure
          /\ \A p \in Earlier(o) : phase[p] \in {"confirming", "notify"}
     ELSE \A p \in Earlier(o) : phase[p] = "done"

Broadcast(o) ==
  ledger' = [ledger EXCEPT ![Cur(o)] = IF @ = "signed" THEN "pending" ELSE @]

\* sendRawTransaction answers with the signature.
SendAccepted(o) ==
  /\ ReadyToSend(o) /\ Broadcast(o)
  /\ Goto(o, "sent") /\ UNCHANGED callerVars

\* It rejects with a deterministic preflight error: nothing was forwarded.
SendRefused(o) ==
  /\ ReadyToSend(o)
  /\ Goto(o, "refused") /\ UNCHANGED <<ledger, callerVars>>

\* It rejects with any other error: forwarded or not, the client cannot tell.
SendLost(o) ==
  /\ ReadyToSend(o)
  /\ Broadcast(o) \/ UNCHANGED ledger
  /\ Goto(o, "lost") /\ UNCHANGED callerVars

\* getSignatureStatuses: the status, or nothing (a lagging node, a failed read).
StatusesSeen(o) ==
  {"none"} \cup ({ledger[Cur(o)]} \cap {"processed", "erred", "confirmed", "failed"})

\* Mutant: an unresolved send is reported without transactionWasSubmitted.
ReconcileSendUnflagged(o) ==
  /\ answer = "running" /\ phase[o] \in {"refused", "lost"}
  /\ \E status \in StatusesSeen(o) :
       \/ status \in {"erred", "failed"} /\ FailSend(o, "failed")
       \/ status \in {"processed", "confirmed"} /\ Goto(o, "sent")
       \/ status = "none" /\ FailSend(o, "preflight")
  /\ UNCHANGED <<ledger, callerVars>>

ReconcileSend(o) ==
  /\ answer = "running" /\ phase[o] \in {"refused", "lost"}
  /\ \E status \in StatusesSeen(o) :
       \/ status \in {"erred", "failed"} /\ FailSend(o, "failed")
       \/ status \in {"processed", "confirmed"} /\ Goto(o, "sent")
       \/ /\ status = "none"
          /\ FailSend(o, IF phase[o] = "refused" THEN "preflight" ELSE "unresolved")
  /\ UNCHANGED <<ledger, callerVars>>

AfterSent(o) ==
  IF ShouldConfirm(o) THEN "confirming"
  ELSE IF Batched THEN "notify" ELSE "done"

\* onTransactionSent, and the transaction joins sentTransactions: a throwing
\* callback ends the send-all loop but its transaction is still confirmed.
NotifySent(o) ==
  /\ answer = "running" /\ phase[o] = "sent"
  /\ sent' = sent \cup {Cur(o)}
  /\ \/ Goto(o, AfterSent(o))
     \/ SendAll /\ phase' = [phase EXCEPT ![o] = AfterSent(o)]
                /\ sendFailure' = [op |-> o, kind |-> "callback"]
                /\ UNCHANGED <<call, answer, failure, attempt>>
     \/ ~SendAll /\ Fail(o, "callback")
  /\ UNCHANGED <<ledger, recorded, claims, doubt>>

\* Mutant: Promise.all in place of Promise.allSettled.
FailConfirmationAtOnce(o, kind) == Fail(o, kind)

\* A rejected confirmation of the send-all mode waits for Promise.allSettled.
FailConfirmation(o, kind) ==
  IF SendAll
  THEN /\ phase' = [phase EXCEPT ![o] = "failed"]
       /\ failure' = IF failure = NoFailure \/ o < failure.op
                     THEN [op |-> o, kind |-> kind] ELSE failure
       /\ UNCHANGED <<call, answer, sendFailure, attempt>>
  ELSE Fail(o, kind)

Confirming(o) == answer = "running" /\ (SendAll => SendLoopEnded)

ConfirmationArrives(o) ==
  /\ Confirming(o) /\ phase[o] = "confirming"
  /\ ledger[Cur(o)] = "confirmed"
  /\ Goto(o, "notify") /\ UNCHANGED <<ledger, callerVars>>

\* confirmTransaction reports an error, times out or loses its transport.
ConfirmationLost(o) ==
  /\ Confirming(o) /\ phase[o] = "confirming"
  /\ Goto(o, "unconfirmed") /\ UNCHANGED <<ledger, callerVars>>

\* Mutants: a processed status counts as confirmed; an unresolved confirmation
\* is reported as a failure.
ReconcileConfirmProcessed(o) ==
  /\ answer = "running" /\ phase[o] = "unconfirmed"
  /\ \E status \in StatusesSeen(o) :
       \/ status \in {"erred", "failed"} /\ FailConfirmation(o, "failed")
       \/ status \in {"processed", "confirmed"} /\ Goto(o, "notify")
       \/ status = "none" /\ FailConfirmation(o, "unresolved")
  /\ UNCHANGED <<ledger, callerVars>>

ReconcileConfirmUnflagged(o) ==
  /\ answer = "running" /\ phase[o] = "unconfirmed"
  /\ \E status \in StatusesSeen(o) :
       \/ status = "confirmed" /\ Goto(o, "notify")
       \/ status # "confirmed" /\ FailConfirmation(o, "failed")
  /\ UNCHANGED <<ledger, callerVars>>

ReconcileConfirm(o) ==
  /\ answer = "running" /\ phase[o] = "unconfirmed"
  /\ \E status \in StatusesSeen(o) :
       \/ status \in {"erred", "failed"} /\ FailConfirmation(o, "failed")
       \/ status = "confirmed" /\ Goto(o, "notify")
       \/ status \in {"none", "processed"} /\ FailConfirmation(o, "unresolved")
  /\ UNCHANGED <<ledger, callerVars>>

NotifyConfirmed(o) ==
  /\ Confirming(o) /\ phase[o] = "notify"
  /\ \/ Goto(o, "done") /\ recorded' = recorded \cup {Cur(o)}
     \/ FailConfirmation(o, "callback") /\ UNCHANGED recorded
  /\ UNCHANGED <<ledger, sent, claims, doubt>>

\* The loop is over: the first confirmation failure, else the send failure,
\* else the signatures.
Settle ==
  /\ answer = "running"
  /\ IF SendAll
     THEN /\ SendLoopEnded
          /\ \A o \in Prepared : phase[o] \in {"signed", "done", "failed"}
     ELSE \A o \in Prepared : phase[o] = "done"
  /\ failure' = IF failure # NoFailure THEN failure ELSE sendFailure
  /\ answer' = IF failure' # NoFailure THEN "threw" ELSE "returned"
  /\ UNCHANGED <<call, sendFailure, phase, attempt, ledger, callerVars>>

-----------------------------------------------------------------------------
(* The cluster.                                                            *)

Transition(t) ==
  \/ ledger[t] = "pending" /\ ledger' = [ledger EXCEPT ![t] = "processed"]
  \/ ledger[t] = "pending" /\ ledger' = [ledger EXCEPT ![t] = "erred"]
  \/ ledger[t] = "processed" /\ ledger' = [ledger EXCEPT ![t] = "confirmed"]
  \/ ledger[t] = "erred" /\ ledger' = [ledger EXCEPT ![t] = "failed"]
  \/ ledger[t] \in {"signed", "pending"} /\ ledger' = [ledger EXCEPT ![t] = "expired"]

Cluster(t) == Transition(t) /\ UNCHANGED <<codeVars, callerVars>>

\* A fork drops the block the transaction was in.
Fork(t) ==
  /\ ledger[t] = "processed" \/ (~ErrorsAreFinal /\ ledger[t] = "erred")
  /\ ledger' = [ledger EXCEPT ![t] = "pending"]
  /\ UNCHANGED <<codeVars, callerVars>>

CodeStep(o) ==
  \/ SignOne(o) \/ Decline(o) \/ WalletSends(o) \/ RecordClaim(o) \/ RefuseClaim(o)
  \/ SendAccepted(o) \/ SendRefused(o) \/ SendLost(o) \/ ReconcileSend(o)
  \/ NotifySent(o) \/ ConfirmationArrives(o) \/ ConfirmationLost(o)
  \/ ReconcileConfirm(o) \/ NotifyConfirmed(o)

BatchStep == SignAll \/ DeclineAll \/ Settle

Next ==
  \/ StartCall \/ BatchStep
  \/ \E o \in Ops : CodeStep(o)
  \/ \E t \in Txs : Cluster(t) \/ Fork(t)

Spec == Init /\ [][Next]_vars

\* Every await of a call settles: the wallet and the callbacks answer, an RPC
\* request resolves or rejects, and confirmTransaction gives up at the
\* blockhash's last valid height.  The caller and the cluster need no fairness.
Fairness == WF_vars(BatchStep) /\ \A o \in Ops : WF_vars(CodeStep(o))
FairSpec == Spec /\ Fairness
-----------------------------------------------------------------------------
(* Properties.                                                             *)

\* Every variable stays in its range.
TypeOK ==
  /\ call \in [mode : SequentialModes \cup BatchModes, confirm : ConfirmArgs,
               wallet : {"signs", "sends"}, ops : SUBSET Ops]
  /\ answer \in {"idle", "running", "returned", "threw"}
  /\ failure \in Failures /\ sendFailure \in Failures
  /\ phase \in [Ops -> Phases]
  /\ attempt \in [Ops -> 0 .. MaxAttempts]
  /\ ledger \in [Txs -> Statuses]
  /\ sent \subseteq Txs /\ recorded \subseteq Txs
  /\ claims \subseteq Txs /\ doubt \subseteq Txs

\* However calls fail and are repeated, no two transactions of one operation
\* are ever able to take effect (sendSignedTransactionWithReconciliation and
\* confirmSubmittedTransaction never let an ambiguous outcome read as a failure).
AtMostOnce ==
  \A o \in Ops : \A j, k \in 1 .. MaxAttempts :
    ledger[<<o, j>>] \in Live /\ ledger[<<o, k>>] \in Live => j = k

\* An error without transactionWasSubmitted is never thrown while a transaction
\* the caller holds no signature for, or the one that failed, can still land.
FailureIsFinal ==
  answer = "threw" /\ failure.kind \in {"rejected", "preflight", "failed"} =>
    /\ \A o \in Prepared : Cur(o) \in sent \/ ledger[Cur(o)] \in Dead
    /\ failure.op \in Ops => ledger[Cur(failure.op)] \in Dead

\* sign-and-confirm-each: a wallet approval is requested only after every
\* predecessor is confirmed on chain and its confirmation callback has completed.
DependentOrder ==
  call.mode = "sign-and-confirm-each" =>
    \A o \in Prepared : ledger[Cur(o)] # "absent" =>
      \A p \in Earlier(o) : ledger[Cur(p)] = "confirmed" /\ Cur(p) \in recorded

\* Signatures are returned only when every operation that had to be confirmed is
\* confirmed by the cluster, whatever its transport reported.
ReturnMeansConfirmed ==
  answer = "returned" =>
    \A o \in Prepared : ShouldConfirm(o) => ledger[Cur(o)] = "confirmed"

\* A call that ends leaves no transaction it sent without its confirmation
\* attempted, even when a later send or an earlier confirmation failed.
SentAreSettled ==
  answer \in {"returned", "threw"} =>
    \A o \in Prepared : Cur(o) \in sent => phase[o] \in {"done", "failed"}

\* The accounting hook has stored a protected claim before the network has it.
ClaimRecordedFirst ==
  \A t \in Txs : t[1] \in Protected /\ ledger[t] \in Live => t \in claims

\* A loop stops at its first failure: no transaction is handed to the network
\* after an earlier operation of the call has failed.
StopsAtFirstFailure ==
  [][\A o \in Prepared : ledger[Cur(o)] \in {"absent", "signed"} /\ ledger'[Cur(o)] = "pending" =>
       \A p \in Earlier(o) : phase[p] # "failed" /\ sendFailure = NoFailure]_vars

\* Every call ends, one way or the other.
CallEnds == answer = "running" ~> answer # "running"
=============================================================================
