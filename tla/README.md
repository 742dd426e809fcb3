# TLA+ verification of loyal-packages

`loyal-packages` is a monorepo of TypeScript packages. The ones with behaviour
of their own are `smart-account-vaults` (the client of Squads smart accounts:
proposals, policies, spending limits, Earn, Voltr, autodeposit, and the sending
of what it prepares), `solana-wallet` (portfolio and activity of a wallet) and
`wallet-core` (React hooks over both). The other packages are schemas, generated
codecs, stateless HTTP clients and pure functions.

Paths below are relative to `packages/`. `PROJECT.json` maps every definition of
the models to the lines it stands for.

## Parts of the system

### smart-account-vaults

| part | state it keeps | operations |
|---|---|---|
| Wallet send (`wallet.ts`) | none across calls; in a call, the position of each operation, `sendFailure`, `sentTransactions` | `sendPreparedWithWallet`, `sendPreparedBatchWithWallet` in three modes, reconciliation of sends and confirmations |
| Earn policy resolution (`client.ts`) | none; the chain (`policySeed`, one account per seed) and the control plane's `knownRoute` | resolve a pair, complete a route, create a pair, canonical checks |
| Proposals and Settings changes (`client.ts`) | none; the chain (signers, `transactionIndex`, `staleTransactionIndex`, proposals) | prepare payments and changes, list, approve, reject, execute |
| Spending limits (`client.ts`, `spending-limits.ts`) | none; the policy accounts | add and remove agents, permissions, set and remove limits, what is shown of them |
| Earn deposit, withdrawal, cleanup, refund (`client.ts`, `earn/`) | caches of Kamino bundles and of rent | prepare deposits, full and partial withdrawals, cleanup, refund |
| Cross-mint swap policies (`client.ts`) | none; the chain | create the swap policies at fixed seeds |
| Autodeposit (`client.ts`) | none; recurring delegations, token approvals, sweep policies | setup stages, close, pull |
| Voltr, Earn MAX (`voltr/`) | none; vault position, withdrawal receipt, temporary fence policy | deposit, request, claim, remainder recovery |
| Policy security, wire format, diagnostics | none | pure functions |

How they interact: every `prepare...` reads accounts over RPC and returns
operations (instructions and signers); the application hands those to the wallet
send, which signs, broadcasts and confirms; what lands on chain is what the next
`prepare` reads. Nothing locks the chain between the read and the landing: other
members, other devices of the same owner, agents under policies and the control
plane act meanwhile. That gap is the source of most hazards here.

Hard: an RPC error says nothing about a transaction; several operations make one
change and any of them may fail or be lost; seeds and indexes are predicted from
a read (`policySeed + 1`, `transactionIndex + 1`) and taken by whoever lands
first; a whole policy is replaced by an update prepared from an old read.
Correct means: no operation takes effect twice; an error reported as final is
final; dependent operations keep their order; nothing is created where something
is; what was prepared from a current read is accepted; what can be acted on is
listed; limits bound what is spent; a setup that completes is the one the server
accepts and a closed one moves nothing; a full withdrawal leaves nothing behind,
least of all when it removes the policies; a claim consumes the receipt its owner
approved and meets its minimum; whoever goes on trying is done some day.

### solana-wallet

| part | state it keeps | operations |
|---|---|---|
| Portfolio (`client.ts`) | `portfolioCache`, `inflightPortfolioRequests`, per subscription `refreshTimer`, `isRefreshing`, `needsRefresh`, `pendingForceRefresh` | `getPortfolio`, `subscribePortfolio`, `invalidateCaches` |
| Activity (`client.ts`, `providers/default-activity-provider.ts`) | `activityCache`, shared loaders, `seenSignatures`, `processedSignatures` | `getActivity`, `subscribeActivity`, log subscription |
| Parsers and arithmetic | none | pure functions |

Both feeds share loaders between callers and subscriptions, which react to
websocket notices and to intervals. Hard: overlapping loaders that end in any
order, a notice during a refresh, the close of a subscription under a running
refresh, a websocket that never connects. Correct means: forced reads are fresh,
no notice is forgotten, emissions do not go back, the last version is shown in
the end, nothing is emitted after the close.

### wallet-core and the rest

`use-wallet-data`, `use-wallet-balances`, `use-swap`, `use-send` and
`use-unshield` hold React state over these clients. `use-wallet-data` runs two
effects per wallet, one that loads and one that subscribes; both set the same
state, and answers of earlier runs come after their cleanup. Correct means: what
is shown belongs to the wallet connected, no row vanishes, the newest portfolio
is shown in the end.

`llm-core`'s retry loop, `shared`'s expo push and view models, `auth-core`,
`db-core`, `flags`, `solana-rpc`, `api`, `solana-instruction-decoder`,
`loyal-actions` and the generated smart-account packages keep no state between
calls.

## Modules

Each component has one module; `MC<module>` extends it with the sets its
configurations use, `<module>Proofs` with its theorems; those of `Proposals` and
`SpendingLimits` share `SettingsProofs`, those of `WalletDataHook` and
`ActivityFeed` share `WalletDataProofs`, for which `Proposals` and `ActivityFeed`
have names of their own (`ProposalsInit`, `ActivitySpec`). `PortfolioView`
is the abstract specification `PortfolioFeed` implements.

The modules meet in two places. What `PortfolioFeed` and `ActivityFeed` prove or
check of the client (portfolios do not go back, the last one comes in the end,
each activity is given) is what `WalletDataHook` takes for granted of it. And the
modules that prepare operations send them the way `WalletSend` shows a batch is
sent: one after the other, stopping at the first failure, an answer lost meaning
that a transaction may still land.

### WalletSend

State: `call`, `answer`, `failure`, `sendFailure` and `phase` are the arguments,
the outcome, the thrown error, the local `sendFailure` and the position of each
operation in the functions of `wallet.ts`; `attempt` numbers the transactions
compiled for an operation; `ledger` is the cluster's view of every transaction;
`sent`, `recorded`, `claims` say which callbacks completed; `doubt` is what the
caller was told is unresolved.

One action is the code between two awaits: `SignOne`, `SignAll`, `RecordClaim`
(the accounting hook of a protected Voltr claim), `SendAccepted`, `SendRefused`
(deterministic preflight error) and `SendLost` (any other error),
`ReconcileSend`, `NotifySent`, `ConfirmationArrives`, `ConfirmationLost`,
`ReconcileConfirm`, `NotifyConfirmed`, `Settle` (`Promise.allSettled` and the
choice of the error to throw). The environment is the wallet, the cluster
(`Transition`, `Fork`) and `StartCall`, a caller that resubmits exactly what it
is allowed to: an operation it holds no signature for, one it was told has
failed, and one reported unresolved only once the cluster has settled it.

Runs: `send_resubmit` (two operations, two attempts each, in every mode but
send-all) and `send_one_call` (three operations, one call, all modes). Two
operations and two attempts are the smallest instance with a predecessor and a
resubmission, three operations the smallest with one between a sent and a failed
one. `ErrorsAreFinal` says whether a status with an error at the processed
commitment stays; the code assumes so.

### EarnPolicyResolve

State: the chain's `policySeed` and `policies` (a kind per seed: `route`,
`setup`, the older `legacy` route, `odd` for the state of an Earn policy with
other signers, threshold or timelock, `other` for anything the scan skips),
transactions in flight, what the control plane has recorded, and of each client
its reads. `Begin` starts a preparation with or without a `knownRoute`; the reads
it starts together (`ReadSettings`, `ReadScan`, `ReadKnown`) answer in any order;
`DecideKnown`, `ScanThrows`, `TryRoute`, `CompleteNewest`, `NoRoute`,
`ProbeTarget` and `Recheck` are the branches of
`resolveEarnYieldRoutingPolicyForPreparation`. `Submit`, `Land`, `Fails`,
`Expires`, `Crash` and `Foreign` are the sending of the prepared creations one
after the other, and everybody else.

Runs: `resolve_race` (two clients, four seeds, initial chains that are empty,
hold an older pair, a policy with other signers, or a route without its setup,
both token programs, one crash or expired transaction, one foreign policy)
passes; `resolve_dead_end` is a finding. Two clients are needed for a race for a
seed; four seeds hold two pairs, so that a second pair beside the first can be
seen.

### PortfolioFeed

State: the cache entry and its validity, the loader each owner has started, whose
loader is shared, and the variables of one subscription under their names in the
code; a snapshot is the version of the wallet it shows. A callback with its
promise reactions is one action, as JavaScript runs it. `Call`, `Read`,
`Answer`, `LoadFails` are `getPortfolio`; `Subscribe`, `Subscribed`, `Notice`,
`Tick`, `TimerFires`, `LoadEnds`, `Close` are `subscribePortfolio`; `Expire` and
`Invalidate` are the TTL and `invalidateCaches`. The asset provider's read is
linearizable. The fallback interval is longer than the debounce, as in every use
in the repository.

`options` are those of the subscription, and whether its provider may call
`onChange` before `subscribeAssetChanges` has resolved (the default provider
cannot, a custom one may).

`PortfolioView` is what all this is for: while it is subscribed, a subscriber is
shown versions the wallet has gone through, each no older than the one before.
`KeepsPromise` is its specification with `world`, `shown` and `status` mapped to
the version of the wallet, the last emission and the state of the subscription;
every step of the client is one of its steps or none.

Run: `feed`, over four combinations of the options that turn each of them on and
off. Two versions are enough for "stale or fresh" and for an emission that goes
back; a caller beside the subscription, for a loader that is shared and for an
in-flight entry replaced while another loader still runs.

### ActivityFeed

State: the cache entry, the loaders that run and the shared one, of the
subscription `seenSignatures` and the loaders its refreshes await, of the
provider the signatures it has been told of and the transactions it is fetching.
Transactions are numbered as they land; `history` says which of them are
activities and which are known to `getParsedTransaction` only later. `Call` is
another caller; `ReadBatch` and `RequestFails` are the provider's `getActivity`, up
to `MaxPages` batches of signatures behind a `cursor`; `Subscribe`, `Subscribed`
(the log subscription answers), `Tick`, `Close`, `LogNotice`, `FetchAnswers`,
`FetchFails` are `subscribeActivity` of client and provider; `Expire` is the TTL
or `invalidateCaches`. `Emit` is one turn of the loop over a page (376 to 380):
nothing else runs in the client until the loop ends, but the callback it calls may
unsubscribe, and what is left of the page must then not be given. Pages behind a cursor are left out:
the client neither caches them nor shares them with the newest page, and nothing
in the repository asks for one.

`MaxBehind` bounds how many transactions land while a page is read or cached or
a notice is on its way. `ShownOnce` needs a cap that is large against this and
against `Limit`: in the run, where both are one, three signatures are enough and
the mutant that keeps one is caught; the code has 200 for pages of 25 that are
cached for 15 s. Without
`emitInitial` the first tick gives the subscriber the whole page of history, one
activity after the other, as it does new ones.

Run: `activity`, a cap of three and four transactions, so that a signature is
forgotten; either all of them are activities, or the first and the last, so that
a page takes two batches; one request fails.

### Proposals

State: the accounts of the program (`signers`, `policies`, `index`, `stale`,
`proposal`) and of each member the `operation` it prepared, the indexes its
listing is reading and what it was shown. `PreparePayment` and
`PrepareSettingsChange` read; `LandCreate`, `LandSync`, `LostOperation` are the
fate of what they prepared; `ListProposals` reads the consensus account and `ListArrives`
the batch of derived addresses; `Approve`, `Reject` and `Execute` act on what was
listed. The program is external: its transaction indexes count up, synchronous
execution leaves `transactionIndex` alone, a change of the signers makes earlier
transactions stale, approved ones stay executable.

Run: `proposals` (two members, thresholds one and two, payments, every signer
change and the creation of a policy). One transaction per consensus account is
enough for races for an index: the next one, past `MaxIndex`, is prepared and
never lands. `BatchLimit` stands for the 100 accounts of one RPC request.

### SpendingLimits

State: the clock, `policySeed`, the policy of each seed, the change each manager
has prepared together with the policy it read, and `ledger`, the true period of
each policy, what was spent in it and the most that may be. That period opens
when the program opens it, with the first use after a reset. `AddAgent`, `AddAgentByDefault`,
`UpdatePermissions`, `RemoveAgent`, `SetLimit`, `RemovePolicy` are the
preparations; `Land` and `Lost` their end, at once or after a vote; `Spend` and
`Tick` are the agents and the clock. `ValidPayload` holds the program's error
codes 6083 to 6098; a limit resets when more than a period has passed, not at
the boundary. `EffectiveRemaining` and `NextReset` are `spending-limits.ts`,
compared with what the program would let through.

Run: `limits` (two managers, two agents, with and without carried-over amounts,
recurring and one-time). Agents pause while a change is on its way
(`AgentsPause`); without it a change gives back what was spent since it was read,
see below. `PreparedIsAccepted` leaves out the two kinds of change the program
refuses whoever prepares them (`AlwaysRefused`). A period of two and a clock of
five reach both sides of a boundary, a second period and a missed one.

### EarnAutodeposit

State: on chain `policySeed`, what is at each policy seed, the subscription
authority, a recurring delegation per nonce and the token approval, of which an
account has one; transactions on their way; the autodeposits the application has
recorded and the closed ones; of each device its stage, what its reads found and
what it has prepared. `StartSetup` asks for a setup; `ReadAuthority`,
`ReadSettings`, `SwitchSeed`, `ReadAccounts`, `SecondFromEvidence` and
`SecondFromReads` are the awaits and branches of
`prepareEarnUsdcAutodepositSetupStage` and of the batch of its last two stages;
`StartClose`, `ReadShape`, `FetchPolicy`, `ReadDelegation` and `ReadApproval`
those of the close, whose policy is fetched twice. `Send`, `Settled`,
`AnswerLost` and `Retry` are the application, which hands the seed of one stage
to the next. `LandSetup`, `LandClose`, `Fails` and `Expires` are the cluster;
`CreateRoute` takes seeds for Earn deposits, `ForeignApproval` takes the
approval, or uses it up.

`Canonical` is what `assertEarnUsdcAutodepositCanonicalArtifacts` asks of policy
and delegation, `Adopted` says that a setup went on with the policy of another
one, and `PullAccepted` is what lets `prepareEarnUsdcAutodepositPull` move funds. The amounts
that a pull sweeps and the expiry of a delegation are left out.

Run: `autodeposit_setup`, two devices, four seeds of which one may be used up
before, one setup at a time, as single stages and as a batch, one answer lost or
transaction expired, two policies or approvals of others. One nonce and one
amount are enough for retries and for races for a seed; what several of them add
is covered by the theorems, which hold for any. With two of each TLC shows how a
setup adopts a policy for another amount, see the disagreements. Reads of
Settings are current here (`Lags`); see there for stale ones.

### EarnPosition

State: on chain the vault's shares per reserve, their rate, which obligations and
token accounts exist, idle amounts per mint, its SOL in units of an obligation's
rent, and the pairs of Earn policies; of each device what it was asked for, the
amounts it has read and its remaining steps. `since` remembers where others have
added funds after the caller looked, and what they have used since (`Used`): an
operation cannot be expected to take the one along or to find the other. `Begin` and `Again` read the holdings (`fetchEarnRpcHoldingsSnapshot`)
and choose; `Read` reads the vault; `PrepareExit`, `PreparePartial`,
`PrepareIdle`, `PrepareDeposit`, `PrepareCleanup` and `PrepareRefund` are the
preparations, each with its simulation: how reserves are batched (`Batches`: the
mint with the larger total first, the mint's address deciding between equal ones,
at most `PerApproval` reserves each, in any order within a mint, since what orders
them is left out), what is transferred exactly, which step closes accounts, sweeps SOL and
removes the policies. `Send` and `Answer` send a plan step by step; `Land`
applies a transaction as a whole or not at all. `Accrue`, `Rebalance` and `Pull`
are interest, the delegate and Autodeposit.

A deposit may be refused because the wallet holds less than the amount. Otherwise
it creates the Earn policies first when there are none (`PolicyStage`), and then
deposits and opens the missing obligation in one transaction (`DepositStage`,
`Opens`); the rent top-up (`TopUp`) rides in the first of the two.

Shares redeem for whole amounts at a whole rate, with the rounding of
`calculateKaminoCollateralAmountForRedeemableLiquidityRaw` (up) and of Kamino
(down) kept: at rate two a withdrawal of three takes two shares and leaves one
unit over. Sums over reserves count units of liquidity (`Liquidity`). Prices, APYs
and the fallback of a failed simulation are left out.

Run: `position`, two devices, three reserves of two mints and idle funds of one, so
that an exit has two steps of one mint and a third of another, one operation each
or two of one device, and one event of others. Larger instances, one mint and two
events, or three operations, pass as well.

### EarnMaxVoltr

State: the authority's LP and USDC, the one pending receipt and its cooldown,
price and basis of the vault, whether it has liquidity, `policySeed`; of each
device its approval (`consent`), the seed it read, what it prepared; transactions
on their way. `Ask` and `Begin` call `prepareEarnMaxVoltr` with an approval the
owner may have signed earlier; `ReadSettings` and the four `Build...` are its
reads and the plans of `plans.ts`; `Send`, `Resend`, `Held`, `AnswerLost` and
`Answer` are `sendPreparedWithWallet`, which sends what is prepared again when
its fate is unknown. `FenceHolds`, `DepositCertified`, `BaselineAndFloor` and the
pin of the receipt's bytes are the assertions compiled into the transaction, which
the programs evaluate when it lands. `Reprice`, `Drain`, `Replenish`, `Given`,
`Donate`, `CreatePolicy`, `OutsideClaim` and `OutsideRequest` are everybody else.

Run: `voltr`, two devices, requests of one LP and of all, prices one and two, two
operations and two events. Two operations reach a second request behind a claim,
so that an old approval meets a new receipt; three with one event pass too.

### WalletDataHook

State: React's state of the hook, the variables every run of its effects closes
over (`cancelled`, `closed`, what its load and its subscriptions have given), the
store of local rows, which outlives the component, and the chart with its key.
`Connect`, `Disconnect` and `Remount` are a render, the cleanups of the last run
and the effects of the next in one action, as React commits them; `LoadAnswers`
and `LoadFails` the load; `PortfolioEmits` and `ActivityEmits` the subscriptions;
`AddLocalActivity` a caller with the callback of some earlier render. `mixed`
records that one wallet followed another without a disconnect, or that a callback
of an earlier wallet was called: there the hook keeps rows, rightly or not (see
the disagreements), and the property asks less.

Run: `hook`, two wallets, three runs of the effects, so that the first wallet can
come back, one activity of each, one failed load.

## What the runs show

Passing runs of the sending show that the reconciliation of `wallet.ts` does
what its comments promise in the sequential modes, and that the send-all mode
settles everything it has sent. The one of the resolution shows that pairs are
never torn and that a preparation never hands out a policy that is not there,
whoever races. Those of the feeds show that the four flags of the portfolio
subscription lose no request, that the client keeps the promise of
`PortfolioView`, and that the interval of the activity subscription makes up for
whatever the log subscription drops; the one of the hook, that `cancelled` and
`closed` are enough to keep late answers out. Those of proposals and limits show
that what is prepared from a current read is accepted, and that a vote is for
what was shown. The one of Autodeposit shows that handing the seed from stage to
stage makes a setup end with one policy through lost answers and late
transactions, and that a close is for good; the one of the Earn position, that
exits leave nothing behind and partial withdrawals are paid from their reserve;
the one of Voltr, that fence, pin and floor do what they are there for.

Finding, with its run and the line it contradicts in `PROJECT.json`:

1. `resolve_dead_end`: two interrupted creations block every further preparation.
   With a single interruption, from the chains a client can resume,
   `EventuallyReady` holds. With two devices and a single interruption a second
   route may be created above a stranded one, and a `knownRoute` recorded for
   that one throws "noncanonical" for ever.

Disagreements met while modelling that have no run of their own. Where constants
are named they show it in a few states:

- `wallet.ts:571`: in send-all mode a definite confirmation failure of one operation
  is thrown in place of the unresolved send of the next (`FailureIsFinal`, with
  `Modes = {"send-all-before-confirm"}`, two operations, one attempt). The comment
  `wallet.ts:325-327` and the test `wallet.test.ts:280-325` promise that unresolved
  sends are told apart.
- `client.ts:4661`: a change of a policy writes the usage it read; what agents spent
  before it lands can be spent again (`SpentWithinLimit`, with `AgentsPause = FALSE`,
  `DefaultAdds = FALSE`, limits 1 and 3, one manager and one agent), against
  "preservation behavior" of updates in `README.md:286` of the package.
- `wallet.ts:238`: an error at the processed commitment is taken as final. With
  `ErrorsAreFinal = FALSE` and two attempts of one operation `AtMostOnce` fails.
- `client.ts:6974`: the scan and the Settings read straddle the landing of an
  interrupted attempt, and a second pair is prepared beside the first
  (one client, one fault).
- `client.ts:5303`: approved payments at or below `staleTransactionIndex` are
  executable and not listed; `client.ts:5179`: an account with more than 100 open
  transactions cannot be listed at all (`ExecutableIsListed`, with `MaxIndex = 2`,
  and with `BatchLimit` below `MaxIndex`).
- `client.ts:5560`: `fetchPolicyOverview` skips the policy scan of an account whose
  `transactionIndex` is 0, giving "no-settings-transactions" as the reason
  (`client.ts:5576`), but a policy created synchronously, at threshold one, uses no
  index (`PoliciesAreScanned`, one member, no payment).
- `client.ts:7285`: the default policy of a new agent has limit 0, which the
  program refuses; `client.ts:4661`: a usage state is submitted also with
  `accumulateUnused`, which it refuses too (`AlwaysRefused`).
- `spending-limits.ts:77`: at the boundary of a period the next reset is announced
  one period late (`NextResetIsNext`).
- `client.ts:11566`: the close accepts that nothing is at the policy's seed (comment
  at 11556), but `resolvePoliciesForClose` throws then (12175), so an autodeposit
  whose policy is gone cannot be closed, and its delegation stays. Between the two
  reads an Earn deposit may create its route at the seed, which the close would
  remove.
- `client.ts:11588`: an approval that another application sets between the read and
  the landing of a close is revoked with it.
- `client.ts:11251`: the second stage of a batch reports "policy and recurring
  delegation already exist" without a policy, because it assumes the first one's.
- `client.ts:11105`: with a stale read of Settings (`Lags = {0, 1}`) a seed that is
  still good is given up, and an orphan policy is left. The adoption of a policy
  found at the seed looks at its kind only: with a policy for another amount the
  setup goes on to its end, and the server refuses what it has made (10587). And a
  retry that asks for the seed that collides collides again until its caller drops it.
- `client.ts:3303`: when the idle balance falls between its read (9705) and the
  simulation, `resolveSimulatedRedeemedAmountRaw` takes the whole simulated balance
  for what was redeemed, idle funds and all.
- `client.ts:3106`: the comment has the rent of obligations lost; 9853 to 9861 refund it.
- `client.ts:3088`: interest between the simulation and the landing of an exit leaves
  dust, with which the account close of the same transaction fails; the exit must be
  prepared again. A partial withdrawal split over reserves throws whenever Kamino's
  rounding falls short (9776). The refund's check for a live position sees token accounts only.
- `client.ts:9856`: the sweep, "can only undershoot", overdraws when others use the
  vault's SOL or refill a reserve that was to be emptied.
- `voltr/plans.ts:381`: "only new proceeds can meet the floor" fails when somebody
  sends USDC to the account after the preparation; the property leaves that out.
- `wallet.ts:391`: the expiry of an approval is checked before the broadcast only.
  Receipts opened by another client carry no fence, and an older approval for the
  same LP claims them. After a lost answer the owner may prepare a request or a
  deposit anew, and both may land: only one prepared operation is protected.
- `use-wallet-data.ts:381`: an activity given by the subscription while the history
  loads is replaced by the older history and not given again. After a switch of
  wallets whose load fails, the activities of the wallet before stay (364 resets
  only without a wallet). Local rows stay when nothing is stored for the new
  wallet, and are stored as its own by the next one added (336, 349); a callback
  kept from an earlier render overwrites the store. The chart of the new wallet is
  computed from the data of the old and kept (547). A subscription that opens
  after its cleanup is never closed (450).
- `use-wallet-balances.ts:32`: a late answer for the wallet before replaces the
  balances of the present one.
- `use-swap.ts:394`: a confirmation whose error mentions a timeout is reported as
  "signing timed out", although the transaction was sent; nothing guards against a
  second call of `executeSwap` while one runs.

## Fairness

- WalletSend: weak fairness of the call's own steps. Every await settles: RPC
  requests resolve or reject, `confirmTransaction` ends at the last valid block
  height, wallets and callbacks answer. The caller and the cluster have none.
- EarnPolicyResolve: weak fairness of a client's own steps, of its retrying and
  of the fate of a submitted transaction (it lands or fails).
- PortfolioFeed: weak fairness of the timers and the interval, strong fairness of
  reads and answers: loads may fail, but not for ever. The websocket has none.
- ActivityFeed: weak fairness of the requests, the interval and the TTL; a bounded
  number of requests fails; log notices and other callers have none.
- EarnAutodeposit: weak fairness of each device's steps (reads are answered, what is
  prepared is sent, a failed setup is retried), strong fairness of a current read of
  Settings, weak fairness of the fate of a transaction: a blockhash expires. Nobody
  has to begin a setup or a close, others have none.
- EarnPosition, EarnMaxVoltr: the same, and the owner goes on trying; in Voltr the
  cooldown passes and the vault's manager restores liquidity, which no code here can
  do for it: without that a claim waits.
  Interest, rebalances, prices and outside clients have none, and are bounded.
- WalletDataHook: weak fairness of each run's load and of the portfolio it is shown
  last, which `Converges` of `PortfolioFeed` justifies; a bounded number of loads
  fails.

## Proofs

`WalletSendProofs` proves, for every number of operations and attempts:

- `TypeCorrect`: `Spec => []TypeOK`, from `TInv`, which adds that a running call
  has an attempt for each of its operations.
- `SubmittedAtMostOnce` and `FailuresAreFinal`: `AtMostOnce` and `FailureIsFinal`
  under `CarefulUse`: the send-all mode is not used, wallets sign and do not send
  themselves, errors at the processed commitment are final. `wallet.ts:571` (above)
  is why the first of these is needed, a fork that drops an error that the
  last is; `wallet.sendTransaction` rejecting after a broadcast is why the second
  is.

- without any condition, in every mode: `OrderIsKept` (`DependentOrder`),
  `ReturnsAreConfirmed` (`ReturnMeansConfirmed`), `SentIsSettled`
  (`SentAreSettled`), `ClaimsAreRecorded` (`ClaimRecordedFirst`) and the action
  property `LoopsStop` (`StopsAtFirstFailure`).

Neither of the properties under `CarefulUse` is inductive. `IInv` adds what the code knows at each position:
transactions not compiled yet are absent and those of earlier attempts dead
(`HistoryInv`), what the phase of an operation says about its ledger entry
(`PhaseInv`, `KnowledgeInv`), what was reported or is in doubt (`ReportInv`,
`DoubtInv`), and that a call works on one operation at a time (`CallInv`, lemma
`Alone`). `CodeStepSafe`, `StartCallSafe`, `BatchStepSafe` and `ClusterSafe`
preserve it, one step per action; `SafetyInductive` puts them together. The key
fact is `DeadStaysDead`: a transaction refused, failed or expired never lives
again, so that a resubmission, allowed only then, adds no second live one.

The other five rest on `LoopInv`, which is about the loops and not about the
errors: what a phase means on the cluster (`MeaningInv`), that attempts to come
have left no trace (`FutureInv`), that a loop which completes each operation
before the next has touched none behind the one it is at (`OrderInv`), that a
failure is not forgotten and a call ends with nothing half done (`EndInv`), and
that a claim the network has had is recorded, also when a fork drops it
(`ClaimInv`).

`PortfolioFeedProofs` proves, for every number of callers and versions and every
set of options, all safety properties of the feed: `FeedTypeCorrect`,
`RequestsAreKept`, `QuietIsFresh`, `ForcedCallsAreFresh`, `SharedLoaderIsNewest`,
`ClosedStaysSilent` and `EmissionsGoForward`. They rest on one inductive
invariant, `FInv`:

- `WaitInv`: whoever waits for a loader waits for one that runs and reads after
  the call; needed for `ForcedIsFresh` when the loader ends.
- `PastInv`: nothing cached, read, emitted or noticed is newer than the wallet.
- `OwnLoadInv`, `StatusInv`: the subscription has a loader only while it
  refreshes, a timer only while it is subscribing or subscribed.
- `RefreshInv`, the reason why emissions go forward: only the first refresh of a
  subscription is unforced, before anything has been emitted or noticed, and a
  forced one starts its own loader, which reads after everything emitted before.
  It fails with a provider that notifies before it has subscribed, and so do
  `QuietMeansFresh` and `EmissionsNeverGoBack`, which leave that case out.

`StartRefreshSafe`, `RequestRefreshSafe`, `CallSafe`, `ReadSafe` and
`LoadEndsSafe` preserve it, one per function of the client, and `NextSafe` puts
them together. `Close` needs no case in `ClosedStaysSilent` beyond `StatusInv`:
the timer is off and the running refresh ends without emitting or rerunning.
`FeedImplementsView` is the refinement: initial states map to initial states, and
each step to `Changes`, `Begins`, `Opens`, `Shows`, `Closes` or none, where
`RefreshInv` gives the order and `PastInv` that a version shown has been.

`EarnPolicyResolveProofs` proves the safety of the resolution for every number of
clients, seeds, foreign transactions and faults: `ResolveTypeCorrect`,
`PairsAreNotTorn` (`SetupHasRoute`), `ReadyPairsExist` and the action property
`PlansAreForAbsentSeeds` (`TargetsAbsent`). `ResolveAssumption` asks that an
account starts with seeds in order and no setup without its route. `SafeInv` adds:

- `ChainInv`: seeds are used in order, none above `policySeed` holds a policy.
- `ViewInv`: what a client has read is still there, since policies are only ever
  added; so a route found by an old read needs no second look.
- `TargetInv`: the route to complete is the last policy the client counted. With
  `ChainInv` and the second read of Settings this gives `TargetsAbsent`: when
  `policySeed` is unchanged, the seed after it is empty.
- `PlanInv` and `InflightInv`: a plan is a pair or the setup of an existing route;
  only its head is in flight, so a setup is sent after its route has landed.
  Without the second the chain could take a setup first, and tear the pair.

`SettingsProofs` proves, for every number of managers, agents and policies and all
amounts and periods: `LimitsTypeCorrect`, `CurrentIsAccepted`
(`PreparedIsAccepted`) and `OverviewIsRight` (`ShownIsSpendable`). Neither type
correctness nor acceptance is inductive without `PreparedInv`: what is prepared
keeps a signer, a limit per use within the limit per period and a usage within it
(`UpdateOK`, `CreateOK`, `RemoveOK`), and was prepared from a policy that existed.
`PeriodsPassedRange` is the arithmetic: the reset a use leaves behind is not in the
future.

Its `NothingSpentTwice` is `SpentWithinLimit`, when agents pause while a change is
on its way. `BudgetInv` relates the policy to the true period: its last reset is
when that period opened, and what is left and what was spent are together within
the limit, unless amounts are carried over. `ChangeInv` says the same of each
change prepared and of what will be written when it lands. The condition cannot
be dropped: the usage a change writes is the one it read, and without the pause
TLC spends a limit twice (`client.ts:4661` above).

For proposals it proves, for every number of members, policies and transactions:
`ProposalsTypeCorrect`, `ShownIsVotedOn` (`ListedIsVotedOn`) and
`CurrentIsSendable` (`PreparedIsSendable`). The reason is that indexes are
used once: `UsedInv` (each used index has its transaction) and `ReadInv` (nobody
reads or was shown an unused one) make the content at a listed index permanent,
because `LandCreate` writes one above `index` only. `OperationInv` ties the
transaction index of an operation to its read, and the synchronous path to a
threshold of one.

`EarnAutodepositProofs` proves, for every number of devices, seeds, setups and
amounts:

- `AutodepositTypeCorrect`.
- `ClosedForGood` (`ClosedStaysClosed`), from two facts: `SeedsInv`, nothing is at
  a seed above `policySeed`, and `ClosedInv`, the seed of a closed row is used up
  and holds no sweep policy. A late transaction of the setup can restore the
  delegation and the approval, but its policy needs the seed `policySeed + 1`,
  which is never that one again.
- `CompletedIsAccepted` (`CompletedIsCanonical`), however stale the reads of
  Settings are. `SetupInv` says whose work everything there is of a setup is
  (`OwnInv`, `TraceInv`): one device works on a nonce at a time, whatever is on
  its way or on chain for that nonce is for its amount, and a nonce is not asked
  for again while anything of it may still land. Beside this a stage is prepared
  when those before it have landed (`PlanInv`, `LandedInv`), and the rows of
  completed setups agree with the chain (`RowsInv`).
- `NoSecondPolicy` (`OnePolicyPerSetup`) when reads of Settings are current
  (`Lags = {0}`), without which it fails (`client.ts:11105` above). A policy of a
  setup `Lives` at a seed when it is there or a transaction that can still create
  it is on its way; `OneInv` says that it lives at one seed only, the one its
  device aims for (`Aim`), through the reads that change that seed.

`EarnPositionProofs` proves, for every number of devices, reserves and mints and
all amounts and rates: `PositionTypeCorrect`, `SweepIsCovered`
(`SweepNeverOverdraws`), and the action properties `NothingIsStranded`
(`ExitLeavesNothing`) and `IdleIsSpared` (`PartialSparesIdle`). It assumes finitely
many reserves, mints in some order of their addresses, and a rate that is at least
one. The invariant is about what a plan promises, transaction by transaction, when
others act between its reads and its landing:

- `PlanInv` and `LateInv`: a sweep takes what SOL there was and what the plan's own
  rent refunds add (`Sweeps`), an exit empties its reserves and closes the accounts
  of each mint in the last batch of that mint (`Empties`, `EveryMintEnds`), a partial
  withdrawal pays from its reserve (`Spares`), each but for the places in `since`
  that others have touched.
- `OrderInv`: a plan is sent in order, and what goes before its last step neither
  sweeps nor removes policies nor closes an account a later step pays into.
- `OwnInv`: of a device one transaction at most awaits its answer, and `WorkInv`:
  what it has read still holds, but for those places.

Steps are of two sorts. One of somebody else records the places it touches in every
plan that is on its way, and keeps each promise beside them (`LandForeign`,
`ForeignSweeps`, `ForeignSpares`, `ForeignEmpties`, `Watching`). One of the plan's
own earlier steps touches none of what the later ones promise, except as they
reckon with it (`OwnSweeps`, `OwnEmpties`). Sums over reserves are cardinalities of
sets of units, so that `LiquiditySum` and `LiquidityGrows` follow from the
library's theorems about finite sets, without induction.

`EarnMaxVoltrProofs` proves, for every number of devices, amounts, prices and events:
`TypeCorrect`, `OnceOnly` (`TakesEffectOnce`), `ApprovedOnly` (`ConsentedReceipt`)
and `FloorMet` (`ProceedsMeetFloor`). `Inv` says of every plan, prepared or sent,
that its seed is at most the next one, that what has landed is behind the seed or
the basis it was prepared for (`Spent`), and that a claim at the next seed still
fits the receipt its approval names and takes all that is in the account beside
its floor (`Fit`); and of every device that an approval at the present seed is for
the pending receipt (`DeviceInv`). The fence is what carries these over a step:
whatever opens or consumes a receipt behind one raises `policySeed`, and with it
puts every other fenced plan out of reach.

`WalletDataProofs` proves of the hook, for every number of wallets, runs and activities:
`HookTypeCorrect`, `WalletIsShown` (`ShowsItsWallet`) and `RowsStay`
(`NothingVanishes`). The key is `RunInv`: only the last run of the effects is
neither cancelled nor closed, and it is the connected wallet's; `OwnInv`,
`LocalInv`, `ChartInv` and `OnceInv` say whose data each piece of state shows.

And of the activity feed, for any page size, batches, number of loaders, history of
the wallet and number of failures: `ActivityTypeCorrect` (`ActivityTypeOK`),
`ClosedIsQuiet` (`NothingAfterClose`) and

    NothingGivenTwice ==
      SignatureCap > 2 * (Limit + 2 * MaxBehind) => (ActivitySpec => []ShownOnce)

The argument counts. `ReachInv` bounds how old anything is that the subscription is
about to give: an activity of a page has fewer than `Limit` newer ones in the page,
at most `MaxBehind` that were not known yet when it was read (`LoadInv`, over the
batches of a load), and at most `MaxBehind` that have landed since (`CacheInv`); so
at most `Reach` activities are newer. `GivenInv` says that what has been given is
remembered or has more than `Reach` newer ones (`Forgets`). The step that matters is
the one where the cap drops the oldest entry: of those remembered behind it at most
`Reach` are older activities, given late (`Remembers`, lemma `OlderAreFew`), hence
more than `Reach` are newer (`DroppedIsFar`), and nothing that old is given again.
With the 200 and 25 of the code the condition is that at most 37 transactions land
while a page is read or cached. It is sufficient and not necessary: the run's cap of
three is below it. A `historyLimit` of 100 and more is outside it whatever lands,
and the repository passes none.

Only model-checked: all liveness (`CallEnds`, `Converges`, `EventuallyReady`,
`NothingMissed`, `SetupsEnd`, `OperationsEnd`), which is out of the prover's reach
with fairness and ENABLED. No module uses a RECURSIVE operator.

## Not modelled

- Pure functions: the arithmetic of prices and totals, the parsers of transactions,
  the comparison of policies with their canonical form, the wire format, wording of
  errors, forecasts and view models. They have no order of steps to get wrong; where
  a model needs one it has its verdict (a kind of policy, an error class).
- Stateless packages: `loyal-actions` builds payloads and instructions from
  constants, `api` and the smart-account packages are generated, `db-core` declares
  tables no code here operates on, `auth-core`, `flags`, `solana-rpc` and the decoder
  are schemas, tables and codecs. `llm-core` has one sequential retry loop, which
  its tests reach. They are more than half of the implementation's lines.
- `prepareEarnCrossMintSwapPolicies`: it predicts seeds from a read as the resolution
  does, and its creations meet the same races; its own scan is not modelled.
- The caches of Kamino bundles, rents and lookup tables: what they hold does not
  change, or fails a simulation, which `EarnPosition` has.
- `use-wallet-balances` (one request), `use-swap`, `use-send` and `use-unshield`, whose
  state is a request id and the outcome of one transaction; Voltr's visibility.
- Account rent beside that of obligations, fees and compute budgets.

## Plan

Done: sending, resolution, both feeds, proposals, limits, Autodeposit, the Earn
position, Voltr, the wallet hook, and the abstract specification of the portfolio
feed. Left, in this order:

1. At-most-once submission as an abstract specification that `WalletSend` implements
   (refinement mapping from `ledger`), and `EarnPosition` over it.
2. The cross-mint policies as another client of `EarnPolicyResolve`.
3. The request ids and timeouts of `use-swap`.
