----------------------------- MODULE ActivityFeed -----------------------------
(***************************************************************************)
(* Activity of one owner: getActivity and subscribeActivity of             *)
(* createSolanaWalletDataClient (packages/solana-wallet/src/client.ts)     *)
(* over createRpcActivityProvider                                          *)
(* (providers/default-activity-provider.ts).                               *)
(*                                                                         *)
(* Transactions are numbered in the order in which they land; a number is  *)
(* the signature.  All calls ask for the newest page with one set of       *)
(* options, hence share one cache key.  A page is the set of activities it *)
(* shows.  An action is what runs between two awaits.                      *)
(***************************************************************************)
EXTENDS Naturals, Sequences, FiniteSets

CONSTANTS
  Loads,         \* identities of loaders: as many run at once
  NoLoader,
  Limit,         \* historyLimit
  BatchSize,     \* signatures of one request: twice the limit, 30 at least
  MaxPages,      \* MAX_SIGNATURE_PAGES
  SignatureCap,  \* signatures remembered: 200 in the code
  MaxSignature,  \* bound: transactions that land
  MaxBehind,     \* bound: landings while a page is read or cached, or a notice
                 \* is on its way
  MaxFailures,   \* bound: requests that fail
  Histories,     \* which transactions are relevant, which are late, in the
                 \* histories tried
  Options        \* ways to subscribe that are tried

Signatures == 1 .. MaxSignature
AllOptions == [emitInitial : BOOLEAN, fallback : BOOLEAN]

\* relevant: normalizeParsedTransaction makes an activity of them.  late:
\* getParsedTransaction(s) does not know them at once when they have landed.
AllHistories == [relevant : SUBSET Signatures, late : SUBSET Signatures]

ASSUME ActivityAssumption ==
  /\ NoLoader \notin Loads
  /\ {Limit, BatchSize, MaxPages, SignatureCap} \subseteq Nat \ {0}
  /\ {MaxSignature, MaxBehind, MaxFailures} \subseteq Nat
  /\ Options \subseteq AllOptions /\ Histories \subseteq AllHistories
  /\ MaxBehind < SignatureCap

VARIABLES
  options,    \* of the subscription
  history,    \* of the wallet
  landed,     \* transactions that have landed
  late,       \* of these, those that are late still
  failures,   \* requests that have failed
  cache,      \* activityCache's entry: a page, and within its TTL or not
  load,       \* the loaders that run, see NoLoad
  inflight,   \* the one inflightActivityRequests holds
  status,     \* subscription: "none", "initial" (emitInitial's page or the
              \* log subscription is awaited), "open", "closed"
  listening,  \* its onLogs subscription was accepted
  waiting,    \* loaders that refreshLatest calls await
  emitting,   \* of the page being emitted, the activities still to come
  seen,       \* seenSignatures, oldest first
  processed,  \* of the provider's processedSignatures those a notice can
              \* still be about: the cap drops none of these
  fetching,   \* signatures whose transaction a log callback awaits
  given       \* how often each activity was given to onActivity, 2 for more

chainVars == <<history, landed, late>>
clientVars == <<cache, load, inflight>>
subVars == <<status, listening, waiting, emitting, seen, processed, fetching,
            given>>
activityVars == <<options, chainVars, failures, clientVars, subVars>>

\* top: the newest signature the page knew of (for the bound of Land only).
NoPage == [valid |-> FALSE, page |-> {}, top |-> 0]
\* top: the newest signature of the first request; cursor: the oldest one of the
\* last; asks: requests made; found: the activities so far.
NoLoad == [runs |-> FALSE, top |-> 0, cursor |-> 0, asks |-> 0, found |-> {}]

ActivityInit ==
  /\ options \in Options
  /\ history \in Histories /\ landed = 0 /\ late = {} /\ failures = 0
  /\ cache = NoPage /\ load = [l \in Loads |-> NoLoad] /\ inflight = NoLoader
  /\ status = "none" /\ listening = FALSE /\ waiting = {} /\ emitting = {}
  /\ seen = <<>> /\ processed = {} /\ fetching = {}
  /\ given = [s \in Signatures |-> 0]

-----------------------------------------------------------------------------
(* Remembering and emitting.                                               *)

\* Mutant: the size is looked at before the signature is added.
RememberMore(signatures, s) ==
  Append(IF Len(signatures) > SignatureCap THEN Tail(signatures) ELSE signatures, s)

\* Mutant: no more is remembered than a page shows.
RememberFew(signatures, s) ==
  LET longer == Append(signatures, s) IN
  IF Len(longer) > Limit THEN Tail(longer) ELSE longer

\* A set of at most SignatureCap entries that drops its oldest one.
Remember(signatures, s) ==
  LET longer == Append(signatures, s) IN
  IF Len(longer) > SignatureCap THEN Tail(longer) ELSE longer

\* emitIfNew.
EmitIfNew(s) ==
  \/ (\E i \in DOMAIN seen : seen[i] = s) /\ UNCHANGED <<seen, given>>
  \/ /\ \A i \in DOMAIN seen : seen[i] # s
     /\ seen' = Remember(seen, s)
     /\ given' = [given EXCEPT ![s] = IF @ = 0 THEN 1 ELSE 2]

\* Mutant: what arrives after the close is still emitted.
EmitsAnyway == TRUE

Emits == status # "closed"

\* One turn of the loop over a page, its oldest activity first.  Nothing else runs
\* in this client before the loop ends but what its callback does: it may close.
Emit ==
  /\ \E s \in emitting :
       /\ \A t \in emitting : s <= t
       /\ emitting' = emitting \ {s}
       /\ IF Emits THEN EmitIfNew(s) ELSE UNCHANGED <<seen, given>>
  /\ UNCHANGED <<options, chainVars, failures, clientVars, status, listening, waiting,
                 processed, fetching>>

-----------------------------------------------------------------------------
(* getActivity of the client: the cache, a shared loader, one of its own.  *)

StartLoad(l) ==
  /\ load[l] = NoLoad
  /\ load' = [load EXCEPT ![l] = [NoLoad EXCEPT !.runs = TRUE]]
  /\ inflight' = l

\* refreshLatest: an unforced getActivity.
RefreshLatest ==
  \/ /\ cache.valid /\ emitting' = cache.page
     /\ UNCHANGED <<load, inflight, waiting>>
  \/ /\ ~cache.valid /\ inflight # NoLoader
     /\ waiting' = waiting \cup {inflight}
     /\ UNCHANGED <<load, inflight, emitting>>
  \/ /\ ~cache.valid /\ inflight = NoLoader
     /\ \E l \in Loads : StartLoad(l) /\ waiting' = waiting \cup {l}
     /\ UNCHANGED emitting

\* Another caller; of those that change nothing here nothing is said.
Call(force) ==
  /\ force \/ (~cache.valid /\ inflight = NoLoader)
  /\ \E l \in Loads : StartLoad(l)
  /\ UNCHANGED <<options, chainVars, failures, cache, subVars>>

\* The loader ends: the entry it still holds is deleted and whoever awaits it
\* goes on, the subscription with emitting the page.
Ends(l, page, entry) ==
  /\ cache' = entry
  /\ load' = [load EXCEPT ![l] = NoLoad]
  /\ inflight' = IF inflight = l THEN NoLoader ELSE inflight
  /\ waiting' = waiting \ {l}
  /\ emitting' = IF l \in waiting THEN page ELSE {}
  /\ UNCHANGED <<options, chainVars, status, listening, seen, processed, fetching, given>>

-----------------------------------------------------------------------------
(* getActivity of the provider.                                            *)

\* Mutant: every request asks for the newest signatures.
BatchOfNewest(cursor) == {s \in Signatures : s <= landed /\ landed < s + BatchSize}

\* The signatures of a request: those before the cursor.
Batch(cursor) == {s \in Signatures : s < cursor /\ cursor <= s + BatchSize}

\* The newest desiredCount activities of those found.
NewestOf(found) == {s \in found : Cardinality({t \in found : t > s}) < Limit}

\* A request for signatures and the one for their transactions: what lands
\* between the two is in neither, what gets known between them might as well
\* have been known before.
ReadBatch(l) ==
  LET asks == load[l].asks + 1
      top == IF asks = 1 THEN landed ELSE load[l].top
      cursor == IF asks = 1 THEN landed + 1 ELSE load[l].cursor
      batch == Batch(cursor)
      found == load[l].found \cup ((batch \cap history.relevant) \ late)
      ends == batch = {} \/ Cardinality(found) >= Limit \/ asks = MaxPages
  IN
  /\ load[l].runs
  /\ \/ /\ ends
        /\ Ends(l, NewestOf(found),
                [valid |-> TRUE, page |-> NewestOf(found), top |-> top])
     \/ /\ ~ends
        /\ load' = [load EXCEPT ![l] =
             [runs |-> TRUE, top |-> top, asks |-> asks, found |-> found,
              cursor |-> IF cursor > BatchSize THEN cursor - BatchSize ELSE 1]]
        /\ UNCHANGED <<options, chainVars, cache, inflight, subVars>>
  /\ UNCHANGED failures

RequestFails(l) ==
  /\ load[l].runs /\ failures < MaxFailures
  /\ failures' = failures + 1
  /\ Ends(l, {}, cache)

-----------------------------------------------------------------------------
(* subscribeActivity.                                                      *)

Subscribe ==
  /\ status = "none" /\ status' = "initial"
  /\ \/ ~options.emitInitial /\ UNCHANGED <<load, inflight, waiting, emitting>>
     \/ options.emitInitial /\ RefreshLatest
  /\ UNCHANGED <<options, chainVars, failures, cache, listening, seen, processed,
                 fetching, given>>

\* The first page has been emitted or has failed; the log subscription is accepted
\* or not.
Subscribed ==
  /\ status = "initial" /\ waiting = {} /\ status' = "open"
  /\ listening' \in BOOLEAN
  /\ UNCHANGED <<options, chainVars, failures, clientVars, waiting, emitting, seen,
                 processed, fetching, given>>

Tick ==
  /\ options.fallback /\ status = "open"
  /\ RefreshLatest
  /\ UNCHANGED <<options, chainVars, failures, cache, status, listening, seen,
                 processed, fetching, given>>

\* The transactions a notice may be about.
Recent(n) == {s \in 1 .. n : n <= s + MaxBehind}

\* The logs of a transaction: it may be told of again, or never.
LogNotice(s) ==
  /\ listening /\ status = "open"
  /\ s \in Recent(landed)
  /\ s \notin processed /\ processed' = processed \cup {s}
  /\ fetching' = fetching \cup {s}
  /\ UNCHANGED <<options, chainVars, failures, clientVars, status, listening,
                 waiting, emitting, seen, given>>

\* Its transaction, or null when it is not to be had yet.
FetchAnswers(s) ==
  /\ s \in fetching /\ fetching' = fetching \ {s}
  /\ emitting' = {s} \cap (history.relevant \ late)
  /\ UNCHANGED <<options, chainVars, failures, clientVars, status, listening,
                 waiting, seen, processed, given>>

FetchFails(s) ==
  /\ s \in fetching /\ fetching' = fetching \ {s}
  /\ failures < MaxFailures /\ failures' = failures + 1
  /\ UNCHANGED <<options, chainVars, clientVars, status, listening, waiting,
                 emitting, seen, processed, given>>

Close ==
  /\ status = "open" /\ status' = "closed"
  /\ UNCHANGED <<options, chainVars, failures, clientVars, listening, waiting,
                 emitting, seen, processed, fetching, given>>

-----------------------------------------------------------------------------
(* Time and the chain.                                                     *)

\* DEFAULT_ACTIVITY_CACHE_TTL_MS has passed, or invalidateCaches was called.
Expire ==
  /\ cache.valid /\ cache' = NoPage
  /\ UNCHANGED <<options, chainVars, failures, load, inflight, subVars>>

\* Nothing the client works with is more than MaxBehind transactions old.
StaysNear(signature) == landed < signature + MaxBehind

Land ==
  /\ landed < MaxSignature
  /\ cache.valid => StaysNear(cache.top)
  /\ \A l \in Loads : load[l].asks > 0 => StaysNear(load[l].top)
  /\ \A s \in fetching \cup late : StaysNear(s)
  /\ landed' = landed + 1
  /\ late' = late \cup (history.late \cap {landed'})
  /\ processed' = processed \cap Recent(landed')
  /\ UNCHANGED <<options, history, failures, clientVars, status, listening,
                 waiting, emitting, seen, fetching, given>>

Arrive(s) ==
  /\ s \in late /\ late' = late \ {s}
  /\ UNCHANGED <<options, history, landed, failures, clientVars, subVars>>

\* What JavaScript runs when no loop does; what lands during one might as well
\* land behind it.
BetweenLoops ==
  \/ \E force \in BOOLEAN : Call(force)
  \/ \E l \in Loads : ReadBatch(l) \/ RequestFails(l)
  \/ Subscribe \/ Subscribed \/ Tick \/ Land
  \/ \E s \in Signatures : LogNotice(s) \/ FetchAnswers(s) \/ FetchFails(s)

ActivityNext ==
  \/ Emit \/ Close \/ Expire
  \/ \E s \in Signatures : Arrive(s)
  \/ emitting = {} /\ BetweenLoops

ActivitySpec == ActivityInit /\ [][ActivityNext]_activityVars

\* The interval and the TTL run, requests end, transactions get known.  Other
\* callers and the log subscription have no fairness.
ActivityFairness ==
  /\ WF_activityVars(Emit) /\ WF_activityVars(Expire)
  /\ WF_activityVars(emitting = {} /\ Tick)
  /\ \A l \in Loads : WF_activityVars(emitting = {} /\ ReadBatch(l))
  /\ WF_activityVars(\E s \in Signatures : Arrive(s))

ActivityFairSpec == ActivitySpec /\ ActivityFairness

-----------------------------------------------------------------------------
Pages == SUBSET Signatures

ActivityTypeOK ==
  /\ options \in Options
  /\ history \in Histories
  /\ landed \in 0 .. MaxSignature /\ late \subseteq 1 .. landed
  /\ failures \in 0 .. MaxFailures
  /\ cache \in [valid : BOOLEAN, page : Pages, top : 0 .. landed]
  /\ load \in [Loads -> [runs : BOOLEAN, top : 0 .. landed,
                         cursor : 0 .. landed + 1,
                         asks : 0 .. MaxPages, found : Pages]]
  /\ inflight \in Loads \cup {NoLoader}
  /\ status \in {"none", "initial", "open", "closed"} /\ listening \in BOOLEAN
  /\ waiting \subseteq Loads /\ emitting \in Pages
  /\ seen \in Seq(Signatures) /\ Len(seen) <= SignatureCap
  /\ processed \in Pages /\ fetching \in Pages
  /\ given \in [Signatures -> 0 .. 2]

\* No activity is given to the subscriber twice, although the log callback,
\* the interval and pages of other callers all report it and the set that
\* remembers it is capped (seenSignatures).  This holds while the cap is large
\* against a page and against what lands while one is on its way.
ShownOnce == \A s \in Signatures : given[s] <= 1

\* What refreshLatest is there to find: an activity of the newest Limit, not
\* behind more transactions than the provider looks through.
InReach(s) ==
  /\ s \in history.relevant /\ s <= landed
  /\ Cardinality({t \in history.relevant : s < t /\ t <= landed}) < Limit
  /\ landed - s < BatchSize * MaxPages

Missed == {s \in Signatures : InReach(s) /\ given[s] = 0}

\* With the fallback interval no activity is missed for good: not when its
\* notice is lost, its transaction is fetched too early or the fetch fails,
\* whatever other callers leave in the cache (subscribeActivity).
NothingMissed ==
  []<>(options.fallback /\ status = "open" => Missed = {})

\* Once it has unsubscribed, a subscriber gets no further activity, also from
\* a page or a transaction that was awaited when it did.
NothingAfterClose == [][status = "closed" => given' = given]_activityVars

=============================================================================
