---------------------------- MODULE PortfolioFeed ----------------------------
(***************************************************************************)
(* Portfolio snapshots of one owner: getPortfolio, subscribePortfolio and  *)
(* invalidateCaches of createSolanaWalletDataClient (packages/             *)
(* solana-wallet/src/client.ts), over the asset provider they call.        *)
(*                                                                         *)
(* A snapshot is the version of the wallet it shows.  JavaScript runs one  *)
(* callback to the end, its promise reactions included, before the next    *)
(* event: an action is a whole callback.                                   *)
(***************************************************************************)
EXTENDS Naturals

CONSTANTS
  Callers,     \* direct callers of getPortfolio
  Sub,         \* the one subscription of subscribePortfolio
  None,
  MaxVersion,  \* bound: versions the wallet goes through
  Options      \* ways to subscribe that are tried

Owners == Callers \cup {Sub}
Versions == 1 .. MaxVersion

\* early: subscribeAssetChanges may call onChange before it resolves.
\* debounce: debounceMs > 0.  fallback: fallbackRefreshMs > 0, and longer than
\* the debounce.
AllOptions == [early : BOOLEAN, emitInitial : BOOLEAN,
               debounce : BOOLEAN, fallback : BOOLEAN]

ASSUME FeedAssumption ==
  /\ Sub \notin Callers /\ None \notin Owners
  /\ MaxVersion \in Nat \ {0}
  /\ Options \subseteq AllOptions

VARIABLES
  options,     \* the subscription's options, and how its provider behaves
  chain,       \* the wallet's version on chain
  cache,       \* portfolioCache's entry: a version, and within its TTL or not
  load,        \* the loader each owner has started and not seen end
  inflight,    \* whose loader inflightPortfolioRequests holds
  newest,      \* whose loader was started last
  call,        \* what each direct caller waits for or was given
  status,      \* subscription: "none", "opening" (subscribeAssetChanges has not
               \* resolved), "open", "closed"
  listening,   \* its subscribeAssetChanges succeeds
  timer,       \* refreshTimer: "off", or armed by a "change" or a "tick"
  refreshing,  \* isRefreshing: whose loader runRefresh awaits
  needsRefresh, pendingForceRefresh,
  emitted,     \* the last version given to onPortfolio, 0 for none
  erred,       \* onError was called since
  noticed      \* the newest version a change notice was about

clientVars == <<cache, load, inflight, newest>>
subVars == <<status, listening, timer, refreshing, needsRefresh,
             pendingForceRefresh, emitted, erred, noticed>>
vars == <<options, chain, cache, load, inflight, newest, call, subVars>>

NoEntry == [version |-> 0, valid |-> FALSE]
NoLoad == [state |-> "none", version |-> 0]
Idle == [waits |-> None, since |-> 0, got |-> 0]

Init ==
  /\ options \in Options
  /\ chain = 1
  /\ cache = NoEntry
  /\ load = [o \in Owners |-> NoLoad]
  /\ inflight = None /\ newest = None
  /\ call = [c \in Callers |-> Idle]
  /\ status = "none" /\ listening = FALSE /\ timer = "off" /\ refreshing = None
  /\ needsRefresh = FALSE /\ pendingForceRefresh = FALSE
  /\ emitted = 0 /\ erred = FALSE /\ noticed = 0

-----------------------------------------------------------------------------
(* getPortfolio: the cache, then a shared loader, then a loader of one's   *)
(* own.                                                                    *)

\* Mutant: a forced refresh shares a loader that is already running.
SharesAlways(force) == inflight # None

Cached(force, entry) == ~force /\ entry.version # 0 /\ entry.valid

Shares(force) == inflight # None /\ ~force

StartLoad(o) ==
  /\ load[o] = NoLoad
  /\ load' = [load EXCEPT ![o] = [state |-> "asked", version |-> 0]]
  /\ inflight' = o /\ newest' = o

Call(c) ==
  /\ call[c].waits = None
  /\ \E force \in BOOLEAN :
       LET since == IF force THEN chain ELSE 0 IN
       IF Cached(force, cache)
       THEN /\ call' = [call EXCEPT ![c] =
                 [waits |-> None, since |-> 0, got |-> cache.version]]
            /\ UNCHANGED clientVars
       ELSE /\ IF Shares(force)
               THEN UNCHANGED <<load, inflight, newest>>
               ELSE StartLoad(c)
            /\ call' = [call EXCEPT ![c] =
                 [waits |-> IF Shares(force) THEN inflight ELSE c,
                  since |-> since, got |-> 0]]
            /\ UNCHANGED cache
  /\ UNCHANGED <<options, chain, subVars>>

\* getAssetSnapshot reads the wallet some time after it was asked.
Read(o) ==
  /\ load[o].state = "asked"
  /\ load' = [load EXCEPT ![o] = [state |-> "read", version |-> chain]]
  /\ UNCHANGED <<options, chain, cache, inflight, newest, call, subVars>>

-----------------------------------------------------------------------------
(* The subscription.                                                       *)

\* runRefresh when nothing is being refreshed: getPortfolio with the cache
\* entry at that moment.  An answer from the cache is emitted at once.
StartRefresh(force, entry) ==
  /\ needsRefresh' = FALSE /\ pendingForceRefresh' = FALSE
  /\ IF Cached(force, entry)
     THEN /\ emitted' = entry.version /\ erred' = FALSE /\ refreshing' = None
          /\ UNCHANGED <<load, inflight, newest>>
     ELSE /\ IF Shares(force)
             THEN refreshing' = inflight /\ UNCHANGED <<load, inflight, newest>>
             ELSE refreshing' = Sub /\ StartLoad(Sub)
          /\ UNCHANGED <<emitted, erred>>

ForceOf(force) == pendingForceRefresh \/ force

RequestRefresh(force, by) ==
  IF options.debounce
  THEN /\ timer' = by
       /\ needsRefresh' = TRUE /\ pendingForceRefresh' = ForceOf(force)
       /\ UNCHANGED <<load, inflight, newest, refreshing, emitted, erred>>
  ELSE IF refreshing # None
  THEN /\ needsRefresh' = TRUE /\ pendingForceRefresh' = ForceOf(force)
       /\ UNCHANGED <<load, inflight, newest, timer, refreshing, emitted, erred>>
  ELSE StartRefresh(ForceOf(force), cache) /\ UNCHANGED timer

Subscribe ==
  /\ status = "none" /\ status' = "opening"
  /\ listening' \in BOOLEAN
  /\ UNCHANGED <<options, chain, clientVars, call, timer, refreshing, needsRefresh,
                 pendingForceRefresh, emitted, erred, noticed>>

Subscribed ==
  /\ status = "opening" /\ status' = "open"
  /\ IF options.emitInitial
     THEN RequestRefresh(FALSE, "change")
     ELSE UNCHANGED <<load, inflight, newest, timer, refreshing, needsRefresh,
                      pendingForceRefresh, emitted, erred>>
  /\ UNCHANGED <<options, chain, cache, call, listening, noticed>>

Notifies ==
  /\ listening /\ noticed < chain
  /\ status \in {"open"} \cup (IF options.early THEN {"opening"} ELSE {})

\* Mutant: a notice that comes while a refresh runs is dropped.
QuietNotice ==
  /\ Notifies
  /\ noticed' = chain
  /\ IF refreshing = None THEN RequestRefresh(TRUE, "change")
     ELSE UNCHANGED <<load, inflight, newest, timer, refreshing, needsRefresh,
                      pendingForceRefresh, emitted, erred>>
  /\ UNCHANGED <<options, chain, cache, call, status, listening>>

Notice ==
  /\ Notifies
  /\ noticed' = chain
  /\ RequestRefresh(TRUE, "change")
  /\ UNCHANGED <<options, chain, cache, call, status, listening>>

\* Mutant: the fallback interval does not force its refresh.
TickUnforced ==
  /\ options.fallback /\ status = "open" /\ timer # "tick"
  /\ RequestRefresh(FALSE, "tick")
  /\ UNCHANGED <<options, chain, cache, call, status, listening, noticed>>

\* The fallback interval; it is longer than the debounce, so that the timer
\* a tick has armed fires before the next tick.
Tick ==
  /\ options.fallback /\ status = "open" /\ timer # "tick"
  /\ RequestRefresh(TRUE, "tick")
  /\ UNCHANGED <<options, chain, cache, call, status, listening, noticed>>

TimerFires ==
  /\ timer # "off" /\ timer' = "off"
  /\ IF refreshing = None /\ needsRefresh
     THEN StartRefresh(pendingForceRefresh, cache)
     ELSE UNCHANGED <<load, inflight, newest, refreshing, needsRefresh,
                      pendingForceRefresh, emitted, erred>>
  /\ UNCHANGED <<options, chain, cache, call, status, listening, noticed>>

Close ==
  /\ status = "open" /\ status' = "closed"
  /\ timer' = "off"
  /\ UNCHANGED <<options, chain, clientVars, call, listening, refreshing, needsRefresh,
                 pendingForceRefresh, emitted, erred, noticed>>

-----------------------------------------------------------------------------
(* A loader ends; everything that awaits it goes on before the next event: *)
(* its owner drops it from the in-flight map, callers get the snapshot,    *)
(* the subscription emits it and starts the refresh asked for meanwhile.   *)

Drop(o) == IF inflight = o THEN None ELSE inflight

Reruns == status # "closed" /\ needsRefresh

\* Mutant: a refresh that ends after the close still emits.
EmitsAnyway == TRUE

Emits == status # "closed"

\* onPortfolio or onError, for a refresh that got a version (0: an error).
Tell(got) ==
  /\ emitted' = IF got # 0 /\ Emits THEN got ELSE emitted
  /\ erred' = (got = 0)

Freed(o) == [load EXCEPT ![o] = NoLoad]

\* The subscription's part of the end of o's loader.  A rerun calls
\* getPortfolio with entry in the cache and without o's loader in flight.
RefreshEnds(o, got, entry) ==
  LET force == pendingForceRefresh IN
  \/ /\ ~Reruns
     /\ Tell(got) /\ refreshing' = None
     /\ load' = Freed(o) /\ inflight' = Drop(o)
     /\ UNCHANGED <<newest, needsRefresh, pendingForceRefresh>>
  \/ /\ Reruns /\ needsRefresh' = FALSE /\ pendingForceRefresh' = FALSE
     /\ \/ /\ Cached(force, entry)
           /\ emitted' = entry.version /\ erred' = FALSE /\ refreshing' = None
           /\ load' = Freed(o) /\ inflight' = Drop(o) /\ UNCHANGED newest
        \/ /\ ~Cached(force, entry) /\ ~force /\ Drop(o) # None
           /\ Tell(got) /\ refreshing' = Drop(o)
           /\ load' = Freed(o) /\ inflight' = Drop(o) /\ UNCHANGED newest
        \/ /\ ~Cached(force, entry) /\ (force \/ Drop(o) = None)
           /\ Tell(got) /\ refreshing' = Sub
           /\ load' = [Freed(o) EXCEPT ![Sub] = [state |-> "asked", version |-> 0]]
           /\ inflight' = Sub /\ newest' = Sub

LoadEnds(o, got, entry) ==
  /\ cache' = entry
  /\ call' = [c \in Callers |-> IF call[c].waits = o
                THEN [waits |-> None, since |-> call[c].since, got |-> got]
                ELSE call[c]]
  /\ IF refreshing = o
     THEN RefreshEnds(o, got, entry)
     ELSE /\ load' = Freed(o) /\ inflight' = Drop(o)
          /\ UNCHANGED <<newest, refreshing, needsRefresh, pendingForceRefresh,
                         emitted, erred>>
  /\ UNCHANGED <<options, chain, status, listening, timer, noticed>>

Answer(o) ==
  /\ load[o].state = "read"
  /\ LoadEnds(o, load[o].version, [version |-> load[o].version, valid |-> TRUE])

LoadFails(o) ==
  /\ load[o].state # "none"
  /\ LoadEnds(o, 0, cache)

-----------------------------------------------------------------------------
(* The rest of the client and the world.                                   *)

\* DEFAULT_PORTFOLIO_CACHE_TTL_MS has passed.
Expire ==
  /\ cache.valid /\ cache' = [cache EXCEPT !.valid = FALSE]
  /\ UNCHANGED <<options, chain, load, inflight, newest, call, subVars>>

\* invalidateCaches deletes the entry; loaders in flight are left alone.
Invalidate ==
  /\ cache # NoEntry /\ cache' = NoEntry
  /\ UNCHANGED <<options, chain, load, inflight, newest, call, subVars>>

WalletChanges ==
  /\ chain < MaxVersion /\ chain' = chain + 1
  /\ UNCHANGED <<options, clientVars, call, subVars>>

Next ==
  \/ \E c \in Callers : Call(c)
  \/ \E o \in Owners : Read(o) \/ Answer(o) \/ LoadFails(o)
  \/ Subscribe \/ Subscribed \/ Notice \/ Tick \/ TimerFires \/ Close
  \/ Expire \/ Invalidate \/ WalletChanges

Spec == Init /\ [][Next]_vars

\* Timers and the interval run; the asset provider always answers in the
\* end, and does not fail for ever.
Fairness ==
  /\ WF_vars(TimerFires) /\ WF_vars(Tick)
  /\ \A o \in Owners : SF_vars(Read(o)) /\ SF_vars(Answer(o))

FairSpec == Spec /\ Fairness

-----------------------------------------------------------------------------
TypeOK ==
  /\ options \in Options /\ chain \in Versions
  /\ cache \in [version : 0 .. MaxVersion, valid : BOOLEAN]
  /\ load \in [Owners -> [state : {"none", "asked"}, version : {0}]
                           \cup [state : {"read"}, version : Versions]]
  /\ inflight \in Owners \cup {None} /\ newest \in Owners \cup {None}
  /\ call \in [Callers -> [waits : Owners \cup {None}, since : 0 .. MaxVersion,
                           got : 0 .. MaxVersion]]
  /\ status \in {"none", "opening", "open", "closed"}
  /\ listening \in BOOLEAN /\ timer \in {"off", "change", "tick"}
  /\ refreshing \in Owners \cup {None}
  /\ needsRefresh \in BOOLEAN /\ pendingForceRefresh \in BOOLEAN
  /\ emitted \in 0 .. MaxVersion /\ erred \in BOOLEAN
  /\ noticed \in 0 .. MaxVersion

\* A refresh somebody asked for is never forgotten: while needsRefresh is set
\* on an open subscription, the debounce timer or the end of the running
\* refresh is still to come and starts it (runRefresh, requestRefresh).
PendingIsScheduled ==
  status # "closed" /\ needsRefresh => timer # "off" \/ refreshing # None

\* When an open subscription has nothing left to do, its subscriber has seen
\* every change it was notified of, or the error of the last attempt: no
\* notice is swallowed by a running refresh, the cache or a shared loader.
\* (A provider that notifies before it has subscribed can defeat this.)
QuietMeansFresh ==
  ~options.early /\ status # "closed" /\ refreshing = None /\ ~needsRefresh
    => emitted >= noticed \/ erred

\* A caller that forced a refresh never gets data read before it asked,
\* whatever was in flight (getPortfolio, forceRefresh).
ForcedIsFresh == \A c \in Callers : call[c].got # 0 => call[c].got >= call[c].since

\* Unforced callers share the loader started last for as long as it runs, and
\* never one that has ended: an older loader that ends does not take the
\* entry of a newer one away (the finally block of getPortfolio).
SharedIsNewest ==
  /\ inflight # None => inflight = newest
  /\ newest # None => (inflight = newest <=> load[newest] # NoLoad)

\* A subscriber never sees its portfolio go back in time, although loaders
\* of different callers overlap and overwrite the cache in any order.
\* (Again not so with a provider that notifies early.)
EmissionsNeverGoBack == [][options.early \/ emitted' >= emitted]_vars

\* Once it has unsubscribed, a subscriber gets no further portfolio, also
\* from a refresh that was running when it did.
NothingAfterClose == [][status = "closed" => emitted' = emitted]_vars

\* With the fallback interval an open subscription shows every version in
\* the end, whether or not the websocket subscription works and however often
\* the provider fails.
Converges ==
  \A v \in Versions :
    (options.fallback /\ status = "open" /\ chain >= v) ~> (emitted >= v \/ status = "closed")

View == INSTANCE PortfolioView WITH world <- chain, shown <- emitted

\* The client keeps what PortfolioView promises: nothing is shown before the
\* subscription or after its end, nothing the wallet never was, and nothing older
\* than what was shown before.
KeepsPromise == View!Spec
=============================================================================
