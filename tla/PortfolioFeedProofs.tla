------------------------- MODULE PortfolioFeedProofs -------------------------
(***************************************************************************)
(* The safety of PortfolioFeed, for any number of direct callers, any      *)
(* number of versions and every way to subscribe.                          *)
(***************************************************************************)
EXTENDS PortfolioFeed, TLAPS

\* Whoever waits for a loader has a loader to wait for, and gets what it reads
\* after the call.
WaitInv ==
  \A c \in Callers : call[c].waits # None =>
    /\ load[call[c].waits] # NoLoad
    /\ load[call[c].waits].state = "read" =>
         load[call[c].waits].version >= call[c].since

\* Nothing is newer than the wallet.
PastInv ==
  /\ cache.version <= chain /\ emitted <= chain /\ noticed <= chain
  /\ \A o \in Owners : load[o].version <= chain
  /\ \A c \in Callers : call[c].since <= chain

\* The subscription starts loaders for its refreshes only, and each refresh
\* awaits one.
OwnLoadInv ==
  /\ load[Sub] # NoLoad => refreshing = Sub
  /\ refreshing # None => load[refreshing] # NoLoad

\* A subscription that is not open yet, or no longer.
StatusInv ==
  /\ status \in {"none", "closed"} => timer = "off"
  /\ status = "none" \/ (status = "opening" /\ ~options.early)
       => /\ timer = "off" /\ refreshing = None /\ ~needsRefresh
          /\ emitted = 0 /\ noticed = 0

\* Only the first refresh of a subscription is not forced; a refresh that runs
\* reads what has been emitted and, unless another one is to follow, what has
\* been noticed.
RefreshInv ==
  ~options.early =>
    /\ needsRefresh /\ ~pendingForceRefresh
         => emitted = 0 /\ noticed = 0 /\ refreshing = None
    /\ refreshing \in Callers => emitted = 0 /\ (~needsRefresh => noticed = 0)
    /\ refreshing = Sub /\ load[Sub].state = "read"
         => /\ load[Sub].version >= emitted
            /\ ~needsRefresh => load[Sub].version >= noticed

FInv ==
  /\ WaitInv /\ PastInv /\ OwnLoadInv /\ StatusInv /\ RefreshInv
  /\ SharedIsNewest /\ PendingIsScheduled /\ QuietMeansFresh /\ ForcedIsFresh

Inv == TypeOK /\ FInv

LoadStates == [state : {"none", "asked"}, version : {0}]
                \cup [state : {"read"}, version : Versions]

-----------------------------------------------------------------------------
(* Type correctness.                                                       *)

\* What runRefresh and requestRefresh change stays in its range.
LEMMA RefreshType ==
  ASSUME TypeOK, NEW force \in BOOLEAN,
         StartRefresh(force, cache)
  PROVE  /\ load' \in [Owners -> LoadStates]
         /\ inflight' \in Owners \cup {None} /\ newest' \in Owners \cup {None}
         /\ refreshing' \in Owners \cup {None}
         /\ needsRefresh' \in BOOLEAN /\ pendingForceRefresh' \in BOOLEAN
         /\ emitted' \in 0 .. MaxVersion /\ erred' \in BOOLEAN
<1>1. CASE Cached(force, cache)
  BY <1>1 DEF TypeOK, StartRefresh, LoadStates
<1>2. CASE ~Cached(force, cache) /\ Shares(force)
  BY <1>2 DEF TypeOK, StartRefresh, LoadStates
<1>3. CASE ~Cached(force, cache) /\ ~Shares(force)
  <2>1. StartLoad(Sub) /\ refreshing' = Sub /\ Sub \in Owners
    BY <1>3 DEF StartRefresh, Owners
  <2>2. load' \in [Owners -> LoadStates] /\ inflight' = Sub /\ newest' = Sub
    BY <2>1 DEF TypeOK, StartLoad, LoadStates
  <2>3. /\ needsRefresh' = FALSE /\ pendingForceRefresh' = FALSE
        /\ UNCHANGED <<emitted, erred>>
    BY <1>3 DEF StartRefresh
  <2> QED BY <2>1, <2>2, <2>3 DEF TypeOK
<1> QED BY <1>1, <1>2, <1>3

LEMMA RequestType ==
  ASSUME TypeOK, NEW force \in BOOLEAN, NEW by \in {"change", "tick"},
         RequestRefresh(force, by)
  PROVE  /\ load' \in [Owners -> LoadStates]
         /\ inflight' \in Owners \cup {None} /\ newest' \in Owners \cup {None}
         /\ refreshing' \in Owners \cup {None} /\ timer' \in {"off", "change", "tick"}
         /\ needsRefresh' \in BOOLEAN /\ pendingForceRefresh' \in BOOLEAN
         /\ emitted' \in 0 .. MaxVersion /\ erred' \in BOOLEAN
<1>1. ForceOf(force) \in BOOLEAN
  BY DEF TypeOK, ForceOf
<1>2. CASE options.debounce
  BY <1>1, <1>2 DEF TypeOK, RequestRefresh, LoadStates
<1>3. CASE ~options.debounce /\ refreshing # None
  BY <1>1, <1>3 DEF TypeOK, RequestRefresh, LoadStates
<1>4. CASE ~options.debounce /\ refreshing = None
  <2>1. StartRefresh(ForceOf(force), cache) /\ UNCHANGED timer
    BY <1>4 DEF RequestRefresh
  <2> QED BY <1>1, <2>1, RefreshType DEF TypeOK
<1> QED BY <1>2, <1>3, <1>4

LEMMA LoadEndsType ==
  ASSUME TypeOK, NEW o \in Owners, NEW got \in 0 .. MaxVersion,
         NEW entry \in [version : 0 .. MaxVersion, valid : BOOLEAN],
         LoadEnds(o, got, entry)
  PROVE  TypeOK'
<1>1. /\ cache' \in [version : 0 .. MaxVersion, valid : BOOLEAN]
      /\ call' \in [Callers -> [waits : Owners \cup {None}, since : 0 .. MaxVersion,
                                got : 0 .. MaxVersion]]
      /\ UNCHANGED <<options, chain, status, listening, timer, noticed>>
  BY DEF TypeOK, LoadEnds
<1>2. /\ Freed(o) \in [Owners -> LoadStates]
      /\ [Freed(o) EXCEPT ![Sub] = [state |-> "asked", version |-> 0]]
            \in [Owners -> LoadStates]
      /\ Drop(o) \in Owners \cup {None}
  BY DEF TypeOK, Freed, Drop, NoLoad, LoadStates, Owners
<1>3. /\ load' \in [Owners -> LoadStates]
      /\ inflight' \in Owners \cup {None} /\ newest' \in Owners \cup {None}
      /\ refreshing' \in Owners \cup {None}
      /\ needsRefresh' \in BOOLEAN /\ pendingForceRefresh' \in BOOLEAN
      /\ emitted' \in 0 .. MaxVersion /\ erred' \in BOOLEAN
  <2>1. CASE refreshing # o
    BY <1>2, <2>1 DEF TypeOK, LoadEnds
  <2>2. CASE refreshing = o
    <3>1. RefreshEnds(o, got, entry)
      BY <2>2 DEF LoadEnds
    <3>2. Tell(got) => emitted' \in 0 .. MaxVersion /\ erred' \in BOOLEAN
      BY DEF TypeOK, Tell
    <3> QED BY <1>2, <3>1, <3>2 DEF TypeOK, RefreshEnds, Owners
  <2> QED BY <2>1, <2>2
<1> QED BY <1>1, <1>3 DEF TypeOK, LoadStates

LEMMA InitType == Init => TypeOK
<1> SUFFICES ASSUME Init PROVE TypeOK
  OBVIOUS
<1>1. chain \in Versions /\ 0 \in 0 .. MaxVersion
  BY FeedAssumption DEF Init, Versions
<1>2. cache \in [version : 0 .. MaxVersion, valid : BOOLEAN]
  BY <1>1 DEF Init, NoEntry
<1>3. load \in [Owners -> LoadStates]
  BY DEF Init, NoLoad, LoadStates
<1>4. call \in [Callers -> [waits : Owners \cup {None}, since : 0 .. MaxVersion,
                           got : 0 .. MaxVersion]]
  BY <1>1 DEF Init, Idle
<1> QED BY <1>1, <1>2, <1>3, <1>4 DEF Init, TypeOK, LoadStates

LEMMA NextType ==
  ASSUME TypeOK, [Next]_vars
  PROVE  TypeOK'
<1>1. ASSUME NEW c \in Callers, Call(c) PROVE TypeOK'
  <2> USE <1>1
  <2>0. c \in Owners
    BY DEF Owners
  <2>1. PICK force \in BOOLEAN :
          LET since == IF force THEN chain ELSE 0 IN
          IF Cached(force, cache)
          THEN /\ call' = [call EXCEPT ![c] =
                    [waits |-> None, since |-> 0, got |-> cache.version]]
               /\ UNCHANGED clientVars
          ELSE /\ IF Shares(force)
                  THEN UNCHANGED <<load, inflight, newest>>
                  ELSE StartLoad(c)
               /\ call' = [call EXCEPT ![c] =
                    [waits |-> IF Shares(force) THEN inflight ELSE c,
                     since |-> since, got |-> 0]]
               /\ UNCHANGED cache
    BY DEF Call
  <2>2. UNCHANGED <<options, chain, subVars>>
    BY DEF Call
  <2>3. call' \in [Callers -> [waits : Owners \cup {None}, since : 0 .. MaxVersion,
                               got : 0 .. MaxVersion]]
    <3>1. chain \in 0 .. MaxVersion /\ 0 \in 0 .. MaxVersion
      BY FeedAssumption DEF TypeOK, Versions
    <3>2. CASE Cached(force, cache)
      BY <2>1, <3>1, <3>2 DEF TypeOK
    <3>3. CASE ~Cached(force, cache)
      BY <2>0, <2>1, <3>1, <3>3 DEF TypeOK
    <3> QED BY <3>2, <3>3
  <2>4. /\ load' \in [Owners -> LoadStates]
        /\ inflight' \in Owners \cup {None} /\ newest' \in Owners \cup {None}
        /\ UNCHANGED cache
    BY <2>0, <2>1 DEF TypeOK, StartLoad, LoadStates, clientVars
  <2> QED BY <2>2, <2>3, <2>4 DEF TypeOK, LoadStates, subVars
<1>2. ASSUME NEW o \in Owners, Read(o) PROVE TypeOK'
  BY <1>2 DEF TypeOK, Read, subVars, Versions
<1>3. ASSUME NEW o \in Owners, Answer(o) PROVE TypeOK'
  <2>1. load[o].version \in 0 .. MaxVersion
    BY <1>3 DEF TypeOK, Answer, Versions
  <2> QED BY <1>3, <2>1, LoadEndsType DEF Answer
<1>4. ASSUME NEW o \in Owners, LoadFails(o) PROVE TypeOK'
  <2>1. 0 \in 0 .. MaxVersion /\ cache \in [version : 0 .. MaxVersion, valid : BOOLEAN]
    BY FeedAssumption DEF TypeOK
  <2> QED BY <1>4, <2>1, LoadEndsType DEF LoadFails
<1>5. ASSUME Subscribe PROVE TypeOK'
  BY <1>5 DEF TypeOK, Subscribe, clientVars
<1>6. ASSUME Subscribed PROVE TypeOK'
  <2>1. CASE options.emitInitial
    BY <1>6, <2>1, RequestType DEF TypeOK, Subscribed, LoadStates
  <2>2. CASE ~options.emitInitial
    BY <1>6, <2>2 DEF TypeOK, Subscribed
  <2> QED BY <2>1, <2>2
<1>7. ASSUME Notice PROVE TypeOK'
  <2>1. noticed' \in 0 .. MaxVersion
    BY <1>7 DEF TypeOK, Notice, Versions
  <2>2. RequestRefresh(TRUE, "change")
    BY <1>7, Zenon DEF Notice
  <2> QED BY <1>7, <2>1, <2>2, RequestType DEF TypeOK, Notice, LoadStates
<1>8. ASSUME Tick PROVE TypeOK'
  BY <1>8, RequestType DEF TypeOK, Tick, LoadStates
<1>9. ASSUME TimerFires PROVE TypeOK'
  <2>1. CASE refreshing = None /\ needsRefresh
    BY <1>9, <2>1, RefreshType DEF TypeOK, TimerFires, LoadStates
  <2>2. CASE ~(refreshing = None /\ needsRefresh)
    BY <1>9, <2>2 DEF TypeOK, TimerFires
  <2> QED BY <2>1, <2>2
<1>10. ASSUME Close PROVE TypeOK'
  BY <1>10 DEF TypeOK, Close, clientVars
<1>11. ASSUME Expire \/ Invalidate PROVE TypeOK'
  <2>1. CASE Expire
    BY <2>1 DEF TypeOK, Expire, subVars
  <2>2. CASE Invalidate
    <3>1. NoEntry \in [version : 0 .. MaxVersion, valid : BOOLEAN]
      BY FeedAssumption DEF NoEntry
    <3> QED BY <2>2, <3>1 DEF TypeOK, Invalidate, subVars
  <2> QED BY <1>11, <2>1, <2>2
<1>12. ASSUME WalletChanges PROVE TypeOK'
  BY <1>12, FeedAssumption DEF TypeOK, WalletChanges, Versions, clientVars, subVars
<1>13. ASSUME UNCHANGED vars PROVE TypeOK'
  BY <1>13 DEF TypeOK, vars, subVars
<1> QED
  BY <1>1, <1>2, <1>3, <1>4, <1>5, <1>6, <1>7, <1>8, <1>9, <1>10, <1>11, <1>12, <1>13
     DEF Next

\* Every variable keeps its type, whatever overlaps (TypeOK).
THEOREM FeedTypeCorrect == Spec => []TypeOK
<1> QED BY InitType, NextType, PTL DEF Spec

-----------------------------------------------------------------------------
(* The invariant FInv.                                                     *)

Numbers ==
  /\ chain \in Nat /\ cache.version \in Nat /\ emitted \in Nat /\ noticed \in Nat
  /\ \A o \in Owners : load[o].version \in Nat
  /\ \A c \in Callers : call[c].since \in Nat /\ call[c].got \in Nat

LEMMA AllNumbers == TypeOK => Numbers
<1> SUFFICES ASSUME TypeOK PROVE Numbers
  OBVIOUS
<1>1. \A o \in Owners : load[o].version \in Nat
  BY FeedAssumption DEF TypeOK, Versions
<1> QED BY <1>1, FeedAssumption DEF TypeOK, Numbers, Versions

LEMMA InitSafe == Init => FInv
<1> SUFFICES ASSUME Init PROVE FInv
  OBVIOUS
<1> USE FeedAssumption DEF Init, Idle, NoLoad, NoEntry, Owners
<1>1. WaitInv
  BY DEF WaitInv
<1>2. PastInv
  BY DEF PastInv
<1>3. OwnLoadInv /\ StatusInv /\ RefreshInv
  BY DEF OwnLoadInv, StatusInv, RefreshInv
<1>4. SharedIsNewest /\ PendingIsScheduled /\ QuietMeansFresh /\ ForcedIsFresh
  BY DEF SharedIsNewest, PendingIsScheduled, QuietMeansFresh, ForcedIsFresh
<1> QED BY <1>1, <1>2, <1>3, <1>4 DEF FInv

\* A refresh that starts: unforced only when nothing has been shown or noticed.
LEMMA StartRefreshSafe ==
  ASSUME Inv, NEW force \in BOOLEAN, StartRefresh(force, cache), refreshing = None,
         UNCHANGED <<options, chain, cache, call>>,
         noticed' \in Nat, noticed' <= chain,
         options.early \/ force \/ (emitted = 0 /\ noticed' = 0),
         status' \in {"opening", "open"}, status' = "opening" => options.early
  PROVE  FInv'
<1> USE DEF Inv
<1>1. Numbers /\ Sub \in Owners /\ None \notin Owners /\ Sub \notin Callers
  BY AllNumbers, FeedAssumption DEF Owners
<1>2. ForcedIsFresh' /\ PendingIsScheduled' /\ StatusInv'
  BY DEF FInv, ForcedIsFresh, PendingIsScheduled, StatusInv, StartRefresh
<1>3. load[Sub] = NoLoad
  BY <1>1 DEF FInv, OwnLoadInv
<1>4. CASE Cached(force, cache)
  <2>1. /\ UNCHANGED <<load, inflight, newest>> /\ refreshing' = None
        /\ emitted' = cache.version /\ needsRefresh' = FALSE /\ ~force
    BY <1>4 DEF StartRefresh, Cached
  <2>2. WaitInv' /\ OwnLoadInv' /\ SharedIsNewest'
    BY <1>1, <1>3, <2>1 DEF FInv, WaitInv, OwnLoadInv, SharedIsNewest
  <2>3. PastInv'
    BY <1>1, <2>1 DEF FInv, PastInv
  <2>4. RefreshInv'
    BY <1>1, <2>1 DEF RefreshInv, Owners
  <2>5. QuietMeansFresh'
    BY <1>1, <2>1 DEF QuietMeansFresh, Numbers
  <2> QED BY <1>2, <2>2, <2>3, <2>4, <2>5 DEF FInv
<1>5. CASE ~Cached(force, cache) /\ Shares(force)
  <2>1. /\ UNCHANGED <<load, inflight, newest, emitted, erred>>
        /\ refreshing' = inflight /\ needsRefresh' = FALSE /\ ~force
        /\ inflight \in Owners
    BY <1>5 DEF StartRefresh, Shares, TypeOK
  <2>2. load[inflight] # NoLoad /\ inflight # Sub
    BY <1>1, <1>3, <2>1 DEF FInv, SharedIsNewest
  <2>3. WaitInv' /\ OwnLoadInv' /\ SharedIsNewest'
    BY <1>1, <1>3, <2>1, <2>2 DEF FInv, WaitInv, OwnLoadInv, SharedIsNewest
  <2>4. PastInv'
    BY <1>1, <2>1 DEF FInv, PastInv
  <2>5. RefreshInv' /\ QuietMeansFresh'
    BY <1>1, <2>1, <2>2 DEF RefreshInv, QuietMeansFresh
  <2> QED BY <1>2, <2>3, <2>4, <2>5 DEF FInv
<1>6. CASE ~Cached(force, cache) /\ ~Shares(force)
  <2>1. /\ StartLoad(Sub) /\ UNCHANGED <<emitted, erred>>
        /\ refreshing' = Sub /\ needsRefresh' = FALSE
    BY <1>6 DEF StartRefresh
  <2>2. /\ load' = [load EXCEPT ![Sub] = [state |-> "asked", version |-> 0]]
        /\ inflight' = Sub /\ newest' = Sub
    BY <2>1 DEF StartLoad
  <2>3. /\ load'[Sub] = [state |-> "asked", version |-> 0]
        /\ load'[Sub] # NoLoad /\ load'[Sub].state # "read"
        /\ \A o \in Owners \ {Sub} : load'[o] = load[o]
    BY <1>1, <2>2 DEF TypeOK, NoLoad
  <2>4. WaitInv'
    BY <1>1, <1>3, <2>3 DEF FInv, WaitInv, TypeOK
  <2>5. OwnLoadInv' /\ SharedIsNewest'
    BY <1>1, <2>1, <2>2, <2>3 DEF OwnLoadInv, SharedIsNewest
  <2>6. PastInv'
    <3>1. \A o \in Owners : load'[o].version <= chain
      BY <1>1, <2>3 DEF FInv, PastInv, Numbers
    <3> QED BY <1>1, <2>1, <3>1 DEF FInv, PastInv
  <2>7. RefreshInv' /\ QuietMeansFresh'
    BY <1>1, <2>1, <2>3 DEF RefreshInv, QuietMeansFresh
  <2> QED BY <1>2, <2>4, <2>5, <2>6, <2>7 DEF FInv
<1> QED BY <1>4, <1>5, <1>6

\* A refresh that is asked for: on top of a running one it is forced, unless
\* the provider notifies early.
LEMMA RequestRefreshSafe ==
  ASSUME Inv, NEW force \in BOOLEAN, NEW by \in {"change", "tick"},
         RequestRefresh(force, by),
         UNCHANGED <<options, chain, cache, call>>,
         noticed' \in Nat, noticed' <= chain,
         options.early \/ force \/ (emitted = 0 /\ noticed' = 0 /\ refreshing = None),
         status' \in {"opening", "open"}, status' = "opening" => options.early
  PROVE  FInv'
<1> USE DEF Inv
<1>1. Numbers /\ Sub \in Owners /\ None \notin Owners /\ Sub \notin Callers
  BY AllNumbers, FeedAssumption DEF Owners
<1>2. ForceOf(force) \in BOOLEAN /\ (force => ForceOf(force))
  BY DEF TypeOK, ForceOf
<1>3. CASE options.debounce \/ refreshing # None
  <2>1. /\ needsRefresh' = TRUE /\ (pendingForceRefresh' <=> ForceOf(force))
        /\ UNCHANGED <<load, inflight, newest, refreshing, emitted, erred>>
        /\ timer' # "off" \/ refreshing # None
    BY <1>3 DEF RequestRefresh
  <2>2. WaitInv' /\ OwnLoadInv' /\ SharedIsNewest' /\ ForcedIsFresh'
    BY <2>1 DEF FInv, WaitInv, OwnLoadInv, SharedIsNewest, ForcedIsFresh
  <2>3. PastInv'
    BY <1>1, <2>1 DEF FInv, PastInv
  <2>4. StatusInv' /\ PendingIsScheduled' /\ QuietMeansFresh'
    BY <2>1 DEF StatusInv, PendingIsScheduled, QuietMeansFresh
  <2>5. RefreshInv'
    BY <1>1, <1>2, <2>1 DEF FInv, RefreshInv
  <2> QED BY <2>2, <2>3, <2>4, <2>5 DEF FInv
<1>4. CASE ~options.debounce /\ refreshing = None
  <2>1. StartRefresh(ForceOf(force), cache)
    BY <1>4 DEF RequestRefresh
  <2> QED BY <1>2, <1>4, <2>1, StartRefreshSafe
<1> QED BY <1>3, <1>4

\* The end of a loader: what it read is newer than what was asked for before.
LEMMA LoadEndsSafe ==
  ASSUME Inv, TypeOK', NEW o \in Owners, load[o] # NoLoad,
         NEW got \in Nat, got = 0 \/ (load[o].state = "read" /\ got = load[o].version),
         NEW entry, entry.version \in Nat, entry.version <= chain,
         LoadEnds(o, got, entry)
  PROVE  FInv'
<1> USE DEF Inv
<1>1. Numbers /\ Sub \in Owners /\ None \notin Owners /\ Sub \notin Callers
  BY AllNumbers, FeedAssumption DEF Owners
<1>2. /\ UNCHANGED <<options, chain, status, listening, timer, noticed>>
      /\ cache' = entry
      /\ call' = [c \in Callers |-> IF call[c].waits = o
                    THEN [waits |-> None, since |-> call[c].since, got |-> got]
                    ELSE call[c]]
  BY DEF LoadEnds
<1>3. \A c \in Callers :
        \/ /\ call[c].waits = o /\ call'[c].waits = None /\ call'[c].got = got
           /\ call'[c].since = call[c].since
        \/ call[c].waits # o /\ call'[c] = call[c]
  BY <1>2
<1>4. got <= chain
  BY <1>1 DEF FInv, PastInv, Numbers
<1>5. ForcedIsFresh'
  <2> SUFFICES ASSUME NEW c \in Callers, call'[c].got # 0
               PROVE  call'[c].got >= call'[c].since
    BY DEF ForcedIsFresh
  <2>1. CASE call[c].waits = o
    BY <1>1, <1>3, <2>1 DEF FInv, WaitInv, Numbers
  <2>2. CASE call[c].waits # o
    BY <1>3, <2>2 DEF FInv, ForcedIsFresh
  <2> QED BY <2>1, <2>2
<1>6. StatusInv
  BY DEF FInv
\* In every case the ended loader is free, and Sub's is free or was started now.
<1>7. ASSUME \/ load' = Freed(o)
             \/ /\ load' = [Freed(o) EXCEPT ![Sub] = [state |-> "asked", version |-> 0]]
                /\ refreshing = o
      PROVE  WaitInv'
  <2> SUFFICES ASSUME NEW c \in Callers, call'[c].waits # None
               PROVE  /\ load'[call'[c].waits] # NoLoad
                      /\ load'[call'[c].waits].state = "read" =>
                           load'[call'[c].waits].version >= call'[c].since
    BY DEF WaitInv
  <2>1. /\ call'[c] = call[c] /\ call[c].waits # o
    BY <1>3
  <2>2. call[c].waits \in Owners /\ load[call[c].waits] # NoLoad
    BY <2>1 DEF FInv, WaitInv, TypeOK
  <2>3. call[c].waits = Sub => refreshing = Sub
    BY <2>2 DEF FInv, OwnLoadInv
  <2>4. load'[call[c].waits] = load[call[c].waits]
    BY <1>1, <1>7, <2>1, <2>2, <2>3 DEF Freed, TypeOK
  <2> QED BY <2>1, <2>2, <2>4 DEF FInv, WaitInv
<1>8. ASSUME \/ load' = Freed(o)
             \/ load' = [Freed(o) EXCEPT ![Sub] = [state |-> "asked", version |-> 0]],
             emitted' \in Nat, emitted' <= chain
      PROVE  PastInv'
  <2>1. \A p \in Owners : load'[p].version <= chain
    BY <1>1, <1>8 DEF FInv, PastInv, Freed, NoLoad, TypeOK, Numbers
  <2>2. \A c \in Callers : call'[c].since <= chain
    BY <1>3 DEF FInv, PastInv
  <2> QED BY <1>2, <1>8, <2>1, <2>2 DEF FInv, PastInv
<1>9. ASSUME load' = Freed(o), inflight' = Drop(o), newest' = newest
      PROVE  SharedIsNewest'
  BY <1>1, <1>9 DEF FInv, SharedIsNewest, Freed, Drop, NoLoad, TypeOK
<1>10. ASSUME load' = Freed(o), refreshing' # o, refreshing' \in Owners \cup {None},
              refreshing' # None => load[refreshing'] # NoLoad,
              load[Sub] # NoLoad => o = Sub \/ refreshing' = Sub
       PROVE  OwnLoadInv'
  BY <1>1, <1>10 DEF OwnLoadInv, Freed, NoLoad, TypeOK
<1>11. CASE refreshing # o
  <2>1. /\ load' = Freed(o) /\ inflight' = Drop(o)
        /\ UNCHANGED <<newest, refreshing, needsRefresh, pendingForceRefresh,
                       emitted, erred>>
    BY <1>11 DEF LoadEnds
  <2>2. OwnLoadInv'
    BY <1>1, <1>10, <1>11, <2>1 DEF FInv, OwnLoadInv, TypeOK
  <2>3. WaitInv' /\ PastInv' /\ SharedIsNewest'
    BY <1>1, <1>7, <1>8, <1>9, <2>1 DEF FInv, PastInv, Numbers
  <2>4. StatusInv' /\ PendingIsScheduled' /\ QuietMeansFresh'
    BY <1>2, <2>1 DEF FInv, StatusInv, PendingIsScheduled, QuietMeansFresh
  <2>5. refreshing = Sub => load'[Sub] = load[Sub]
    BY <1>1, <1>11, <2>1 DEF Freed, TypeOK
  <2>6. RefreshInv'
    BY <1>2, <2>1, <2>5 DEF FInv, RefreshInv
  <2> QED BY <1>5, <2>2, <2>3, <2>4, <2>6 DEF FInv
<1>12. CASE refreshing = o
  <2>1. RefreshEnds(o, got, entry)
    BY <1>12 DEF LoadEnds
  <2>2. /\ Tell(got) => /\ emitted' \in Nat /\ emitted' <= chain
                        /\ erred' = (got = 0)
                        /\ emitted' = IF got # 0 /\ status # "closed" THEN got ELSE emitted
    BY <1>1, <1>4 DEF FInv, PastInv, Tell, Emits, Numbers
  <2>3. load[Sub] # NoLoad => o = Sub
    BY <1>12 DEF FInv, OwnLoadInv
  \* Nothing that can be shown now is older than what was noticed.
  <2>4. ~options.early =>
          /\ needsRefresh => pendingForceRefresh
          /\ got # 0 => got >= emitted /\ (~needsRefresh => got >= noticed)
    <3>1. o \in Callers \/ o = Sub
      BY DEF Owners
    <3> QED BY <1>1, <1>12, <3>1 DEF FInv, RefreshInv, Numbers
  <2>5. status \notin {"none", "opening"} \/ options.early
    BY <1>1, <1>12 DEF FInv, StatusInv, TypeOK
  <2>6. status # "none"
    BY <1>1, <1>12 DEF FInv, StatusInv
  <2>7. StatusInv'
    BY <1>2, <2>5, <2>6 DEF FInv, StatusInv
  <2>8. CASE /\ ~Reruns /\ Tell(got) /\ refreshing' = None
             /\ load' = Freed(o) /\ inflight' = Drop(o)
             /\ UNCHANGED <<newest, needsRefresh, pendingForceRefresh>>
    <3>1. OwnLoadInv'
      BY <1>1, <1>10, <2>3, <2>8
    <3>2. WaitInv' /\ PastInv' /\ SharedIsNewest'
      BY <1>7, <1>8, <1>9, <2>2, <2>8
    <3>3. PendingIsScheduled'
      BY <1>2, <2>8 DEF PendingIsScheduled, Reruns
    <3>4. QuietMeansFresh'
      BY <1>1, <1>2, <2>2, <2>4, <2>8 DEF QuietMeansFresh, Numbers
    <3>5. RefreshInv'
      BY <1>1, <1>2, <2>4, <2>8 DEF RefreshInv, Owners
    <3> QED BY <1>5, <2>7, <3>1, <3>2, <3>3, <3>4, <3>5 DEF FInv
  <2>9. CASE /\ Reruns /\ needsRefresh' = FALSE /\ pendingForceRefresh' = FALSE
             /\ Cached(pendingForceRefresh, entry)
             /\ emitted' = entry.version /\ erred' = FALSE /\ refreshing' = None
             /\ load' = Freed(o) /\ inflight' = Drop(o) /\ UNCHANGED newest
    <3>1. options.early
      BY <2>4, <2>9 DEF Reruns, Cached
    <3>2. OwnLoadInv'
      BY <1>1, <1>10, <2>3, <2>9
    <3>3. WaitInv' /\ PastInv' /\ SharedIsNewest'
      BY <1>7, <1>8, <1>9, <2>9
    <3>4. PendingIsScheduled' /\ QuietMeansFresh' /\ RefreshInv'
      BY <1>2, <2>9, <3>1 DEF PendingIsScheduled, QuietMeansFresh, RefreshInv
    <3> QED BY <1>5, <2>7, <3>2, <3>3, <3>4 DEF FInv
  <2>10. CASE /\ Reruns /\ needsRefresh' = FALSE /\ pendingForceRefresh' = FALSE
              /\ ~pendingForceRefresh /\ Drop(o) # None
              /\ Tell(got) /\ refreshing' = Drop(o)
              /\ load' = Freed(o) /\ inflight' = Drop(o) /\ UNCHANGED newest
    <3>1. options.early
      BY <2>4, <2>10 DEF Reruns
    <3>2. /\ inflight # o /\ inflight \in Owners /\ Drop(o) = inflight
          /\ load[inflight] # NoLoad
      BY <2>10 DEF FInv, Drop, SharedIsNewest, TypeOK
    <3>3. OwnLoadInv'
      BY <1>1, <1>10, <2>3, <2>10, <3>2
    <3>4. WaitInv' /\ PastInv' /\ SharedIsNewest'
      BY <1>7, <1>8, <1>9, <2>2, <2>10
    <3>5. PendingIsScheduled' /\ QuietMeansFresh' /\ RefreshInv'
      BY <1>2, <2>10, <3>1 DEF PendingIsScheduled, QuietMeansFresh, RefreshInv
    <3> QED BY <1>5, <2>7, <3>3, <3>4, <3>5 DEF FInv
  <2>11. CASE /\ Reruns /\ needsRefresh' = FALSE /\ pendingForceRefresh' = FALSE
              /\ Tell(got) /\ refreshing' = Sub
              /\ load' = [Freed(o) EXCEPT ![Sub] = [state |-> "asked", version |-> 0]]
              /\ inflight' = Sub /\ newest' = Sub
    <3>1. load'[Sub] = [state |-> "asked", version |-> 0]
      BY <1>1, <2>11 DEF Freed, TypeOK
    <3>2. load'[Sub] # NoLoad /\ load'[Sub].state # "read"
      BY <3>1 DEF NoLoad
    <3>3. OwnLoadInv' /\ SharedIsNewest'
      BY <1>1, <2>11, <3>2 DEF OwnLoadInv, SharedIsNewest
    <3>4. WaitInv' /\ PastInv'
      BY <1>7, <1>8, <1>12, <2>2, <2>11
    <3>5. PendingIsScheduled' /\ QuietMeansFresh' /\ RefreshInv'
      BY <1>1, <1>2, <2>11, <3>2 DEF PendingIsScheduled, QuietMeansFresh, RefreshInv
    <3> QED BY <1>5, <2>7, <3>3, <3>4, <3>5 DEF FInv
  <2> QED BY <2>1, <2>8, <2>9, <2>10, <2>11 DEF RefreshEnds
<1> QED BY <1>11, <1>12

LEMMA CallSafe ==
  ASSUME Inv, TypeOK', NEW c \in Callers, Call(c)
  PROVE  FInv'
<1> USE DEF Inv
<1>1. Numbers /\ Sub \in Owners /\ None \notin Owners /\ Sub \notin Callers /\ c \in Owners
  BY AllNumbers, FeedAssumption DEF Owners
<1>2. PICK force \in BOOLEAN :
        LET since == IF force THEN chain ELSE 0 IN
        IF Cached(force, cache)
        THEN /\ call' = [call EXCEPT ![c] =
                  [waits |-> None, since |-> 0, got |-> cache.version]]
             /\ UNCHANGED clientVars
        ELSE /\ IF Shares(force)
                THEN UNCHANGED <<load, inflight, newest>>
                ELSE StartLoad(c)
             /\ call' = [call EXCEPT ![c] =
                  [waits |-> IF Shares(force) THEN inflight ELSE c,
                   since |-> since, got |-> 0]]
             /\ UNCHANGED cache
  BY DEF Call
<1>3. /\ UNCHANGED <<options, chain, cache, status, listening, timer, refreshing>>
      /\ UNCHANGED <<needsRefresh, pendingForceRefresh, emitted, erred, noticed>>
  BY <1>2 DEF Call, subVars, clientVars
<1>4. /\ \A d \in Callers \ {c} : call'[d] = call[d]
      /\ call'[c].since <= chain
      /\ call'[c].got # 0 => call'[c].since = 0
  BY <1>1, <1>2 DEF TypeOK, Numbers
<1>5. ForcedIsFresh'
  BY <1>1, <1>4 DEF FInv, ForcedIsFresh, TypeOK
<1>6. StatusInv' /\ PendingIsScheduled' /\ QuietMeansFresh'
  BY <1>3 DEF FInv, StatusInv, PendingIsScheduled, QuietMeansFresh
<1>7. CASE Cached(force, cache) \/ Shares(force)
  <2>1. UNCHANGED <<load, inflight, newest>>
    BY <1>2, <1>7 DEF clientVars
  <2>2. /\ call'[c].waits # None =>
             call'[c].waits = inflight /\ call'[c].since = 0 /\ inflight # None
    BY <1>2, <1>7 DEF TypeOK, Shares
  <2>3. OwnLoadInv' /\ SharedIsNewest' /\ RefreshInv'
    BY <1>3, <2>1 DEF FInv, OwnLoadInv, SharedIsNewest, RefreshInv
  <2>4. PastInv'
    BY <1>3, <1>4, <2>1 DEF FInv, PastInv
  <2>5. inflight # None => inflight \in Owners /\ load[inflight] # NoLoad
    BY DEF FInv, SharedIsNewest, TypeOK
  <2>6. WaitInv'
    BY <1>1, <1>4, <2>1, <2>2, <2>5 DEF FInv, WaitInv, Numbers
  <2> QED BY <1>5, <1>6, <2>3, <2>4, <2>6 DEF FInv
<1>8. CASE ~Cached(force, cache) /\ ~Shares(force)
  <2>1. StartLoad(c) /\ call'[c].waits = c
    BY <1>2, <1>8 DEF TypeOK
  <2>2. /\ load[c] = NoLoad /\ inflight' = c /\ newest' = c
        /\ load'[c] = [state |-> "asked", version |-> 0]
        /\ \A o \in Owners \ {c} : load'[o] = load[o]
    BY <1>1, <2>1 DEF StartLoad, TypeOK
  <2>3. load'[c] # NoLoad /\ load'[c].state # "read" /\ load'[c].version = 0
    BY <2>2 DEF NoLoad
  <2>4. OwnLoadInv' /\ RefreshInv'
    BY <1>1, <1>3, <2>2, <2>3 DEF FInv, OwnLoadInv, RefreshInv, TypeOK
  <2>5. SharedIsNewest'
    BY <2>2, <2>3 DEF SharedIsNewest
  <2>6. PastInv'
    BY <1>1, <1>3, <1>4, <2>2, <2>3 DEF FInv, PastInv, Numbers
  <2>7. WaitInv'
    <3> SUFFICES ASSUME NEW d \in Callers, call'[d].waits # None
                 PROVE  /\ load'[call'[d].waits] # NoLoad
                        /\ load'[call'[d].waits].state = "read" =>
                             load'[call'[d].waits].version >= call'[d].since
      BY DEF WaitInv
    <3>1. CASE d = c
      BY <2>1, <2>3, <3>1
    <3>2. CASE d # c
      <4>1. /\ call'[d] = call[d] /\ call[d].waits \in Owners
            /\ load[call[d].waits] # NoLoad
        BY <1>4, <3>2 DEF FInv, WaitInv, TypeOK
      <4>2. load'[call[d].waits] = load[call[d].waits]
        BY <2>2, <4>1
      <4> QED BY <4>1, <4>2 DEF FInv, WaitInv
    <3> QED BY <3>1, <3>2
  <2> QED BY <1>5, <1>6, <2>4, <2>5, <2>6, <2>7 DEF FInv
<1> QED BY <1>7, <1>8

LEMMA ReadSafe ==
  ASSUME Inv, TypeOK', NEW o \in Owners, Read(o)
  PROVE  FInv'
<1> USE DEF Inv
<1>1. Numbers /\ Sub \in Owners /\ None \notin Owners
  BY AllNumbers, FeedAssumption DEF Owners
<1>2. /\ UNCHANGED <<options, chain, cache, inflight, newest, call, status, listening>>
      /\ UNCHANGED <<timer, refreshing, needsRefresh, pendingForceRefresh>>
      /\ UNCHANGED <<emitted, erred, noticed>>
  BY DEF Read, subVars
<1>3. /\ load'[o] = [state |-> "read", version |-> chain]
      /\ \A p \in Owners \ {o} : load'[p] = load[p]
  BY DEF Read, TypeOK
<1>4. \A p \in Owners : load'[p] # NoLoad <=> load[p] # NoLoad
  BY <1>3 DEF Read, NoLoad
<1>5. StatusInv' /\ PendingIsScheduled' /\ QuietMeansFresh' /\ ForcedIsFresh'
  BY <1>2 DEF FInv, StatusInv, PendingIsScheduled, QuietMeansFresh, ForcedIsFresh
<1>6. OwnLoadInv' /\ SharedIsNewest'
  BY <1>1, <1>2, <1>4 DEF FInv, OwnLoadInv, SharedIsNewest, TypeOK
<1>7. PastInv'
  BY <1>1, <1>2, <1>3 DEF FInv, PastInv, Numbers
<1>8. WaitInv'
  <2> SUFFICES ASSUME NEW c \in Callers, call[c].waits # None
               PROVE  /\ load'[call[c].waits] # NoLoad
                      /\ load'[call[c].waits].state = "read" =>
                           load'[call[c].waits].version >= call[c].since
    BY <1>2 DEF WaitInv
  <2>1. call[c].waits \in Owners /\ load[call[c].waits] # NoLoad
    BY DEF FInv, WaitInv, TypeOK
  <2>2. CASE call[c].waits = o
    BY <1>1, <1>3, <1>4, <2>1, <2>2 DEF FInv, PastInv, Numbers
  <2>3. CASE call[c].waits # o
    BY <1>3, <2>1, <2>3 DEF FInv, WaitInv
  <2> QED BY <2>2, <2>3
<1>9. RefreshInv'
  <2>1. CASE o = Sub
    BY <1>1, <1>2, <1>3, <2>1 DEF FInv, PastInv, RefreshInv, Numbers
  <2>2. CASE o # Sub
    BY <1>1, <1>2, <1>3, <2>2 DEF FInv, RefreshInv
  <2> QED BY <2>1, <2>2
<1> QED BY <1>5, <1>6, <1>7, <1>8, <1>9 DEF FInv

\* The rest of the client and the world.
LEMMA WorldSafe ==
  ASSUME Inv, Expire \/ Invalidate \/ WalletChanges
  PROVE  FInv'
<1> USE DEF Inv
<1>1. Numbers
  BY AllNumbers
<1>2. /\ UNCHANGED <<options, load, inflight, newest, call, status, listening>>
      /\ UNCHANGED <<timer, refreshing, needsRefresh, pendingForceRefresh>>
      /\ UNCHANGED <<emitted, erred, noticed>>
  BY DEF Expire, Invalidate, WalletChanges, subVars, clientVars
<1>3. cache'.version <= chain' /\ chain' >= chain /\ chain' \in Nat
  <2>1. CASE Expire
    BY <1>1, <2>1 DEF FInv, PastInv, Expire, TypeOK, Numbers
  <2>2. CASE Invalidate
    BY <1>1, <2>2 DEF Invalidate, NoEntry, Numbers
  <2>3. CASE WalletChanges
    BY <1>1, <2>3 DEF FInv, PastInv, WalletChanges, clientVars, Numbers
  <2> QED BY <2>1, <2>2, <2>3
<1>4. PastInv'
  BY <1>1, <1>2, <1>3 DEF FInv, PastInv, Numbers
<1>5. WaitInv' /\ OwnLoadInv' /\ StatusInv' /\ RefreshInv'
  BY <1>2 DEF FInv, WaitInv, OwnLoadInv, StatusInv, RefreshInv
<1>6. SharedIsNewest' /\ PendingIsScheduled' /\ QuietMeansFresh' /\ ForcedIsFresh'
  BY <1>2 DEF FInv, SharedIsNewest, PendingIsScheduled, QuietMeansFresh, ForcedIsFresh
<1> QED BY <1>4, <1>5, <1>6 DEF FInv

\* Steps that leave the loaders and the callers alone.
LEMMA FrameSafe ==
  ASSUME Inv, UNCHANGED <<options, chain, cache, load, inflight, newest, call>>,
         UNCHANGED <<refreshing, needsRefresh, pendingForceRefresh, emitted, erred, noticed>>,
         StatusInv', PendingIsScheduled', status = "closed" => status' = "closed"
  PROVE  FInv'
<1> USE DEF Inv
<1>1. WaitInv' /\ PastInv' /\ OwnLoadInv' /\ RefreshInv'
  BY DEF FInv, WaitInv, PastInv, OwnLoadInv, RefreshInv
<1>2. SharedIsNewest' /\ QuietMeansFresh' /\ ForcedIsFresh'
  BY DEF FInv, SharedIsNewest, QuietMeansFresh, ForcedIsFresh
<1> QED BY <1>1, <1>2 DEF FInv

LEMMA NextSafe ==
  ASSUME Inv, [Next]_vars
  PROVE  FInv'
<1> USE DEF Inv
<1>1. Numbers /\ TypeOK'
  BY AllNumbers, NextType
<1>2. ASSUME NEW c \in Callers, Call(c) PROVE FInv'
  BY <1>1, <1>2, CallSafe
<1>3. ASSUME NEW o \in Owners, Read(o) PROVE FInv'
  BY <1>1, <1>3, ReadSafe
<1>4. ASSUME NEW o \in Owners, Answer(o) PROVE FInv'
  <2> DEFINE got == load[o].version
             entry == [version |-> got, valid |-> TRUE]
  <2>1. /\ load[o].state = "read" /\ load[o] # NoLoad
        /\ got \in Nat /\ got <= chain /\ LoadEnds(o, got, entry)
    BY <1>1, <1>4 DEF Answer, NoLoad, Numbers, FInv, PastInv
  <2>2. entry.version = got
    OBVIOUS
  <2> HIDE DEF got, entry
  <2>3. got = load[o].version
    BY DEF got
  <2> QED BY <1>1, <2>1, <2>2, <2>3, LoadEndsSafe
<1>5. ASSUME NEW o \in Owners, LoadFails(o) PROVE FInv'
  <2>1. load[o] # NoLoad /\ LoadEnds(o, 0, cache)
    BY <1>5 DEF LoadFails, NoLoad
  <2>2. 0 \in Nat /\ cache.version \in Nat /\ cache.version <= chain
    BY <1>1 DEF FInv, PastInv, Numbers
  <2> QED BY <1>1, <2>1, <2>2, LoadEndsSafe
<1>6. ASSUME Subscribe PROVE FInv'
  <2>1. StatusInv' /\ PendingIsScheduled'
    BY <1>6 DEF FInv, Subscribe, StatusInv, PendingIsScheduled
  <2> QED BY <1>6, <2>1, FrameSafe DEF Subscribe, clientVars
<1>7. ASSUME Subscribed PROVE FInv'
  <2>1. status = "opening" /\ status' = "open"
        /\ UNCHANGED <<options, chain, cache, call, noticed>>
    BY <1>7 DEF Subscribed
  <2>2. CASE options.emitInitial
    <3>1. RequestRefresh(FALSE, "change")
      BY <1>7, <2>2, Zenon DEF Subscribed
    <3>2. options.early \/ (emitted = 0 /\ noticed' = 0 /\ refreshing = None)
      BY <2>1 DEF FInv, StatusInv
    <3>3. noticed' \in Nat /\ noticed' <= chain
      BY <1>1, <2>1 DEF FInv, PastInv, Numbers
    <3> QED BY <2>1, <3>1, <3>2, <3>3, RequestRefreshSafe
  <2>3. CASE ~options.emitInitial
    <3>1. StatusInv' /\ PendingIsScheduled'
      BY <1>7, <2>3 DEF FInv, Subscribed, StatusInv, PendingIsScheduled
    <3> QED BY <1>7, <2>3, <3>1, FrameSafe DEF Subscribed
  <2> QED BY <2>2, <2>3
<1>8. ASSUME Notice PROVE FInv'
  <2>1. RequestRefresh(TRUE, "change")
    BY <1>8, Zenon DEF Notice
  <2>2. /\ UNCHANGED <<options, chain, cache, call, status>>
        /\ noticed' = chain /\ Notifies
    BY <1>8, Zenon DEF Notice
  <2>3. status \in {"opening", "open"} /\ (status = "opening" => options.early)
    <3>1. CASE options.early
      BY <2>2, <3>1 DEF Notifies
    <3>2. CASE ~options.early
      BY <2>2, <3>2 DEF Notifies
    <3> QED BY <3>1, <3>2
  <2>4. noticed' \in Nat /\ noticed' <= chain /\ status' = status
    BY <1>1, <2>2 DEF Numbers
  <2> QED BY <2>1, <2>2, <2>3, <2>4, RequestRefreshSafe
<1>9. ASSUME Tick PROVE FInv'
  <2>1. RequestRefresh(TRUE, "tick")
    BY <1>9, Zenon DEF Tick
  <2>2. UNCHANGED <<options, chain, cache, call, status, noticed>> /\ status = "open"
    BY <1>9 DEF Tick
  <2> QED BY <1>1, <2>1, <2>2, RequestRefreshSafe DEF Numbers, FInv, PastInv
<1>10. ASSUME TimerFires PROVE FInv'
  <2>1. /\ UNCHANGED <<options, chain, cache, call, status, noticed>>
        /\ timer # "off" /\ timer' = "off"
    BY <1>10 DEF TimerFires
  <2>2. status \in {"opening", "open"} /\ (status = "opening" => options.early)
    BY <2>1 DEF FInv, StatusInv, TypeOK
  <2>3. CASE refreshing = None /\ needsRefresh
    <3>1. StartRefresh(pendingForceRefresh, cache)
      BY <1>10, <2>3, Zenon DEF TimerFires
    <3>2. options.early \/ pendingForceRefresh \/ (emitted = 0 /\ noticed' = 0)
      BY <2>1, <2>3 DEF FInv, RefreshInv
    <3>3. pendingForceRefresh \in BOOLEAN /\ noticed' \in Nat /\ noticed' <= chain
      BY <1>1, <2>1 DEF FInv, PastInv, Numbers, TypeOK
    <3> QED BY <2>1, <2>2, <2>3, <3>1, <3>2, <3>3, StartRefreshSafe
  <2>4. CASE ~(refreshing = None /\ needsRefresh)
    <3>1. UNCHANGED <<load, inflight, newest, refreshing, needsRefresh,
                      pendingForceRefresh, emitted, erred>>
      BY <1>10, <2>4 DEF TimerFires
    <3>2. StatusInv' /\ PendingIsScheduled'
      BY <2>1, <2>4, <3>1 DEF FInv, StatusInv, PendingIsScheduled
    <3> QED BY <2>1, <3>1, <3>2, FrameSafe
  <2> QED BY <2>3, <2>4
<1>11. ASSUME Close PROVE FInv'
  <2>1. StatusInv' /\ PendingIsScheduled'
    BY <1>11 DEF FInv, Close, StatusInv, PendingIsScheduled
  <2> QED BY <1>11, <2>1, FrameSafe DEF Close, clientVars
<1>12. ASSUME Expire \/ Invalidate \/ WalletChanges PROVE FInv'
  BY <1>12, WorldSafe
<1>13. ASSUME UNCHANGED vars PROVE FInv'
  <2>1. StatusInv' /\ PendingIsScheduled'
    BY <1>13 DEF FInv, vars, subVars, StatusInv, PendingIsScheduled
  <2> QED BY <1>13, <2>1, FrameSafe DEF vars, subVars
<1> QED
  BY <1>2, <1>3, <1>4, <1>5, <1>6, <1>7, <1>8, <1>9, <1>10, <1>11, <1>12, <1>13
     DEF Next

LEMMA InvHolds == Spec => []Inv
<1>1. Init => Inv
  BY InitType, InitSafe DEF Inv
<1>2. Inv /\ [Next]_vars => Inv'
  BY NextType, NextSafe DEF Inv
<1> QED BY <1>1, <1>2, PTL DEF Spec

-----------------------------------------------------------------------------
(* What follows.                                                           *)

\* A refresh that somebody asked for is never forgotten: a timer or the end of
\* the running refresh is still to start it (requestRefresh, runRefresh).
THEOREM RequestsAreKept == Spec => []PendingIsScheduled
<1>1. Inv => PendingIsScheduled
  BY DEF Inv, FInv
<1> QED BY <1>1, InvHolds, PTL

\* A subscription that has nothing left to do has shown every version it was
\* notified of, or the error of its last attempt (subscribePortfolio).
THEOREM QuietIsFresh == Spec => []QuietMeansFresh
<1>1. Inv => QuietMeansFresh
  BY DEF Inv, FInv
<1> QED BY <1>1, InvHolds, PTL

\* A caller that forces a refresh gets nothing read before it asked, however
\* many loaders overlap (getPortfolio).
THEOREM ForcedCallsAreFresh == Spec => []ForcedIsFresh
<1>1. Inv => ForcedIsFresh
  BY DEF Inv, FInv
<1> QED BY <1>1, InvHolds, PTL

\* The in-flight entry is the loader started last, for exactly as long as it
\* runs (the finally block of getPortfolio).
THEOREM SharedLoaderIsNewest == Spec => []SharedIsNewest
<1>1. Inv => SharedIsNewest
  BY DEF Inv, FInv
<1> QED BY <1>1, InvHolds, PTL

\* A closed subscription: nothing is left that could start a refresh, and one
\* that was running ends without a word.
LEMMA ClosedIsSilent ==
  ASSUME Inv, status = "closed", [Next]_vars
  PROVE  emitted' = emitted
<1> USE DEF Inv
<1>1. timer = "off"
  BY DEF FInv, StatusInv
<1>2. ASSUME NEW o \in Owners, Answer(o) \/ LoadFails(o) PROVE emitted' = emitted
  <2>1. PICK got, entry : LoadEnds(o, got, entry)
    BY <1>2, Zenon DEF Answer, LoadFails
  <2>2. CASE refreshing = o
    <3>1. RefreshEnds(o, got, entry)
      BY <2>1, <2>2 DEF LoadEnds
    <3> QED BY <3>1 DEF RefreshEnds, Reruns, Tell, Emits
  <2>3. CASE refreshing # o
    BY <2>1, <2>3 DEF LoadEnds
  <2> QED BY <2>2, <2>3
<1>3. ~Subscribe /\ ~Subscribed /\ ~Notice /\ ~Tick /\ ~TimerFires /\ ~Close
  <2>1. ~Subscribe /\ ~Close
    BY DEF Subscribe, Close
  <2>2. ~Subscribed /\ ~TimerFires
    BY <1>1, Zenon DEF Subscribed, TimerFires
  <2>3. ~Notifies
    BY DEF Notifies
  <2>4. ~Notice /\ ~Tick
    BY <2>3, Zenon DEF Notice, Tick
  <2> QED BY <2>1, <2>2, <2>4
<1> QED BY <1>2, <1>3 DEF Next, Call, Read, Expire, Invalidate, WalletChanges, vars, subVars

\* After unsubscribing no portfolio is emitted any more (closed in
\* subscribePortfolio).
THEOREM ClosedStaysSilent == Spec => NothingAfterClose
<1>1. Inv /\ [Next]_vars => [status = "closed" => emitted' = emitted]_vars
  BY ClosedIsSilent
<1> QED BY <1>1, InvHolds, PTL DEF Spec, NothingAfterClose

LEMMA StartShowsNoOlder ==
  ASSUME Numbers, NEW force \in BOOLEAN, StartRefresh(force, cache),
         force \/ emitted = 0
  PROVE  emitted' >= emitted
<1>1. CASE Cached(force, cache)
  BY <1>1 DEF StartRefresh, Cached, Numbers
<1>2. CASE ~Cached(force, cache)
  BY <1>2 DEF StartRefresh, Numbers
<1> QED BY <1>1, <1>2

LEMMA RequestShowsNoOlder ==
  ASSUME Numbers, TypeOK, NEW force \in BOOLEAN, NEW by, RequestRefresh(force, by),
         force \/ emitted = 0
  PROVE  emitted' >= emitted
<1>1. CASE options.debounce \/ refreshing # None
  BY <1>1 DEF RequestRefresh, Numbers
<1>2. CASE ~options.debounce /\ refreshing = None
  <2>1. StartRefresh(ForceOf(force), cache)
    BY <1>2 DEF RequestRefresh
  <2>2. ForceOf(force) \in BOOLEAN /\ (force => ForceOf(force))
    BY DEF TypeOK, ForceOf
  <2> QED BY <2>1, <2>2, StartShowsNoOlder
<1> QED BY <1>1, <1>2

LEMMA EmitsNoOlder ==
  ASSUME Inv, ~options.early, [Next]_vars
  PROVE  emitted' >= emitted
<1> USE DEF Inv
<1>1. Numbers /\ Sub \in Owners /\ None \notin Owners
  BY AllNumbers, FeedAssumption DEF Owners
<1>2. ASSUME emitted' = emitted PROVE emitted' >= emitted
  BY <1>1, <1>2 DEF Numbers
<1>3. ASSUME Subscribed PROVE emitted' >= emitted
  <2>1. CASE options.emitInitial
    <3>1. RequestRefresh(FALSE, "change")
      BY <1>3, <2>1, Zenon DEF Subscribed
    <3>2. emitted = 0
      BY <1>3 DEF Subscribed, FInv, StatusInv
    <3> QED BY <1>1, <3>1, <3>2, RequestShowsNoOlder
  <2>2. CASE ~options.emitInitial
    BY <1>2, <1>3, <2>2 DEF Subscribed
  <2> QED BY <2>1, <2>2
<1>4. ASSUME Notice \/ Tick PROVE emitted' >= emitted
  <2>1. PICK by : RequestRefresh(TRUE, by)
    BY <1>4, Zenon DEF Notice, Tick
  <2> QED BY <1>1, <2>1, RequestShowsNoOlder
<1>5. ASSUME TimerFires PROVE emitted' >= emitted
  <2>1. CASE refreshing = None /\ needsRefresh
    <3>1. StartRefresh(pendingForceRefresh, cache)
      BY <1>5, <2>1, Zenon DEF TimerFires
    <3>2. pendingForceRefresh \in BOOLEAN /\ (pendingForceRefresh \/ emitted = 0)
      BY <2>1 DEF FInv, RefreshInv, TypeOK
    <3> QED BY <1>1, <3>1, <3>2, StartShowsNoOlder
  <2>2. CASE ~(refreshing = None /\ needsRefresh)
    BY <1>2, <1>5, <2>2 DEF TimerFires
  <2> QED BY <2>1, <2>2
<1>6. ASSUME NEW o \in Owners, Answer(o) \/ LoadFails(o) PROVE emitted' >= emitted
  <2>1. PICK got, entry :
          /\ LoadEnds(o, got, entry) /\ load[o] # NoLoad
          /\ got = 0 \/ (load[o].state = "read" /\ got = load[o].version)
    <3>1. CASE Answer(o)
      <4>1. load[o].state = "read" /\ load[o] # NoLoad
        BY <3>1 DEF Answer, NoLoad
      <4> QED BY <3>1, <4>1, Zenon DEF Answer
    <3>2. CASE LoadFails(o)
      <4>1. load[o] # NoLoad
        BY <3>2 DEF LoadFails, NoLoad
      <4> QED BY <3>2, <4>1, Zenon DEF LoadFails
    <3> QED BY <1>6, <3>1, <3>2
  <2>2. CASE refreshing # o
    BY <1>2, <2>1, <2>2 DEF LoadEnds
  <2>3. CASE refreshing = o
    <3>1. RefreshEnds(o, got, entry)
      BY <2>1, <2>3 DEF LoadEnds
    <3>2. o \in Callers \/ o = Sub
      BY DEF Owners
    <3>3. (needsRefresh => pendingForceRefresh) /\ (got # 0 => got >= emitted)
      BY <1>1, <2>1, <2>3, <3>2 DEF FInv, RefreshInv, Numbers
    <3>4. Tell(got)
      BY <3>1, <3>3 DEF RefreshEnds, Reruns, Cached
    <3> QED BY <1>1, <3>3, <3>4 DEF Tell, Numbers
  <2> QED BY <2>2, <2>3
<1>7. ASSUME Subscribe \/ Close PROVE emitted' >= emitted
  BY <1>2, <1>7 DEF Subscribe, Close
<1>8. ASSUME NEW c \in Callers, Call(c) PROVE emitted' >= emitted
  BY <1>2, <1>8 DEF Call, subVars
<1>9. ASSUME NEW o \in Owners, Read(o) PROVE emitted' >= emitted
  BY <1>2, <1>9 DEF Read, subVars
<1>10. ASSUME Expire \/ Invalidate \/ WalletChanges PROVE emitted' >= emitted
  BY <1>2, <1>10 DEF Expire, Invalidate, WalletChanges, subVars
<1>11. ASSUME UNCHANGED vars PROVE emitted' >= emitted
  BY <1>2, <1>11 DEF vars, subVars
<1> QED
  BY <1>3, <1>4, <1>5, <1>6, <1>7, <1>8, <1>9, <1>10, <1>11 DEF Next

\* The portfolio a subscriber sees never goes back in time, unless its provider
\* notifies before it has subscribed (subscribePortfolio, getPortfolio).
THEOREM EmissionsGoForward == Spec => EmissionsNeverGoBack
<1>1. Inv /\ [Next]_vars => [options.early \/ emitted' >= emitted]_vars
  BY EmitsNoOlder
<1> QED BY <1>1, InvHolds, PTL DEF Spec, EmissionsNeverGoBack
-----------------------------------------------------------------------------
(* The refinement of PortfolioView.                                        *)

\* Only the wallet moves the chain on; a step that does shows nothing.
LEMMA OnlyWalletMoves ==
  ASSUME [Next]_vars
  PROVE  /\ options' = options
         /\ \/ chain' = chain
            \/ chain' = chain + 1 /\ emitted' = emitted /\ status' = status
<1>1. ASSUME NEW o \in Owners, Answer(o) \/ LoadFails(o)
      PROVE  options' = options /\ chain' = chain
  BY <1>1 DEF Answer, LoadFails, LoadEnds
<1>2. ASSUME WalletChanges
      PROVE  options' = options /\ chain' = chain + 1 /\ emitted' = emitted /\ status' = status
  BY <1>2 DEF WalletChanges, subVars
<1>3. ASSUME \/ \E c \in Callers : Call(c)
             \/ \E o \in Owners : Read(o)
             \/ Subscribe \/ Subscribed \/ Notice \/ Tick \/ TimerFires \/ Close
             \/ Expire \/ Invalidate \/ UNCHANGED vars
      PROVE  options' = options /\ chain' = chain
  BY <1>3 DEF Call, Read, Subscribe, Subscribed, Notice, Tick, TimerFires, Close, Expire,
              Invalidate, vars
<1> QED BY <1>1, <1>2, <1>3 DEF Next

\* The subscription opens and closes in this order, and shows nothing as it does,
\* unless it opens with a portfolio.
LEMMA StatusMoves ==
  ASSUME [Next]_vars
  PROVE  \/ status' = status
         \/ status = "none" /\ status' = "opening" /\ emitted' = emitted
         \/ status = "opening" /\ status' = "open"
         \/ status = "open" /\ status' = "closed" /\ emitted' = emitted
<1>1. ASSUME NEW o \in Owners, Answer(o) \/ LoadFails(o) PROVE status' = status
  BY <1>1 DEF Answer, LoadFails, LoadEnds
<1>2. ASSUME Subscribe \/ Subscribed \/ Close
      PROVE  \/ status = "none" /\ status' = "opening" /\ emitted' = emitted
             \/ status = "opening" /\ status' = "open"
             \/ status = "open" /\ status' = "closed" /\ emitted' = emitted
  BY <1>2 DEF Subscribe, Subscribed, Close
<1>3. ASSUME \/ \E c \in Callers : Call(c)
             \/ \E o \in Owners : Read(o)
             \/ Notice \/ Tick \/ TimerFires \/ Expire \/ Invalidate \/ WalletChanges
             \/ UNCHANGED vars
      PROVE  status' = status
  BY <1>3 DEF Call, Read, Notice, Tick, TimerFires, Expire, Invalidate, WalletChanges,
              vars, subVars
<1> QED BY <1>1, <1>2, <1>3 DEF Next

\* What is shown is a version: no entry and no error is taken for one.
LEMMA ShowsSomething ==
  ASSUME [Next]_vars
  PROVE  emitted' = emitted \/ emitted' # 0
<1>1. ASSUME NEW force, StartRefresh(force, cache) PROVE emitted' = emitted \/ emitted' # 0
  BY <1>1 DEF StartRefresh, Cached
<1>2. ASSUME NEW force, NEW by, RequestRefresh(force, by)
      PROVE  emitted' = emitted \/ emitted' # 0
  BY <1>1, <1>2, Zenon DEF RequestRefresh
<1>3. ASSUME NEW o \in Owners, Answer(o) \/ LoadFails(o)
      PROVE  emitted' = emitted \/ emitted' # 0
  <2>1. PICK got, entry : LoadEnds(o, got, entry)
    BY <1>3, Zenon DEF Answer, LoadFails
  <2>2. CASE refreshing = o
    <3>1. RefreshEnds(o, got, entry)
      BY <2>1, <2>2 DEF LoadEnds
    <3> QED BY <3>1 DEF RefreshEnds, Cached, Tell
  <2> QED BY <2>1, <2>2 DEF LoadEnds
<1>4. ASSUME Notice \/ Tick \/ Subscribed \/ TimerFires
      PROVE  emitted' = emitted \/ emitted' # 0
  <2>1. CASE Notice \/ Tick
    BY <1>2, <2>1, Zenon DEF Notice, Tick
  <2>2. CASE Subscribed
    BY <1>2, <2>2, Zenon DEF Subscribed
  <2>3. CASE TimerFires
    BY <1>1, <2>3, Zenon DEF TimerFires
  <2> QED BY <1>4, <2>1, <2>2, <2>3
<1>5. ASSUME \/ \E c \in Callers : Call(c)
             \/ \E o \in Owners : Read(o)
             \/ Subscribe \/ Close \/ Expire \/ Invalidate \/ WalletChanges \/ UNCHANGED vars
      PROVE  emitted' = emitted
  BY <1>5 DEF Call, Read, Subscribe, Close, Expire, Invalidate, WalletChanges, vars, subVars
<1> QED BY <1>3, <1>4, <1>5 DEF Next

\* Every step of the client is a step of the promise, or changes nothing it is about.
LEMMA StepKeepsPromise ==
  ASSUME Inv, Inv', [Next]_vars
  PROVE  [View!Next]_(View!vars)
<1>1. /\ options' = options
      /\ \/ chain' = chain
         \/ chain' = chain + 1 /\ emitted' = emitted /\ status' = status
  BY OnlyWalletMoves
<1>2. \/ status' = status
      \/ status = "none" /\ status' = "opening" /\ emitted' = emitted
      \/ status = "opening" /\ status' = "open"
      \/ status = "open" /\ status' = "closed" /\ emitted' = emitted
  BY StatusMoves
<1>3. emitted \in Nat /\ emitted' \in Nat /\ chain \in Nat /\ chain' \in Nat
  BY FeedAssumption DEF Inv, TypeOK, Versions
<1>4. emitted' <= chain'
  BY DEF Inv, FInv, PastInv
<1>5. CASE chain' # chain
  <2>1. View!Changes
    BY <1>1, <1>5 DEF View!Changes
  <2> QED BY <2>1 DEF View!Next
<1>6. CASE chain' = chain /\ emitted' = emitted
  <2>1. CASE status' = status
    BY <1>1, <1>6, <2>1 DEF View!vars
  <2>2. CASE status' # status
    BY <1>1, <1>2, <1>6, <2>2 DEF View!Next, View!Begins, View!Opens, View!Closes
  <2> QED BY <2>1, <2>2
<1>7. CASE chain' = chain /\ emitted' # emitted
  <2>1. options.early \/ emitted' >= emitted
    BY EmitsNoOlder
  <2>2. emitted' \in 1 .. chain
    <3>1. emitted' # 0
      BY <1>7, ShowsSomething
    <3> QED BY <1>3, <1>4, <1>7, <3>1
  <2>3. View!Show
    BY <1>1, <1>7, <2>1, <2>2 DEF View!Show
  <2>4. status # "closed"
    BY <1>7, ClosedIsSilent
  <2>5. status \in {"opening", "open"}
    <3>1. status # "none"
      <4>1. SUFFICES ASSUME status = "none" PROVE FALSE
        OBVIOUS
      <4>2. emitted = 0 /\ status' = "none"
        BY <1>2, <1>7, <4>1 DEF Inv, FInv, StatusInv
      <4>3. emitted' = 0
        BY <4>2 DEF Inv, FInv, StatusInv
      <4> QED BY <1>7, <4>2, <4>3
    <3> QED BY <2>4, <3>1 DEF Inv, TypeOK
  <2>6. CASE status' = status
    <3>1. View!Shows
      BY <2>3, <2>5, <2>6 DEF View!Shows
    <3> QED BY <3>1 DEF View!Next
  <2>7. CASE status' # status
    <3>1. View!Opens
      BY <1>2, <1>7, <2>3, <2>5, <2>7 DEF View!Opens
    <3> QED BY <3>1 DEF View!Next
  <2> QED BY <2>6, <2>7
<1> QED BY <1>5, <1>6, <1>7

\* The client implements PortfolioView, whatever its cache, its loaders, its timers
\* and its other callers do (subscribePortfolio, getPortfolio).
THEOREM FeedImplementsView == Spec => KeepsPromise
<1>1. Init => View!Init
  BY DEF Init, View!Init
<1>2. Inv /\ Inv' /\ [Next]_vars => [View!Next]_(View!vars)
  BY StepKeepsPromise
<1> QED BY <1>1, <1>2, InvHolds, PTL DEF Spec, KeepsPromise, View!Spec
=============================================================================
