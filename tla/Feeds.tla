--------------------------------- MODULE Feeds ---------------------------------
(***************************************************************************)
(* The caches between the program and its data sources (market_data/*.py,  *)
(* core/external_data.py) and the circuit breaker of yfinance.  They share *)
(* one shape: look the entry up under a lock, ask the network without it,  *)
(* take the lock again to store what came.  They differ in what a failed   *)
(* request leaves in the cache, and that is what `feed` selects; it is     *)
(* chosen in Init and never changes.                                       *)
(*                                                                         *)
(* One entry (a symbol, a series, a set of periods) is followed.  Its data *)
(* is the version of the source it shows, NoData for nothing at all.  Ages *)
(* are counted in ticks and saturate once they make no more difference.    *)
(***************************************************************************)
EXTENDS Integers

CONSTANTS
  Askers,       \* the threads that ask for the entry
  TTL,          \* ticks an entry is fresh for
  Retry,        \* _NEGATIVE_CACHE_RETRY_SEC, in ticks
  MaxFailures,  \* _YF_MAX_FAILURES
  YfPause,      \* _YF_PAUSE_SEC, in ticks
  MaxVersion,   \* bound on the versions of the source
  MaxEvictions  \* bound on the batches asked for another set of symbols

ASSUME FeedsAssumption ==
  /\ TTL \in Nat \ {0} /\ Retry \in 1..TTL
  /\ MaxFailures \in Nat \ {0} /\ YfPause \in Nat \ {0}
  /\ MaxVersion \in Nat \ {0} /\ MaxEvictions \in Nat

(* charts: sparklines and OHLCV; comparison: comparisons and fundamentals;  *)
(* quotes: the watchlist batch; macro: the VIX/SPY/DXY bar; fred: a FRED    *)
(* series; fear_greed: the CNN index; finnhub: Finnhub quotes, and likewise *)
(* news, earnings, release dates and the bundle of FRED series;             *)
(* correlation: the correlation matrix; sectors: the sector grid.           *)
FeedNames ==
  {"charts", "comparison", "quotes", "macro", "fred", "fear_greed", "finnhub", "correlation",
   "sectors"}

NoData == 0
Versions == 1..MaxVersion

VARIABLES
  feed,
  entry,      \* [data, age since its timestamp, tried: age of the last attempt]
  caller,     \* thread -> where it is, the data it saw, what it got, its wait
  yfFailures, \* consecutive yfinance errors
  pause,      \* ticks for which yfinance calls are still skipped
  latest,     \* the version the source has
  up,         \* whether the source answers
  evictions,
  \* History, read by the properties only.
  alone,      \* no two requests, and no batch of other symbols, overlapped yet
  sent        \* ticks since the request was sent that the entry holds the answer
              \* of, or is about to; TTL for none.  Noted of the locked feeds only.

fvars == <<feed, entry, caller, yfFailures, pause, latest, up, evictions, alone, sent>>

Breaker == <<yfFailures, pause>>
Source == <<latest, up>>

Idle == [at |-> "idle", saw |-> NoData, got |-> NoData, ok |-> TRUE, waited |-> 0]

UsesBreaker == feed \in {"charts", "comparison", "quotes", "macro"}
KeepsLock == feed = "macro"
FetchLock == feed = "sectors"
Locked == KeepsLock \/ FetchLock
NegativeRetry == feed \in {"fred", "fear_greed"}

AskersAt(place) == {c \in Askers : caller[c].at = place}
Asking == {c \in Askers : caller[c].at # "idle"}
Fetching == AskersAt("fetch") \cup AskersAt("store")

-----------------------------------------------------------------------------
(* The lookup. *)

Fresh ==
  /\ entry.age < TTL
  /\ feed = "fear_greed" => entry.data # NoData

\* The source failed a moment ago: what was known before it is served on.
RecentlyTried == NegativeRetry /\ entry.data # NoData /\ entry.tried < Retry

\* yf_circuit_open, which also forgets the failures once the pause is over.
CircuitStuck == UsesBreaker /\ yfFailures >= MaxFailures
CircuitOpen == UsesBreaker /\ pause > 0
FailuresSeen == IF UsesBreaker /\ yfFailures >= MaxFailures THEN 0 ELSE yfFailures

Unlocked == TRUE
LockFree == KeepsLock => Asking = {}

\* A lookup that is not answered from the cache.  One that is, or that meets an
\* open circuit and is answered by stale data or by Finnhub, stores nothing.
Begin(c) ==
  /\ caller[c] = Idle
  /\ LockFree
  /\ ~Fresh /\ ~RecentlyTried /\ ~CircuitOpen
  /\ caller' = [caller EXCEPT ![c] =
       [Idle EXCEPT !.at = IF FetchLock THEN "queue" ELSE "fetch", !.saw = entry.data]]
  /\ yfFailures' = FailuresSeen
  /\ alone' = (alone /\ Asking = {})
  /\ sent' = IF KeepsLock THEN 0 ELSE sent
  /\ UNCHANGED <<feed, entry, pause, Source, evictions>>

AlwaysAgain == TRUE
StillNeeded == ~Fresh

\* sectors: the fetch lock is free; somebody else may have fetched meanwhile.
Enter(c) ==
  /\ caller[c].at = "queue"
  /\ Fetching = {}
  /\ \/ StillNeeded /\ caller' = [caller EXCEPT ![c].at = "fetch"] /\ sent' = 0
     \/ ~StillNeeded /\ caller' = [caller EXCEPT ![c] = Idle] /\ UNCHANGED sent
  /\ UNCHANGED <<feed, entry, Breaker, Source, evictions, alone>>

-----------------------------------------------------------------------------
(* The request, without the lock except for macro. *)

\* record_yf_success and record_yf_failure; counting on beyond the threshold
\* makes no difference, each further failure starts the pause again.
RecordSuccess == yfFailures' = 0 /\ pause' = 0
RecordFailure ==
  /\ yfFailures' = IF yfFailures < MaxFailures THEN yfFailures + 1 ELSE yfFailures
  /\ pause' = IF yfFailures + 1 >= MaxFailures THEN YfPause ELSE pause

Answered(c, got, ok) ==
  caller' = [caller EXCEPT ![c] = [@ EXCEPT !.at = "store", !.got = got, !.ok = ok]]

\* The latest data, an empty answer, or an error.
Respond(c) ==
  /\ caller[c].at = "fetch"
  /\ \/ up /\ Answered(c, latest, TRUE)
        /\ IF UsesBreaker THEN RecordSuccess ELSE UNCHANGED Breaker
     \/ ~up /\ Answered(c, NoData, TRUE)
        /\ IF UsesBreaker THEN RecordSuccess ELSE UNCHANGED Breaker
     \/ ~up /\ Answered(c, NoData, FALSE)
        /\ IF UsesBreaker THEN RecordFailure ELSE UNCHANGED Breaker
  /\ UNCHANGED <<feed, entry, Source, evictions, alone, sent>>

\* The other users of the breaker, which is one for all of yfinance: a lookup of
\* theirs, or the end of a request.
Elsewhere ==
  /\ UsesBreaker
  /\ \/ pause = 0 /\ yfFailures' = FailuresSeen /\ UNCHANGED pause
     \/ RecordSuccess
     \/ ~up /\ RecordFailure
  /\ UNCHANGED <<feed, entry, caller, Source, evictions, alone, sent>>

-----------------------------------------------------------------------------
(* What is stored. *)

Stored(data, age) == [data |-> data, age |-> age, tried |-> 0]
Else(got, other) == IF got # NoData THEN got ELSE other

\* charts and quotes: what the lookup saw, kept as fresh as an answer would be.
StoreOrKeepSeen(me) == Stored(Else(me.got, me.saw), 0)

\* comparison: the same on an error, but an empty answer replaces the data.
StoreAnswerOrKeepSeen(me) == Stored(IF me.ok THEN me.got ELSE me.saw, 0)

\* macro: nothing on an error; an answer dates from before the request.
StoreAnswer(me) == IF me.ok THEN Stored(me.got, me.waited) ELSE entry

\* fred and fear_greed look at the entry again.  Without data in it, the failure
\* itself is cached.
StoreOrKeepCurrent(me) ==
  IF me.got # NoData THEN Stored(me.got, 0)
  ELSE IF entry.data # NoData THEN [entry EXCEPT !.tried = 0]
  ELSE Stored(NoData, 0)

\* finnhub, correlation and sectors: whatever came, even nothing.
StoreWhatCame(me) == Stored(me.got, 0)

NewEntry(me) ==
  CASE feed \in {"charts", "quotes"}   -> StoreOrKeepSeen(me)
    [] feed = "comparison"             -> StoreAnswerOrKeepSeen(me)
    [] feed = "macro"                  -> StoreAnswer(me)
    [] NegativeRetry                   -> StoreOrKeepCurrent(me)
    [] OTHER                           -> StoreWhatCame(me)

StoresNothing(me) == KeepsLock /\ ~me.ok

Store(c) ==
  /\ caller[c].at = "store"
  /\ entry' = NewEntry(caller[c])
  /\ caller' = [caller EXCEPT ![c] = Idle]
  /\ sent' = IF StoresNothing(caller[c]) THEN TTL ELSE sent
  /\ UNCHANGED <<feed, Breaker, Source, evictions, alone>>

\* These caches have room for one key: a batch of other symbols, or periods,
\* replaces it, for sectors under the fetch lock.  Quotes of a batch that shares the
\* symbol are still kept for it.
Evict ==
  /\ feed \in {"quotes", "correlation", "sectors"} /\ evictions < MaxEvictions
  /\ FetchLock => Fetching = {}
  /\ evictions' = evictions + 1
  /\ \E data \in {NoData} \cup (IF feed = "quotes" THEN {entry.data} ELSE {}) :
       entry' = [data |-> data, age |-> TTL, tried |-> Retry]
  /\ alone' = FALSE /\ sent' = TTL
  /\ UNCHANGED <<feed, caller, Breaker, Source>>

-----------------------------------------------------------------------------
(* The world. *)

Older(age, limit) == IF age < limit THEN age + 1 ELSE age

FeedsTick ==
  /\ entry' = [entry EXCEPT !.age = Older(@, TTL), !.tried = Older(@, Retry)]
  /\ pause' = IF pause > 0 THEN pause - 1 ELSE 0
  /\ caller' = [c \in Askers |->
       IF KeepsLock /\ c \in Asking THEN [caller[c] EXCEPT !.waited = Older(@, TTL)]
       ELSE caller[c]]
  /\ sent' = Older(sent, TTL)
  /\ UNCHANGED <<feed, yfFailures, Source, evictions, alone>>

Publish ==
  /\ latest < MaxVersion
  /\ latest' = latest + 1
  /\ UNCHANGED <<feed, entry, caller, Breaker, up, evictions, alone, sent>>

Outage ==
  /\ up' = ~up
  /\ UNCHANGED <<feed, entry, caller, Breaker, latest, evictions, alone, sent>>

FeedsInit ==
  /\ feed \in FeedNames
  /\ entry = [data |-> NoData, age |-> TTL, tried |-> Retry]
  /\ caller = [c \in Askers |-> Idle]
  /\ yfFailures = 0 /\ pause = 0
  /\ latest = 1 /\ up \in BOOLEAN
  /\ evictions = 0 /\ alone = TRUE /\ sent = TTL

Ask(c) == Begin(c) \/ Enter(c) \/ Respond(c) \/ Store(c)

FeedsNext ==
  (\E c \in Askers : Ask(c)) \/ Elsewhere \/ Evict \/ FeedsTick \/ Publish \/ Outage

\* Time passes; a browser polls and the agent cycles, so that the entry is asked
\* for again and again; requests end, because they have timeouts.  Nothing is
\* assumed of the source.
FeedsFairness ==
  /\ WF_fvars(FeedsTick)
  /\ \A c \in Askers : WF_fvars(Ask(c))

FeedsSpec == FeedsInit /\ [][FeedsNext]_fvars /\ FeedsFairness

-----------------------------------------------------------------------------
(* Properties. *)

FeedsTyped ==
  /\ feed \in FeedNames
  /\ entry \in [data : Versions \cup {NoData}, age : 0..TTL, tried : 0..Retry]
  /\ caller \in [Askers -> [at : {"idle", "queue", "fetch", "store"},
                             saw : Versions \cup {NoData}, got : Versions \cup {NoData},
                             ok : BOOLEAN, waited : 0..TTL]]
  /\ yfFailures \in 0..MaxFailures /\ pause \in 0..YfPause
  /\ latest \in Versions /\ up \in BOOLEAN
  /\ evictions \in 0..MaxEvictions /\ alone \in BOOLEAN /\ sent \in 0..TTL

\* The step that stores an error, not an empty answer.
StoresError ==
  \E c \in Askers : caller[c].at = "store" /\ ~caller[c].ok /\ caller'[c].at = "idle"

\* An outage never erases what a cache that promises stale data knew.  fred and
\* fear_greed keep it however requests overlap, because they look at the entry
\* again before they store; charts and quotes keep it as long as requests do not
\* overlap; comparisons, fundamentals and macro only if the outage shows as an
\* error.  (An empty answer is data to them: the macro bar then holds no prices,
\* where fetch_macro speaks of its "last known value on failure".)
KnownGoodKept ==
  [][/\ entry.data # NoData
     /\ \/ NegativeRetry
        \/ alone' /\ feed \in {"charts", "quotes"}
        \/ alone' /\ feed = "comparison" /\ StoresError
        \/ KeepsLock /\ StoresError
     => entry'.data # NoData]_fvars

\* A cache never replaces data by older data: always true of the two feeds that
\* keep a lock over the request, and of the others unless requests overlapped
\* (the request that was answered first may be stored last).
NeverOlder ==
  [][(alone' \/ Locked) /\ entry'.data # NoData
     => entry'.data >= entry.data]_fvars

\* Callers that miss together share one request of the feeds that keep a lock over
\* it: a request is sent only when no other is under way, and not before TTL ticks
\* have passed since the last one was sent, unless that one failed and left nothing
\* or a batch for other periods has taken the place of its answer.
OneRequestPerTTL ==
  [][Locked =>
       \A c \in Askers : caller[c].at # "fetch" /\ caller'[c].at = "fetch" =>
         Fetching = {} /\ sent = TTL]_fvars

\* No failure is cached for ever, not by the breaker, the negative cache or the
\* bumped timestamps: once the source answers again, every feed comes to show
\* what it has and goes on doing so.
FeedCatchesUp == <>[]up => <>[](entry.data = latest)
=============================================================================
