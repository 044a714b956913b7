--------------------------- MODULE OverviewRefresh ---------------------------
(***************************************************************************)
(* OverviewService: prices, heights and fees of the active networks, polled   *)
(* by many clients and refreshed from Blockchair by one refresh at a time.    *)
(* An envelope of values is kept in Redis and in memory; values a refresh did *)
(* not bring are carried over from the envelope it started with, each under   *)
(* the time it was obtained at.  Source: overview.service.ts.                 *)
(***************************************************************************)
EXTENDS BlockchairProvider

CONSTANTS
    Networks,    \* ACTIVE_CHAINS
    Fields,      \* the values of a network
    Clients,
    Replies,     \* the answers of Blockchair, as far as its quota is concerned
    Fresh,       \* OVERVIEW_BLOCKCHAIR_CACHE_TTL_SECONDS (60)
    MaxAge,      \* OVERVIEW_BLOCKCHAIR_MAX_STALE_SECONDS (300)
    Pause,       \* seconds to the next refresh, at least (15)
    QuotaPause,  \* the same after a quota error (60)
    MaxClock     \* bound of the clock

ASSUME OverviewAssumption ==
    /\ Replies \subseteq Responses
    /\ Fresh \in Nat \ {0} /\ MaxAge \in Nat \ {0}
    /\ Pause \in Nat /\ QuotaPause \in Nat
    /\ MaxClock \in Nat

VARIABLES
    clock,      \* Date.now(), in seconds
    lastValid,  \* the envelope in memory
    retryAt,    \* no refresh before that time
    refresh,    \* the refresh under way (inFlight) and its local variables
    redis,      \* the envelope in Redis and when it expires
    phase,      \* [Clients -> where a call of getOverview is]
    reply,      \* [Clients -> the envelope Redis answered with]
    shown,      \* the answer the last step gave to clients, and when
    quotaAt,    \* history: when the provider last reported a quota error
    forgotten   \* history: the process has been restarted since

memory == <<lastValid, retryAt, refresh, quotaAt, forgotten>>
vars   == <<clock, memory, redis, phase, reply, shown>>

-----------------------------------------------------------------------------
(* A value as an envelope holds it: stamp is its entry of fieldUpdatedAt,     *)
(* stale its being one of staleFields; seen is when the provider gave it.     *)

NoValue == [seen |-> 0, stamp |-> 0, stale |-> FALSE]
Values  == [seen : Nat, stamp : Nat, stale : BOOLEAN]

Items  == [Networks -> [Fields -> Values]]

NoItems    == [n \in Networks |-> [f \in Fields |-> NoValue]]
NoEnvelope == [items |-> NoItems, expires |-> 0]
Envelopes  == [items : Items, expires : Nat]

\* Mutant: a value takes the time of the refresh that carries it on.
MergeRestamped(fresh, old, now) ==
    LET kept == IF fresh.seen = 0 /\ old.seen # 0 /\ now - old.stamp <= MaxAge
                THEN [old EXCEPT !.stale = TRUE, !.stamp = now] ELSE fresh
    IN  IF kept.seen = 0 \/ now - kept.stamp > MaxAge THEN NoValue
        ELSE [kept EXCEPT !.stale = @ \/ now - kept.stamp >= Fresh]

\* merge: a value that is missing is taken over from before, unless it is too old.
Merge(fresh, old, now) ==
    LET kept == IF fresh.seen = 0 /\ old.seen # 0 /\ now - old.stamp <= MaxAge
                THEN [old EXCEPT !.stale = TRUE] ELSE fresh
    IN  IF kept.seen = 0 \/ now - kept.stamp > MaxAge THEN NoValue
        ELSE [kept EXCEPT !.stale = @ \/ now - kept.stamp >= Fresh]

MergeItems(fresh, old, now) ==
    [n \in Networks |-> [f \in Fields |-> Merge(fresh[n][f], old[n][f], now)]]

\* Mutant: values are shown as the envelope holds them.
PresentAsKept(e) == [at |-> clock, items |-> e.items]

\* present: every age is looked at again, whatever the envelope says.
Present(e) == [at |-> clock, items |-> MergeItems(e.items, NoItems, clock)]

IsFresh(e) == clock < e.expires

-----------------------------------------------------------------------------
(* The refresh under way: waiting for the batch, for the networks it left     *)
(* out, or for Redis to take the result.                                     *)

NoRefresh ==
    [stage |-> "none", cached |-> NoEnvelope, now |-> 0, items |-> NoItems, holes |-> {}]

NoEntry      == [envelope |-> NoEnvelope, until |-> 0]
NothingShown == [at |-> 0, items |-> NoItems]

Init ==
    /\ clock = 1
    /\ lastValid = NoEnvelope
    /\ retryAt = 0
    /\ refresh = NoRefresh
    /\ redis = NoEntry
    /\ phase = [c \in Clients |-> "idle"]
    /\ reply = [c \in Clients |-> NoEnvelope]
    /\ shown = NothingShown
    /\ quotaAt = 0 /\ forgotten = FALSE

-----------------------------------------------------------------------------
(* getOverview.                                                              *)

\* Nothing is looked at before Redis is asked, so a call begins when Redis reads.  A
\* read that fails, or is not tried, is answered with nothing.
Poll(c) ==
    /\ phase[c] = "idle"
    /\ phase' = [phase EXCEPT ![c] = "resuming"]
    /\ \E e \in {redis.envelope, NoEnvelope} : reply' = [reply EXCEPT ![c] = e]
    /\ shown' = NothingShown
    /\ UNCHANGED <<clock, memory, redis>>

Cached(c) == IF reply[c] = NoEnvelope THEN lastValid ELSE reply[c]

Show(c) ==
    /\ phase[c] = "resuming"
    /\ \/ IsFresh(Cached(c))
       \/ refresh.stage = "none" /\ clock < retryAt
    /\ shown' = Present(Cached(c))
    /\ phase' = [phase EXCEPT ![c] = "idle"]
    /\ reply' = [reply EXCEPT ![c] = NoEnvelope]
    /\ UNCHANGED <<clock, memory, redis>>

Join(c) ==
    /\ phase[c] = "resuming"
    /\ ~IsFresh(Cached(c))
    /\ refresh.stage # "none"
    /\ phase' = [phase EXCEPT ![c] = "waiting"]
    /\ reply' = [reply EXCEPT ![c] = NoEnvelope]
    /\ shown' = NothingShown
    /\ UNCHANGED <<clock, memory, redis>>

Lead(c) ==
    /\ phase[c] = "resuming"
    /\ ~IsFresh(Cached(c))
    /\ refresh.stage = "none" /\ clock >= retryAt
    /\ refresh' = [NoRefresh EXCEPT !.stage = "batch", !.cached = Cached(c)]
    /\ phase' = [phase EXCEPT ![c] = "waiting"]
    /\ reply' = [reply EXCEPT ![c] = NoEnvelope]
    /\ shown' = NothingShown
    /\ UNCHANGED <<clock, lastValid, retryAt, quotaAt, forgotten, redis>>

-----------------------------------------------------------------------------
(* refresh.                                                                  *)

\* Everyone who waits gets the same answer.
Waiting == {c \in Clients : phase[c] = "waiting"}
ServeAll(e) ==
    /\ shown' = Present(e)
    /\ phase' = [c \in Clients |-> IF c \in Waiting THEN "idle" ELSE phase[c]]

Answered(r) ==
    IF r.status = "quota" \/ (r.status = "2xx" /\ r.code = "quota")
    THEN quotaAt' = clock /\ forgotten' = FALSE
    ELSE UNCHANGED <<quotaAt, forgotten>>

\* item: the statistics of a network as values obtained now, under the time now.
Obtained(have, now) ==
    [f \in Fields |-> IF f \in have THEN [seen |-> clock, stamp |-> now, stale |-> FALSE]
                      ELSE NoValue]

Received(items) == \E n \in Networks, f \in Fields : items[n][f].seen # 0

\* Mutant: what a refresh ends with replaces what there was, although it brought nothing.
ConcludeAlways(items, now, quota) ==
    /\ retryAt' = clock + (IF quota THEN QuotaPause ELSE Pause)
    /\ lastValid' = [items |-> MergeItems(items, refresh.cached.items, now),
                     expires |-> clock + Fresh]
    /\ refresh' = [NoRefresh EXCEPT !.stage = "saving"]
    /\ shown' = NothingShown
    /\ UNCHANGED phase

\* The last answer is there: replace the envelope, unless nothing was received.
Conclude(items, now, quota) ==
    /\ retryAt' = clock + (IF quota THEN QuotaPause ELSE Pause)
    /\ IF Received(items)
       THEN /\ lastValid' = [items |-> MergeItems(items, refresh.cached.items, now),
                             expires |-> clock + Fresh]
            /\ refresh' = [NoRefresh EXCEPT !.stage = "saving"]
            /\ shown' = NothingShown
            /\ UNCHANGED phase
       ELSE /\ ServeAll(refresh.cached)
            /\ refresh' = NoRefresh
            /\ UNCHANGED lastValid

\* The batch comes back: stats are the networks it has, each with some values.
BatchAnswers(r, stats) ==
    LET items == [n \in Networks |-> Obtained(IF n \in DOMAIN stats THEN stats[n] ELSE {}, clock)]
        holes == Networks \ DOMAIN stats
    IN  /\ refresh.stage = "batch"
        /\ HasStats(r) \/ stats = <<>>
        /\ Answered(r)
        /\ IF HasStats(r) /\ holes # {}
           THEN /\ refresh' = [refresh EXCEPT !.stage = "asking", !.now = clock,
                                              !.items = items, !.holes = holes]
                /\ shown' = NothingShown
                /\ UNCHANGED <<lastValid, retryAt, phase>>
           ELSE Conclude(items, clock, Limited(r))
        /\ UNCHANGED <<clock, redis, reply>>

\* A network the batch left out is asked for on its own; another one follows unless the
\* provider limits us.  (The code keeps to the order of ACTIVE_CHAINS.)
HoleAnswers(n, r, have) ==
    LET items == [refresh.items EXCEPT ![n] = Obtained(have, refresh.now)]
    IN  /\ refresh.stage = "asking" /\ n \in refresh.holes
        /\ HasStats(r) \/ have = {}
        /\ Answered(r)
        /\ IF refresh.holes # {n} /\ ~Limited(r)
           THEN /\ refresh' = [refresh EXCEPT !.items = items, !.holes = @ \ {n}]
                /\ shown' = NothingShown
                /\ UNCHANGED <<lastValid, retryAt, phase>>
           ELSE Conclude(items, refresh.now, Limited(r))
        /\ UNCHANGED <<clock, redis, reply>>

\* Mutant: who waits is forgotten when the write fails.
SavedOrForgotten ==
    /\ refresh.stage = "saving"
    /\ redis' \in {redis, [envelope |-> lastValid, until |-> clock + MaxAge]}
    /\ refresh' = NoRefresh
    /\ IF redis' # redis THEN ServeAll(lastValid)
       ELSE shown' = NothingShown /\ UNCHANGED phase
    /\ UNCHANGED <<clock, lastValid, retryAt, quotaAt, forgotten, reply>>

\* Redis took the envelope, or it failed, which is swallowed.
Saved ==
    /\ refresh.stage = "saving"
    /\ redis' \in {redis, [envelope |-> lastValid, until |-> clock + MaxAge]}
    /\ refresh' = NoRefresh
    /\ ServeAll(lastValid)
    /\ UNCHANGED <<clock, lastValid, retryAt, quotaAt, forgotten, reply>>

-----------------------------------------------------------------------------
\* Time passes, and Redis forgets what has expired.
Tick ==
    /\ clock < MaxClock
    /\ clock' = clock + 1
    /\ redis' = IF clock' < redis.until THEN redis ELSE NoEntry
    /\ shown' = NothingShown
    /\ UNCHANGED <<memory, phase, reply>>

\* Memory is lost, the pause too, and with it who waits; a write under way may still be
\* done.
Restart ==
    /\ lastValid' = NoEnvelope
    /\ retryAt' = 0
    /\ refresh' = NoRefresh
    /\ forgotten' = (quotaAt # 0)
    /\ \/ UNCHANGED redis
       \/ /\ refresh.stage = "saving"
          /\ redis' = [envelope |-> lastValid, until |-> clock + MaxAge]
    /\ phase' = [c \in Clients |-> "idle"]
    /\ reply' = [c \in Clients |-> NoEnvelope]
    /\ shown' = NothingShown
    /\ UNCHANGED <<clock, quotaAt>>

Stats == UNION {[S -> SUBSET Fields] : S \in SUBSET Networks}

ProviderAnswers ==
    \/ /\ refresh.stage = "batch"
       /\ \E r \in Replies, stats \in Stats : BatchAnswers(r, stats)
    \/ /\ refresh.stage = "asking"
       /\ \E n \in refresh.holes, r \in Replies, have \in SUBSET Fields : HoleAnswers(n, r, have)

Next ==
    \/ \E c \in Clients : Poll(c) \/ Show(c) \/ Join(c) \/ Lead(c)
    \/ ProviderAnswers
    \/ Saved
    \/ Tick
    \/ Restart

\* Redis and Blockchair answer or time out, and whoever has an answer resumes.
Fairness ==
    /\ \A c \in Clients : WF_vars(Show(c) \/ Join(c) \/ Lead(c))
    /\ WF_vars(ProviderAnswers \/ Saved)

Spec == Init /\ [][Next]_vars /\ Fairness

-----------------------------------------------------------------------------
(* Properties.                                                               *)

Refreshes ==
    [stage : {"none", "batch", "asking", "saving"}, cached : Envelopes, now : Nat,
     items : Items, holes : SUBSET Networks]

TypeOK ==
    /\ clock \in Nat /\ retryAt \in Nat
    /\ quotaAt \in Nat /\ forgotten \in BOOLEAN
    /\ lastValid \in Envelopes
    /\ refresh \in Refreshes
    /\ redis \in [envelope : Envelopes, until : Nat]
    /\ phase \in [Clients -> {"idle", "resuming", "waiting"}]
    /\ reply \in [Clients -> Envelopes]
    /\ shown \in [at : Nat, items : Items]

\* DEPLOYMENT.md:93: values "may be preserved for at most 300 seconds total since that
\* field was last obtained, not 300 seconds after expiry", and are "fresh for 60
\* seconds"; API.md:10: "preserved fields retain fieldUpdatedAt timestamps and appear
\* in staleFields".  Whatever a client was shown was obtained from the provider no
\* longer ago than that; the time it carries is no later than when it was obtained; and
\* what is not marked as stale was obtained within the time it counts as fresh, however
\* many refreshes and places have carried it on.
HonestAges ==
    \A n \in Networks, f \in Fields :
        LET v == shown.items[n][f]
        IN  v.seen # 0 =>
              /\ v.stamp <= v.seen
              /\ shown.at - v.seen <= MaxAge
              /\ ~v.stale => shown.at - v.seen < Fresh

\* DEPLOYMENT.md:93: "A total failed refresh cannot replace the last valid envelope",
\* and a partial one gives up no value of the envelope it started from before its time.
\* (That envelope may be an older one than memory has: Redis is preferred.)
FailuresKeepValues ==
    [][lastValid' # lastValid /\ lastValid' # NoEnvelope =>
        LET now  == IF refresh.stage = "batch" THEN clock ELSE refresh.now
            new  == lastValid'.items
            base == refresh.cached.items
        IN  /\ \E n \in Networks, f \in Fields : new[n][f].seen >= now
            /\ \A n \in Networks, f \in Fields :
                  base[n][f].seen # 0 /\ now - base[n][f].stamp <= MaxAge
                      => new[n][f].seen >= base[n][f].seen]_vars

\* DEPLOYMENT.md:93: "Quota failure cools down for 60 seconds"; "a successful partial
\* batch may fetch missing networks individually, stopping on quota errors".  In the
\* life of one process no request of any kind follows a quota error too early, in
\* whatever form it was reported.  The pause is kept in memory only: a process that was
\* restarted since the last quota error may ask at once, and is excused here until the
\* provider reports the next one.
Asks == \/ refresh.stage = "none" /\ refresh'.stage = "batch"
        \/ refresh'.stage = "asking" /\ refresh'.holes # refresh.holes
ProviderSpared ==
    [][Asks /\ quotaAt' # 0 => forgotten' \/ clock - quotaAt' >= QuotaPause]_vars
=============================================================================
