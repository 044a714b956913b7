------------------------- MODULE TokenMetadataCache -------------------------
(***************************************************************************)
(* TokenMetadataCache: ERC-20 metadata shared by all lookups of one process. *)
(* A call of deduplicate is answered from a bounded cache in order of use,   *)
(* or awaits the one fetch under way for its token.                          *)
(***************************************************************************)
EXTENDS Integers, SequencesExt

CONSTANTS
    Calls,       \* the calls of deduplicate
    Tokens,      \* the chain:contract pairs they ask for
    NoOne,       \* "no call", the empty slot of a map
    TokenOf,     \* which token a call asks for
    MaxEntries,  \* METADATA_CACHE_MAX_ENTRIES (500 in the code)
    FullLife,    \* METADATA_CACHE_TTL_MS (a day)
    ShortLife,   \* life of degraded metadata (a minute)
    MaxClock     \* bound of the clock

ASSUME MetadataAssumption ==
    /\ NoOne \notin Calls
    /\ TokenOf \in [Calls -> Tokens]
    /\ MaxEntries \in Nat \ {0}
    /\ ShortLife \in Nat \ {0} /\ FullLife \in Nat /\ ShortLife <= FullLife
    /\ MaxClock \in Nat

VARIABLES
    clock,     \* Date.now()
    cache,     \* the entries of the Map, least recently used first
    fetching,  \* inFlight: [Tokens -> the call whose fetch is under way, or NoOne]
    call,      \* [Calls -> where the call is]
    fetcher,   \* [Calls -> the call whose fetch it awaits; NoOne: none]
    fetched,   \* [Calls -> what the fetch this call started came back with]
    got        \* [Calls -> what the call is answered with]

metadataVars == <<clock, cache, fetching, call, fetcher, fetched, got>>

\* No call failed, and the decimals were read (full), the symbol alone (symbol) or
\* neither (blank); or one of the three failed, and the decimals were read (degraded)
\* or not (failed).
Qualities == {"full", "symbol", "blank", "degraded", "failed"}
Lasting   == {"full", "symbol"}
Nothing   == "nothing"

\* Mutant: only failures shorten the life.
LifeOfFailures(q) == IF q \in {"degraded", "failed"} THEN ShortLife ELSE FullLife

Life(q) == IF q \in Lasting THEN FullLife ELSE ShortLife

Metadata == [token : Tokens, quality : Qualities, until : Nat]

TypeOK ==
    /\ clock \in Nat
    /\ cache \in Seq(Metadata)
    /\ fetching \in [Tokens -> Calls \cup {NoOne}]
    /\ call \in [Calls -> {"new", "waiting", "served"}]
    /\ fetcher \in [Calls -> Calls \cup {NoOne}]
    /\ fetched \in [Calls -> Qualities \cup {Nothing}]
    /\ got \in [Calls -> Qualities \cup {Nothing}]

Init ==
    /\ clock = 0
    /\ cache = <<>>
    /\ fetching = [t \in Tokens |-> NoOne]
    /\ call = [c \in Calls |-> "new"]
    /\ fetcher = [c \in Calls |-> NoOne]
    /\ fetched = [c \in Calls |-> Nothing]
    /\ got = [c \in Calls |-> Nothing]

-----------------------------------------------------------------------------
(* get and set.                                                              *)

Holds(t)   == \E x \in ToSet(cache) : x.token = t
Place(t)   == CHOOSE i \in DOMAIN cache : cache[i].token = t
EntryOf(t) == cache[Place(t)]
Live(t)    == Holds(t) /\ clock <= EntryOf(t).until
Others(t)  == IF Holds(t) THEN RemoveAt(cache, Place(t)) ELSE cache

\* Mutants: a hit leaves the entry where it is; an expired entry stays.
GetInPlace(t) == IF Live(t) THEN cache ELSE Others(t)
GetKeepingExpired(t) == IF Live(t) THEN Append(Others(t), EntryOf(t)) ELSE cache

\* get: a live entry becomes the most recently used, an expired one is dropped.
AfterGet(t) == IF Live(t) THEN Append(Others(t), EntryOf(t)) ELSE Others(t)

\* Mutant: one entry too many.
MakeRoomLate == IF Len(cache) > MaxEntries THEN Tail(cache) ELSE cache

\* The least recently used entry goes when the cache is full ...
MakeRoom == IF Len(cache) >= MaxEntries THEN Tail(cache) ELSE cache

\* ... and Map.set appends a new key, or replaces the value of a key in its place.
AfterSet(t, q) ==
    LET entry == [token |-> t, quality |-> q, until |-> clock + Life(q)]
    IN  IF \E x \in ToSet(MakeRoom) : x.token = t
        THEN [i \in DOMAIN MakeRoom |-> IF MakeRoom[i].token = t THEN entry ELSE MakeRoom[i]]
        ELSE Append(MakeRoom, entry)

-----------------------------------------------------------------------------
(* A call of deduplicate, up to its first await.                             *)

Hit(c) ==
    /\ call[c] = "new"
    /\ Live(TokenOf[c])
    /\ cache' = AfterGet(TokenOf[c])
    /\ got' = [got EXCEPT ![c] = EntryOf(TokenOf[c]).quality]
    /\ call' = [call EXCEPT ![c] = "served"]
    /\ UNCHANGED <<clock, fetching, fetcher, fetched>>

\* Await the fetch under way for this token, or start it.
Miss(c) ==
    LET t == TokenOf[c]
        f == IF fetching[t] = NoOne THEN c ELSE fetching[t]
    IN  /\ call[c] = "new"
        /\ ~Live(t)
        /\ cache' = AfterGet(t)
        /\ fetching' = [fetching EXCEPT ![t] = f]
        /\ fetcher' = [fetcher EXCEPT ![c] = f]
        /\ call' = [call EXCEPT ![c] = "waiting"]
        /\ UNCHANGED <<clock, fetched, got>>

Ask(c) == Hit(c) \/ Miss(c)

\* Mutant: a failed fetch is never forgotten.
LandKeepingFailures(c, q) ==
    /\ fetching[TokenOf[c]] = c
    /\ fetched' = [fetched EXCEPT ![c] = q]
    /\ cache' = AfterSet(TokenOf[c], q)
    /\ fetching' = IF q = "failed" THEN fetching ELSE [fetching EXCEPT ![TokenOf[c]] = NoOne]
    /\ UNCHANGED <<clock, call, fetcher, got>>

\* The fetch of c comes back (it never throws), is cached and leaves the map.
Land(c, q) ==
    /\ fetching[TokenOf[c]] = c
    /\ fetched' = [fetched EXCEPT ![c] = q]
    /\ cache' = AfterSet(TokenOf[c], q)
    /\ fetching' = [fetching EXCEPT ![TokenOf[c]] = NoOne]
    /\ UNCHANGED <<clock, call, fetcher, got>>

\* A call that awaited the fetch resumes with its result.
Resume(c) ==
    /\ call[c] = "waiting"
    /\ fetched[fetcher[c]] # Nothing
    /\ got' = [got EXCEPT ![c] = fetched[fetcher[c]]]
    /\ call' = [call EXCEPT ![c] = "served"]
    /\ UNCHANGED <<clock, cache, fetching, fetcher, fetched>>

Tick ==
    /\ clock < MaxClock
    /\ clock' = clock + 1
    /\ UNCHANGED <<cache, fetching, call, fetcher, fetched, got>>

Finished ==
    /\ \A c \in Calls : call[c] = "served"
    /\ UNCHANGED metadataVars

Next ==
    \/ \E c \in Calls : Ask(c) \/ (\E q \in Qualities : Land(c, q)) \/ Resume(c)
    \/ Tick
    \/ Finished

\* The three RPC calls of a fetch are bounded by a timeout each.
Fairness ==
    \A c \in Calls :
        WF_metadataVars(\E q \in Qualities : Land(c, q)) /\ WF_metadataVars(Resume(c))

Spec == Init /\ [][Next]_metadataVars /\ Fairness

-----------------------------------------------------------------------------
(* Properties.                                                               *)

\* The cache never outgrows its limit and holds each token once, and metadata obtained
\* from a failing node, or empty, is forgotten within the short life, "to allow
\* recovery after temporary RPC degradation" (token-metadata.cache.ts:44).  A token
\* whose fetch is under way is not in the cache: otherwise set would evict another
\* entry for a key that is there, and leave the new value in the place of the old one.
CacheSound ==
    /\ Len(cache) <= MaxEntries
    /\ \A i, j \in DOMAIN cache : cache[i].token = cache[j].token => i = j
    /\ \A x \in ToSet(cache) :
          x.until <= clock + (IF x.quality \in Lasting THEN FullLife ELSE ShortLife)
    /\ \A t \in Tokens : fetching[t] # NoOne => ~Holds(t)

-----------------------------------------------------------------------------
(* The calls as flights shared per token; an answer out of the cache is for  *)
(* the flights a caller that does not board.                                 *)

Flights == INSTANCE SharedFlight WITH
    Callers <- Calls,
    Keys <- Tokens,
    Results <- Qualities,
    NoResult <- Nothing,
    asked <- TokenOf,
    standing <- [c \in Calls |->
                   IF call[c] = "served" /\ fetcher[c] = NoOne THEN "refused" ELSE call[c]],
    flight <- fetching,
    awaits <- fetcher,
    landed <- fetched,
    got <- [c \in Calls |-> IF fetcher[c] = NoOne THEN Nothing ELSE got[c]]

\* Every call is answered by the cache, when no fetch is under way, or by one fetch
\* of its token that was under way when it asked.
SharesFetches == Flights!Spec
=============================================================================
