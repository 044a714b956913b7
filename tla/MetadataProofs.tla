--------------------------- MODULE MetadataProofs ---------------------------
(***************************************************************************)
(* The metadata cache for any number of calls, tokens and entries: it stays   *)
(* sound, it shares fetches as SharedFlight promises, and it gives up entries *)
(* in the order of their last use.                                           *)
(***************************************************************************)
EXTENDS MCTokenMetadataCache, TLAPS, SequenceTheorems, FiniteSetTheorems

(* Sequences without one of their elements.                                  *)

LEMMA RemoveAtProperties ==
    ASSUME NEW S, NEW s \in Seq(S), NEW i \in 1 .. Len(s)
    PROVE  /\ RemoveAt(s, i) \in Seq(S)
           /\ Len(RemoveAt(s, i)) = Len(s) - 1
           /\ \A j \in 1 .. Len(s) - 1 : RemoveAt(s, i)[j] = s[IF j < i THEN j ELSE j + 1]
<1> DEFINE a == SubSeq(s, 1, i - 1)
           b == SubSeq(s, i + 1, Len(s))
<1>1. Len(s) \in Nat /\ i \in Nat /\ \A j \in 1 .. Len(s) : s[j] \in S
  BY LenProperties, ElementOfSeq
<1>2. /\ a \in Seq(S) /\ Len(a) = i - 1
      /\ \A j \in 1 .. i - 1 : a[j] = s[j]
  <2>1. /\ a \in Seq(S) /\ Len(a) = IF 1 <= i - 1 THEN i - 1 - 1 + 1 ELSE 0
        /\ \A j \in 1 .. i - 1 - 1 + 1 : a[j] = s[1 + j - 1]
    BY <1>1, SubSeqProperties
  <2> QED
    BY <2>1, <1>1
<1>3. /\ b \in Seq(S) /\ Len(b) = Len(s) - i
      /\ \A j \in 1 .. Len(s) - i : b[j] = s[i + j]
  <2>1. /\ b \in Seq(S) /\ Len(b) = IF i + 1 <= Len(s) THEN Len(s) - (i + 1) + 1 ELSE 0
        /\ \A j \in 1 .. Len(s) - (i + 1) + 1 : b[j] = s[i + 1 + j - 1]
    BY <1>1, SubSeqProperties
  <2> QED
    BY <2>1, <1>1
<1>4. RemoveAt(s, i) = a \o b
  BY DEF RemoveAt
<1> HIDE DEF a, b
<1>5. /\ a \o b \in Seq(S) /\ Len(a \o b) = Len(a) + Len(b)
      /\ \A j \in 1 .. Len(a) + Len(b) : (a \o b)[j] = IF j <= Len(a) THEN a[j] ELSE b[j - Len(a)]
  BY <1>2, <1>3, ConcatProperties
<1>6. ASSUME NEW j \in 1 .. Len(s) - 1
      PROVE  RemoveAt(s, i)[j] = s[IF j < i THEN j ELSE j + 1]
  <2>1. CASE j < i
    BY <1>1, <1>2, <1>3, <1>4, <1>5, <2>1
  <2>2. CASE j >= i
    <3>1. j - (i - 1) \in 1 .. Len(s) - i /\ i + (j - (i - 1)) = j + 1
      BY <1>1, <2>2
    <3>2. (a \o b)[j] = b[j - (i - 1)]
      BY <1>1, <1>2, <1>3, <1>5, <2>2
    <3> QED
      BY <1>1, <1>3, <1>4, <2>2, <3>1, <3>2
  <2> QED
    BY <1>1, <2>1, <2>2
<1> QED
  BY <1>1, <1>2, <1>3, <1>4, <1>5, <1>6

-----------------------------------------------------------------------------
(* get and set.                                                              *)

OncePerToken == \A i, j \in DOMAIN cache : cache[i].token = cache[j].token => i = j

\* The entry a token is found in.
LEMMA PlaceOfEntry ==
    ASSUME cache \in Seq(Metadata), NEW t \in Tokens, Holds(t)
    PROVE  /\ Place(t) \in 1 .. Len(cache)
           /\ EntryOf(t) \in Metadata /\ EntryOf(t).token = t
           /\ EntryOf(t) = cache[Place(t)]
<1>1. \E i \in DOMAIN cache : cache[i].token = t
  BY DEF Holds, ToSet
<1>2. Place(t) \in DOMAIN cache /\ cache[Place(t)].token = t
  BY <1>1 DEF Place
<1>3. DOMAIN cache = 1 .. Len(cache)
  BY LenProperties
<1> QED
  BY <1>2, <1>3, ElementOfSeq DEF EntryOf

\* Where an entry that Others leaves in was before.
Before(t, j) == IF Holds(t) /\ j >= Place(t) THEN j + 1 ELSE j

\* Others leaves the entries of the other tokens in their order.
LEMMA OthersShape ==
    ASSUME cache \in Seq(Metadata), OncePerToken, NEW t \in Tokens
    PROVE  /\ Others(t) \in Seq(Metadata)
           /\ Len(Others(t)) = IF Holds(t) THEN Len(cache) - 1 ELSE Len(cache)
           /\ \A j \in 1 .. Len(Others(t)) :
                 /\ Before(t, j) \in 1 .. Len(cache)
                 /\ Others(t)[j] = cache[Before(t, j)]
                 /\ Others(t)[j].token # t
           /\ \A i \in 1 .. Len(cache) : cache[i].token # t =>
                 \E j \in 1 .. Len(Others(t)) : Others(t)[j] = cache[i]
<1>1. Len(cache) \in Nat /\ DOMAIN cache = 1 .. Len(cache)
  BY LenProperties
<1>2. CASE ~Holds(t)
  <2>1. Others(t) = cache /\ \A j \in 1 .. Len(cache) : Before(t, j) = j
    BY <1>2 DEF Others, Before
  <2>2. \A j \in 1 .. Len(cache) : cache[j].token # t
    BY <1>1, <1>2 DEF Holds, ToSet
  <2> QED
    BY <1>1, <1>2, <2>1, <2>2
<1>3. CASE Holds(t)
  <2> DEFINE p == Place(t)
  <2>1. p \in 1 .. Len(cache) /\ cache[p].token = t
    BY <1>3, PlaceOfEntry
  <2>2. Others(t) = RemoveAt(cache, p)
    BY <1>3 DEF Others
  <2>3. \A j : Before(t, j) = IF j >= p THEN j + 1 ELSE j
    BY <1>3 DEF Before
  <2> HIDE DEF p
  <2>4. /\ Others(t) \in Seq(Metadata) /\ Len(Others(t)) = Len(cache) - 1
        /\ \A j \in 1 .. Len(cache) - 1 : Others(t)[j] = cache[IF j < p THEN j ELSE j + 1]
    BY <2>1, <2>2, RemoveAtProperties
  <2>5. ASSUME NEW j \in 1 .. Len(Others(t))
        PROVE  /\ Before(t, j) \in 1 .. Len(cache)
               /\ Others(t)[j] = cache[Before(t, j)]
               /\ Others(t)[j].token # t
    <3>1. Before(t, j) \in 1 .. Len(cache) /\ Before(t, j) # p
      BY <1>1, <2>1, <2>3, <2>4
    <3>2. Others(t)[j] = cache[Before(t, j)]
      BY <1>1, <2>1, <2>3, <2>4
    <3>3. cache[Before(t, j)].token # t
      BY <1>1, <2>1, <3>1 DEF OncePerToken
    <3> QED
      BY <3>1, <3>2, <3>3
  <2>6. ASSUME NEW i \in 1 .. Len(cache), cache[i].token # t
        PROVE  \E j \in 1 .. Len(Others(t)) : Others(t)[j] = cache[i]
    <3>1. i # p
      BY <2>1, <2>6
    <3>2. CASE i < p
      BY <1>1, <2>1, <2>4, <3>2
    <3>3. CASE i > p
      <4>1. /\ i - 1 \in 1 .. Len(Others(t)) /\ ~(i - 1 < p) /\ i - 1 + 1 = i
            /\ i - 1 \in 1 .. Len(cache) - 1
        BY <1>1, <2>1, <2>4, <3>3
      <4>2. Others(t)[i - 1] = cache[i]
        BY <2>4, <4>1
      <4> QED
        BY <4>1, <4>2
    <3> QED
      BY <2>1, <3>1, <3>2, <3>3
  <2> QED
    BY <1>3, <2>4, <2>5, <2>6
<1> QED
  BY <1>2, <1>3

\* What the cache holds at an eviction, and otherwise.
LEMMA MakeRoomShape ==
    ASSUME cache \in Seq(Metadata), Len(cache) <= MaxEntries
    PROVE  /\ MakeRoom \in Seq(Metadata) /\ Len(MakeRoom) + 1 <= MaxEntries
           /\ Len(cache) < MaxEntries \/ Len(cache) = MaxEntries
           /\ Len(cache) < MaxEntries => MakeRoom = cache
           /\ Len(cache) = MaxEntries =>
                 /\ Len(MakeRoom) = Len(cache) - 1
                 /\ \A j \in 1 .. Len(MakeRoom) : MakeRoom[j] = cache[j + 1]
<1>1. Len(cache) \in Nat /\ MaxEntries \in Nat /\ MaxEntries # 0
  BY LenProperties, MetadataAssumption
<1>2. CASE Len(cache) < MaxEntries
  BY <1>1, <1>2 DEF MakeRoom
<1>3. CASE Len(cache) = MaxEntries
  <2>1. cache # <<>> /\ MakeRoom = Tail(cache)
    BY <1>1, <1>3, EmptySeq DEF MakeRoom
  <2>2. /\ Tail(cache) \in Seq(Metadata) /\ Len(Tail(cache)) = Len(cache) - 1
        /\ \A j \in 1 .. Len(Tail(cache)) : Tail(cache)[j] = cache[j + 1]
    BY <2>1, HeadTailProperties
  <2> QED
    BY <1>1, <1>3, <2>1, <2>2
<1> QED
  BY <1>1, <1>2, <1>3

\* get drops nothing but an expired entry, and moves what it returns to the end.
LEMMA AfterGetShape ==
    ASSUME cache \in Seq(Metadata), OncePerToken, NEW t \in Tokens
    PROVE  /\ AfterGet(t) \in Seq(Metadata) /\ Len(AfterGet(t)) <= Len(cache)
           /\ \A i \in 1 .. Len(AfterGet(t)) : \E k \in 1 .. Len(cache) : AfterGet(t)[i] = cache[k]
           /\ \A i, j \in 1 .. Len(AfterGet(t)) :
                 AfterGet(t)[i].token = AfterGet(t)[j].token => i = j
           /\ ~Live(t) => \A i \in 1 .. Len(AfterGet(t)) : AfterGet(t)[i].token # t
<1> DEFINE o == Others(t)
           n == Len(o)
<1>1. /\ o \in Seq(Metadata) /\ n \in Nat /\ Len(cache) \in Nat
      /\ n = IF Holds(t) THEN Len(cache) - 1 ELSE Len(cache)
      /\ \A j \in 1 .. n : /\ Before(t, j) \in 1 .. Len(cache)
                           /\ o[j] = cache[Before(t, j)]
                           /\ o[j].token # t
  BY OthersShape, LenProperties
<1>2. DOMAIN cache = 1 .. Len(cache)
  BY LenProperties
<1>3. \A i, j \in 1 .. n : o[i].token = o[j].token => i = j
  <2> SUFFICES ASSUME NEW i \in 1 .. n, NEW j \in 1 .. n, o[i].token = o[j].token PROVE i = j
    OBVIOUS
  <2>1. Before(t, i) = Before(t, j)
    BY <1>1, <1>2 DEF OncePerToken
  <2>2. Holds(t) => Place(t) \in Nat
    BY PlaceOfEntry
  <2> QED
    BY <2>1, <2>2, <1>1 DEF Before
<1>4. CASE ~Live(t)
  <2>1. AfterGet(t) = o
    BY <1>4 DEF AfterGet
  <2>2. /\ AfterGet(t) \in Seq(Metadata)
        /\ Len(AfterGet(t)) <= Len(cache)
        /\ \A i \in 1 .. Len(AfterGet(t)) : AfterGet(t)[i].token # t
    BY <1>1, <2>1
  <2>3. \A i \in 1 .. Len(AfterGet(t)) : \E k \in 1 .. Len(cache) : AfterGet(t)[i] = cache[k]
    BY <1>1, <2>1
  <2>4. \A i, j \in 1 .. Len(AfterGet(t)) :
           AfterGet(t)[i].token = AfterGet(t)[j].token => i = j
    BY <1>3, <2>1
  <2> HIDE DEF o
  <2> QED
    BY <2>2, <2>3, <2>4
<1>5. CASE Live(t)
  <2> DEFINE e == EntryOf(t)
  <2>1. AfterGet(t) = Append(o, e) /\ Holds(t)
    BY <1>5 DEF AfterGet, Live
  <2>2. e \in Metadata /\ e.token = t /\ \E k \in 1 .. Len(cache) : e = cache[k]
    BY <2>1, PlaceOfEntry
  <2> HIDE DEF o, e
  <2>3. /\ Append(o, e) \in Seq(Metadata) /\ Len(Append(o, e)) = n + 1
        /\ \A i \in 1 .. n : Append(o, e)[i] = o[i]
        /\ Append(o, e)[n + 1] = e
    BY <1>1, <2>2, AppendProperties
  <2>4. Len(Append(o, e)) <= Len(cache)
    BY <1>1, <2>1, <2>3
  <2>5. \A i \in 1 .. n + 1 : \E k \in 1 .. Len(cache) : Append(o, e)[i] = cache[k]
    BY <1>1, <2>2, <2>3
  <2>6. \A i, j \in 1 .. n + 1 : Append(o, e)[i].token = Append(o, e)[j].token => i = j
    <3> SUFFICES ASSUME NEW i \in 1 .. n + 1, NEW j \in 1 .. n + 1,
                        Append(o, e)[i].token = Append(o, e)[j].token
                 PROVE  i = j
      OBVIOUS
    <3>1. CASE i \in 1 .. n /\ j \in 1 .. n
      BY <1>3, <2>3, <3>1
    <3>2. CASE i = n + 1 /\ j \in 1 .. n
      BY <1>1, <2>2, <2>3, <3>2
    <3>3. CASE i \in 1 .. n /\ j = n + 1
      BY <1>1, <2>2, <2>3, <3>3
    <3>4. n \in Nat
      BY <1>1
    <3> HIDE DEF n
    <3> QED
      BY <3>1, <3>2, <3>3, <3>4
  <2> QED
    BY <1>5, <2>1, <2>3, <2>4, <2>5, <2>6
<1> QED
  BY <1>4, <1>5

\* What set stores.
Fresh(t, q) == [token |-> t, quality |-> q, until |-> clock + Life(q)]

LEMMA FreshType ==
    ASSUME clock \in Nat, NEW t \in Tokens, NEW q \in Qualities
    PROVE  /\ Fresh(t, q) \in Metadata
           /\ Fresh(t, q).token = t /\ Fresh(t, q).quality = q
           /\ Fresh(t, q).until = clock + (IF q \in Lasting THEN FullLife ELSE ShortLife)
BY MetadataAssumption DEF Fresh, Metadata, Life

\* set of a token that is not there makes room if it must, and appends.
Stored(t, e) ==
    /\ Append(MakeRoom, e) \in Seq(Metadata)
    /\ Len(Append(MakeRoom, e)) = Len(MakeRoom) + 1
    /\ Len(Append(MakeRoom, e)) <= MaxEntries
    /\ \A i \in 1 .. Len(MakeRoom) :
          /\ Append(MakeRoom, e)[i] = MakeRoom[i]
          /\ \E k \in 1 .. Len(cache) : MakeRoom[i] = cache[k] /\ cache[k].token # t
    /\ Append(MakeRoom, e)[Len(MakeRoom) + 1] = e
    /\ \A i, j \in 1 .. Len(Append(MakeRoom, e)) :
          Append(MakeRoom, e)[i].token = Append(MakeRoom, e)[j].token => i = j
    /\ \A x \in ToSet(MakeRoom) : x.token # t

LEMMA StoreShape ==
    ASSUME cache \in Seq(Metadata), OncePerToken, Len(cache) <= MaxEntries,
           NEW t \in Tokens, ~Holds(t), NEW e \in Metadata, e.token = t
    PROVE  Stored(t, e)
<1> DEFINE m == MakeRoom
           n == Len(m)
<1>1. e \in Metadata /\ e.token = t
  OBVIOUS
<1>2. DOMAIN cache = 1 .. Len(cache) /\ Len(cache) \in Nat /\ MaxEntries \in Nat
  BY LenProperties, MetadataAssumption
<1>3. \A k \in 1 .. Len(cache) : cache[k].token # t
  BY <1>2 DEF Holds, ToSet
<1>4. /\ m \in Seq(Metadata) /\ n \in Nat /\ n + 1 <= MaxEntries /\ DOMAIN m = 1 .. n
      /\ Len(cache) < MaxEntries => m = cache
      /\ Len(cache) = MaxEntries => n = Len(cache) - 1 /\ \A j \in 1 .. n : m[j] = cache[j + 1]
  BY MakeRoomShape, LenProperties
<1>12. Len(cache) < MaxEntries \/ Len(cache) = MaxEntries
  BY MakeRoomShape
<1> HIDE DEF m, n
<1>5. ASSUME NEW i \in 1 .. n
      PROVE  \E k \in 1 .. Len(cache) : m[i] = cache[k] /\ cache[k].token # t
  <2>1. CASE Len(cache) < MaxEntries
    BY <1>3, <1>4, <2>1
  <2>2. CASE Len(cache) = MaxEntries
    <3>1. i + 1 \in 1 .. Len(cache) /\ m[i] = cache[i + 1]
      BY <1>2, <1>4, <2>2
    <3> QED
      BY <1>3, <3>1
  <2> QED
    BY <1>12, <2>1, <2>2
<1>6. \A i, j \in 1 .. n : m[i].token = m[j].token => i = j
  <2>1. CASE Len(cache) < MaxEntries
    <3>1. m = cache /\ DOMAIN cache = 1 .. n
      BY <1>4, <2>1
    <3> QED
      BY <3>1 DEF OncePerToken
  <2>2. CASE Len(cache) = MaxEntries
    <3> SUFFICES ASSUME NEW i \in 1 .. n, NEW j \in 1 .. n, m[i].token = m[j].token PROVE i = j
      OBVIOUS
    <3>1. i + 1 \in DOMAIN cache /\ j + 1 \in DOMAIN cache
      BY <1>2, <1>4, <2>2
    <3>2. i + 1 = j + 1
      BY <1>4, <2>2, <3>1 DEF OncePerToken
    <3> QED
      BY <3>2, <1>4
  <2> QED
    BY <1>12, <2>1, <2>2
<1>7. ASSUME NEW x \in ToSet(m) PROVE x.token # t
  <2>1. PICK i \in 1 .. n : x = m[i]
    BY <1>4 DEF ToSet
  <2> QED
    BY <2>1, <1>5
<1>9. /\ Append(m, e) \in Seq(Metadata) /\ Len(Append(m, e)) = n + 1
      /\ \A i \in 1 .. n : Append(m, e)[i] = m[i]
      /\ Append(m, e)[n + 1] = e
  BY <1>1, <1>4, AppendProperties
<1>10. \A i, j \in 1 .. n + 1 : Append(m, e)[i].token = Append(m, e)[j].token => i = j
  <2> SUFFICES ASSUME NEW i \in 1 .. n + 1, NEW j \in 1 .. n + 1,
                      Append(m, e)[i].token = Append(m, e)[j].token
               PROVE  i = j
    OBVIOUS
  <2>1. CASE i \in 1 .. n /\ j \in 1 .. n
    BY <1>6, <1>9, <2>1
  <2>2. CASE i = n + 1 /\ j \in 1 .. n
    BY <1>1, <1>5, <1>9, <2>2
  <2>3. CASE i \in 1 .. n /\ j = n + 1
    BY <1>1, <1>5, <1>9, <2>3
  <2> QED
    BY <1>4, <2>1, <2>2, <2>3
<1> QED
  BY <1>1, <1>4, <1>5, <1>7, <1>9, <1>10 DEF m, n, Stored

LEMMA AfterSetShape ==
    ASSUME cache \in Seq(Metadata), OncePerToken, Len(cache) <= MaxEntries, clock \in Nat,
           NEW t \in Tokens, ~Holds(t), NEW q \in Qualities
    PROVE  AfterSet(t, q) = Append(MakeRoom, Fresh(t, q))
<1>1. Fresh(t, q) \in Metadata /\ Fresh(t, q).token = t
  BY FreshType
<1>2. Stored(t, Fresh(t, q))
  BY <1>1, StoreShape
<1>3. \A x \in ToSet(MakeRoom) : x.token # t
  BY <1>2 DEF Stored
<1> QED
  BY <1>3 DEF AfterSet, Fresh

-----------------------------------------------------------------------------
(* The invariant.                                                            *)

\* A call that has not begun has nothing; one that waits does so for a fetch; a fetch
\* under way is that of a call which has begun, and has not come back.
CallsSound ==
    \A c \in Calls :
        /\ call[c] = "new" => fetcher[c] = NoOne /\ fetched[c] = Nothing /\ got[c] = Nothing
        /\ call[c] = "waiting" => fetcher[c] \in Calls
        /\ fetching[TokenOf[c]] = c => call[c] # "new" /\ fetched[c] = Nothing

CacheInv == TypeOK /\ CacheSound /\ CallsSound

\* What CacheSound says, entry by entry.
LEMMA SoundByEntry ==
    ASSUME cache \in Seq(Metadata)
    PROVE  CacheSound <=>
              /\ Len(cache) <= MaxEntries
              /\ OncePerToken
              /\ \A i \in 1 .. Len(cache) :
                    cache[i].until <= clock + (IF cache[i].quality \in Lasting THEN FullLife ELSE ShortLife)
              /\ \A t \in Tokens : fetching[t] # NoOne =>
                    \A i \in 1 .. Len(cache) : cache[i].token # t
<1>1. DOMAIN cache = 1 .. Len(cache)
  BY LenProperties
<1> QED
  BY <1>1 DEF CacheSound, OncePerToken, Holds, ToSet

LEMMA SoundByEntryNext ==
    ASSUME cache' \in Seq(Metadata)
    PROVE  (CacheSound)' <=>
              /\ Len(cache') <= MaxEntries
              /\ \A i, j \in 1 .. Len(cache') : cache'[i].token = cache'[j].token => i = j
              /\ \A i \in 1 .. Len(cache') :
                    cache'[i].until <= clock' + (IF cache'[i].quality \in Lasting THEN FullLife ELSE ShortLife)
              /\ \A t \in Tokens : fetching'[t] # NoOne =>
                    \A i \in 1 .. Len(cache') : cache'[i].token # t
<1>1. DOMAIN cache' = 1 .. Len(cache')
  BY LenProperties
<1> QED
  BY <1>1 DEF CacheSound, Holds, ToSet

LEMMA InitCache == Init => CacheInv
<1> SUFFICES ASSUME Init PROVE CacheInv
  OBVIOUS
<1>1. cache = <<>> /\ cache \in Seq(Metadata) /\ Len(cache) = 0
  BY EmptySeq DEF Init
<1>2. TypeOK /\ CallsSound
  BY <1>1, MetadataAssumption DEF Init, TypeOK, CallsSound
<1>3. CacheSound
  <2>1. 1 .. Len(cache) = {} /\ DOMAIN cache = {}
    BY <1>1
  <2> QED
    BY <1>1, <2>1, SoundByEntry, MetadataAssumption DEF OncePerToken
<1> QED
  BY <1>2, <1>3 DEF CacheInv

\* What an invariant state gives a step, in the form the lemmas above ask for.
LEMMA Given ==
    ASSUME CacheInv
    PROVE  /\ TypeOK /\ CacheSound /\ CallsSound
           /\ cache \in Seq(Metadata) /\ Len(cache) \in Nat /\ DOMAIN cache = 1 .. Len(cache)
           /\ OncePerToken /\ Len(cache) <= MaxEntries
           /\ \A i \in 1 .. Len(cache) :
                 cache[i].until <= clock + (IF cache[i].quality \in Lasting THEN FullLife ELSE ShortLife)
           /\ \A t \in Tokens : fetching[t] # NoOne =>
                 \A i \in 1 .. Len(cache) : cache[i].token # t
           /\ \A c \in Calls : TokenOf[c] \in Tokens /\ c # NoOne
<1>1. TypeOK /\ CacheSound /\ CallsSound /\ cache \in Seq(Metadata)
  BY DEF CacheInv, TypeOK
<1>2. Len(cache) \in Nat /\ DOMAIN cache = 1 .. Len(cache)
  BY <1>1, LenProperties
<1>3. \A c \in Calls : TokenOf[c] \in Tokens /\ c # NoOne
  BY MetadataAssumption
<1> QED
  BY <1>1, <1>2, <1>3, SoundByEntry

\* A hit reorders the cache.
LEMMA HitCache ==
    ASSUME CacheInv, NEW c \in Calls, Hit(c) PROVE CacheInv'
<1> DEFINE t == TokenOf[c]
           a == AfterGet(t)
<1>1. /\ call[c] = "new" /\ Live(t) /\ Holds(t)
      /\ cache' = a
      /\ got' = [got EXCEPT ![c] = EntryOf(t).quality]
      /\ call' = [call EXCEPT ![c] = "served"]
  BY DEF Hit, Live
<1>2. UNCHANGED <<clock, fetching, fetcher, fetched>>
  BY DEF Hit
<1>3. /\ TypeOK /\ CacheSound /\ CallsSound /\ cache \in Seq(Metadata) /\ Len(cache) \in Nat
      /\ OncePerToken /\ Len(cache) <= MaxEntries /\ t \in Tokens
  BY Given
<1>4. EntryOf(t).quality \in Qualities
  BY <1>1, <1>3, PlaceOfEntry DEF Metadata
<1>5. /\ cache' \in Seq(Metadata) /\ Len(cache') <= Len(cache)
      /\ \A i \in 1 .. Len(cache') : \E k \in 1 .. Len(cache) : cache'[i] = cache[k]
      /\ \A i, j \in 1 .. Len(cache') : cache'[i].token = cache'[j].token => i = j
  BY <1>1, <1>3, AfterGetShape
<1>6. TypeOK'
  BY <1>1, <1>2, <1>3, <1>4, <1>5 DEF TypeOK
<1>7. CallsSound'
  BY <1>1, <1>2, <1>3 DEF CallsSound, TypeOK
<1>8. CacheSound'
  <2>1. Len(cache') \in Nat /\ MaxEntries \in Nat
    BY <1>5, LenProperties, MetadataAssumption
  <2>2. Len(cache') <= MaxEntries
    BY <1>3, <1>5, <2>1
  <2>3. \A i \in 1 .. Len(cache') : cache'[i].until
           <= clock' + (IF cache'[i].quality \in Lasting THEN FullLife ELSE ShortLife)
    BY <1>2, <1>5, Given
  <2>4. \A u \in Tokens : fetching'[u] # NoOne => \A i \in 1 .. Len(cache') : cache'[i].token # u
    BY <1>2, <1>5, Given
  <2> QED
    BY <1>5, <2>2, <2>3, <2>4, SoundByEntryNext
<1> QED
  BY <1>6, <1>7, <1>8 DEF CacheInv

\* A miss drops an expired entry, so that the token it may start to fetch is not there.
LEMMA MissCache ==
    ASSUME CacheInv, NEW c \in Calls, Miss(c) PROVE CacheInv'
<1> DEFINE t == TokenOf[c]
           f == IF fetching[t] = NoOne THEN c ELSE fetching[t]
           a == AfterGet(t)
<1>1. /\ call[c] = "new" /\ ~Live(t)
      /\ cache' = a
      /\ fetching' = [fetching EXCEPT ![t] = f]
      /\ fetcher' = [fetcher EXCEPT ![c] = f]
      /\ call' = [call EXCEPT ![c] = "waiting"]
  BY DEF Miss
<1>2. UNCHANGED <<clock, fetched, got>>
  BY DEF Miss
<1>3. /\ TypeOK /\ CacheSound /\ CallsSound /\ cache \in Seq(Metadata) /\ Len(cache) \in Nat
      /\ OncePerToken /\ Len(cache) <= MaxEntries /\ t \in Tokens /\ c # NoOne
  BY Given
<1>4. f \in Calls /\ (f = c \/ f = fetching[t])
  BY <1>3 DEF TypeOK
<1>5. /\ cache' \in Seq(Metadata) /\ Len(cache') <= Len(cache)
      /\ \A i \in 1 .. Len(cache') : \E k \in 1 .. Len(cache) : cache'[i] = cache[k]
      /\ \A i, j \in 1 .. Len(cache') : cache'[i].token = cache'[j].token => i = j
      /\ \A i \in 1 .. Len(cache') : cache'[i].token # t
  BY <1>1, <1>3, AfterGetShape
<1> HIDE DEF f
<1>6. TypeOK'
  BY <1>1, <1>2, <1>3, <1>4, <1>5 DEF TypeOK
<1>7. CallsSound'
  <2> SUFFICES ASSUME NEW d \in Calls
               PROVE  /\ call'[d] = "new" =>
                            fetcher'[d] = NoOne /\ fetched'[d] = Nothing /\ got'[d] = Nothing
                      /\ call'[d] = "waiting" => fetcher'[d] \in Calls
                      /\ fetching'[TokenOf[d]] = d => call'[d] # "new" /\ fetched'[d] = Nothing
    BY DEF CallsSound
  <2>1. CASE d = c
    BY <1>1, <1>2, <1>3, <1>4, <2>1 DEF CallsSound, TypeOK
  <2>2. CASE d # c
    <3>1. call'[d] = call[d] /\ fetcher'[d] = fetcher[d]
      BY <1>1, <1>3, <2>2 DEF TypeOK
    <3>2. fetching'[TokenOf[d]] = d => fetching[TokenOf[d]] = d
      BY <1>1, <1>3, <1>4, <2>2, Given DEF TypeOK
    <3> QED
      BY <1>2, <1>3, <3>1, <3>2 DEF CallsSound
  <2> QED
    BY <2>1, <2>2
<1>8. CacheSound'
  <2>1. Len(cache') \in Nat /\ MaxEntries \in Nat
    BY <1>5, LenProperties, MetadataAssumption
  <2>2. Len(cache') <= MaxEntries
    BY <1>3, <1>5, <2>1
  <2>3. \A i \in 1 .. Len(cache') : cache'[i].until
           <= clock' + (IF cache'[i].quality \in Lasting THEN FullLife ELSE ShortLife)
    BY <1>2, <1>5, Given
  <2>4. ASSUME NEW u \in Tokens, fetching'[u] # NoOne, NEW i \in 1 .. Len(cache')
        PROVE  cache'[i].token # u
    <3>1. CASE u = t
      BY <1>5, <3>1
    <3>2. CASE u # t
      <4>1. fetching[u] # NoOne
        BY <1>1, <1>3, <2>4, <3>2 DEF TypeOK
      <4> QED
        BY <1>5, <4>1, Given
    <3> QED
      BY <3>1, <3>2
  <2> QED
    BY <1>5, <2>2, <2>3, <2>4, SoundByEntryNext
<1> QED
  BY <1>6, <1>7, <1>8 DEF CacheInv

\* A fetch that lands stores a token that was not there.
LEMMA LandCache ==
    ASSUME CacheInv, NEW c \in Calls, NEW q \in Qualities, Land(c, q) PROVE CacheInv'
<1> DEFINE t == TokenOf[c]
           e == Fresh(t, q)
<1>1. /\ fetching[t] = c
      /\ fetched' = [fetched EXCEPT ![c] = q]
      /\ cache' = AfterSet(t, q)
      /\ fetching' = [fetching EXCEPT ![t] = NoOne]
  BY DEF Land
<1>2. UNCHANGED <<clock, call, fetcher, got>>
  BY DEF Land
<1>3. /\ TypeOK /\ CacheSound /\ CallsSound /\ cache \in Seq(Metadata) /\ Len(cache) \in Nat
      /\ OncePerToken /\ Len(cache) <= MaxEntries /\ t \in Tokens /\ c # NoOne
      /\ clock \in Nat
  BY Given DEF TypeOK
<1>4. ~Holds(t)
  BY <1>1, <1>3 DEF CacheSound
<1>5. /\ e \in Metadata /\ e.token = t /\ e.quality = q
      /\ e.until = clock + (IF q \in Lasting THEN FullLife ELSE ShortLife)
  BY <1>3, FreshType
<1>6. cache' = Append(MakeRoom, e)
  BY <1>1, <1>3, <1>4, AfterSetShape
<1> HIDE DEF e, t
<1>7. /\ cache' \in Seq(Metadata)
      /\ Len(cache') = Len(MakeRoom) + 1 /\ Len(cache') <= MaxEntries
      /\ \A i \in 1 .. Len(MakeRoom) :
            \E k \in 1 .. Len(cache) : cache'[i] = cache[k] /\ cache[k].token # t
      /\ cache'[Len(MakeRoom) + 1] = e
      /\ \A i, j \in 1 .. Len(cache') : cache'[i].token = cache'[j].token => i = j
  <2>1. /\ cache \in Seq(Metadata) /\ OncePerToken /\ Len(cache) <= MaxEntries
        /\ t \in Tokens /\ e \in Metadata /\ e.token = t
    BY <1>3, <1>5
  <2>2. Stored(t, e)
    BY <1>4, <2>1, StoreShape
  <2> QED
    BY <1>6, <2>2 DEF Stored
<1>8. Len(MakeRoom) \in Nat
  BY <1>3, MakeRoomShape, LenProperties
<1>9. TypeOK'
  BY <1>1, <1>2, <1>3, <1>7 DEF TypeOK, t
<1>10. CallsSound'
  <2> SUFFICES ASSUME NEW d \in Calls
               PROVE  /\ call'[d] = "new" =>
                            fetcher'[d] = NoOne /\ fetched'[d] = Nothing /\ got'[d] = Nothing
                      /\ call'[d] = "waiting" => fetcher'[d] \in Calls
                      /\ fetching'[TokenOf[d]] = d => call'[d] # "new" /\ fetched'[d] = Nothing
    BY DEF CallsSound
  <2>1. CASE d = c
    BY <1>1, <1>2, <1>3, <2>1 DEF CallsSound, TypeOK, t
  <2>2. CASE d # c
    <3>1. fetched'[d] = fetched[d]
      BY <1>1, <1>3, <2>2 DEF TypeOK
    <3>2. fetching'[TokenOf[d]] = d => fetching[TokenOf[d]] = d
      BY <1>1, <1>3, <2>2, Given DEF TypeOK
    <3> QED
      BY <1>2, <1>3, <3>1, <3>2 DEF CallsSound
  <2> QED
    BY <2>1, <2>2
<1>11. CacheSound'
  <2>1. ASSUME NEW i \in 1 .. Len(cache')
        PROVE  cache'[i].until
                  <= clock' + (IF cache'[i].quality \in Lasting THEN FullLife ELSE ShortLife)
    <3>1. CASE i \in 1 .. Len(MakeRoom)
      <4>1. PICK k \in 1 .. Len(cache) : cache'[i] = cache[k]
        BY <1>7, <3>1
      <4> QED
        BY <1>2, <4>1, Given
    <3>2. CASE i = Len(MakeRoom) + 1
      <4>1. cache'[i] = e /\ clock' = clock
        BY <1>2, <1>7, <3>2
      <4>2. e.until \in Nat
        BY <1>5 DEF Metadata
      <4> QED
        BY <1>3, <1>5, <4>1, <4>2
    <3>3. i \in 1 .. Len(MakeRoom) \/ i = Len(MakeRoom) + 1
      BY <1>7, <1>8
    <3> QED
      BY <3>1, <3>2, <3>3
  <2>2. ASSUME NEW u \in Tokens, fetching'[u] # NoOne, NEW i \in 1 .. Len(cache')
        PROVE  cache'[i].token # u
    <3>1. u # t /\ fetching[u] # NoOne
      BY <1>1, <1>3, <2>2 DEF TypeOK
    <3>2. CASE i \in 1 .. Len(MakeRoom)
      BY <1>7, <3>1, <3>2, Given
    <3>3. CASE i = Len(MakeRoom) + 1
      BY <1>5, <1>7, <3>1, <3>3
    <3>4. i \in 1 .. Len(MakeRoom) \/ i = Len(MakeRoom) + 1
      BY <1>7, <1>8
    <3> QED
      BY <3>2, <3>3, <3>4
  <2> QED
    BY <1>7, <2>1, <2>2, SoundByEntryNext
<1> QED
  BY <1>9, <1>10, <1>11 DEF CacheInv

\* A call that resumes has a result, that of the fetch it waited for.
LEMMA ResumeCache ==
    ASSUME CacheInv, NEW c \in Calls, Resume(c) PROVE CacheInv'
<1>1. /\ call[c] = "waiting" /\ fetched[fetcher[c]] # Nothing
      /\ got' = [got EXCEPT ![c] = fetched[fetcher[c]]]
      /\ call' = [call EXCEPT ![c] = "served"]
  BY DEF Resume
<1>2. UNCHANGED <<clock, cache, fetching, fetcher, fetched>>
  BY DEF Resume
<1>3. TypeOK /\ CacheSound /\ CallsSound
  BY Given
<1>4. fetched[fetcher[c]] \in Qualities
  BY <1>1, <1>3 DEF TypeOK, CallsSound
<1>5. TypeOK'
  BY <1>1, <1>2, <1>3, <1>4 DEF TypeOK
<1>6. CallsSound'
  BY <1>1, <1>2, <1>3 DEF CallsSound, TypeOK
<1>7. CacheSound'
  BY <1>2, <1>3 DEF CacheSound, Holds
<1> QED
  BY <1>5, <1>6, <1>7 DEF CacheInv

LEMMA ClockCache ==
    ASSUME CacheInv, Tick \/ UNCHANGED metadataVars PROVE CacheInv'
<1>1. TypeOK /\ CacheSound /\ CallsSound /\ clock \in Nat
  BY Given DEF TypeOK
<1>2. /\ UNCHANGED <<cache, fetching, call, fetcher, fetched, got>>
      /\ clock' = clock \/ clock' = clock + 1
  BY DEF Tick, metadataVars
<1>3. TypeOK'
  BY <1>1, <1>2 DEF TypeOK
<1>4. CallsSound'
  BY <1>1, <1>2 DEF CallsSound
<1>5. CacheSound'
  <2>1. ASSUME NEW x \in ToSet(cache)
        PROVE  x.until <= clock' + (IF x.quality \in Lasting THEN FullLife ELSE ShortLife)
    <3>1. x.until \in Nat
      <4>1. PICK i \in 1 .. Len(cache) : x = cache[i]
        BY Given DEF ToSet
      <4> QED
        <5>1. cache[i] \in Metadata
          BY ElementOfSeq, Given
        <5> QED
          BY <4>1, <5>1 DEF Metadata
    <3>2. x.until <= clock + (IF x.quality \in Lasting THEN FullLife ELSE ShortLife)
      BY <1>1 DEF CacheSound
    <3> QED
      BY <1>1, <1>2, <3>1, <3>2, MetadataAssumption
  <2> QED
    BY <1>1, <1>2, <2>1 DEF CacheSound, Holds
<1> QED
  BY <1>3, <1>4, <1>5 DEF CacheInv

LEMMA NextCache == CacheInv /\ [Next]_metadataVars => CacheInv'
BY HitCache, MissCache, LandCache, ResumeCache, ClockCache DEF Next, Ask, Finished

\* The invariant the theorems below follow from.
THEOREM CacheInvariance == Spec => []CacheInv
BY InitCache, NextCache, PTL DEF Spec

-----------------------------------------------------------------------------
(* TokenMetadataCache implements SharedFlight.                               *)

StandingOf(c) == IF call[c] = "served" /\ fetcher[c] = NoOne THEN "refused" ELSE call[c]
GotOf(c)      == IF fetcher[c] = NoOne THEN Nothing ELSE got[c]
StandingView  == [c \in Calls |-> StandingOf(c)]
GotView       == [c \in Calls |-> GotOf(c)]

LEMMA MapInit == Init => Flights!Init
BY MetadataAssumption DEF Init, Flights!Init

\* A live entry is not being fetched, so that the call boards no flight.
LEMMA MapHit ==
    ASSUME CacheInv, NEW c \in Calls, Hit(c) PROVE Flights!TurnAway(c)
<1> DEFINE t == TokenOf[c]
<1>1. TypeOK /\ CallsSound /\ CacheSound /\ t \in Tokens
  BY Given
<1>2. /\ call[c] = "new" /\ fetcher[c] = NoOne
      /\ call' = [call EXCEPT ![c] = "served"]
      /\ got' = [got EXCEPT ![c] = EntryOf(t).quality]
      /\ UNCHANGED <<fetching, fetcher, fetched>>
  BY <1>1 DEF Hit, CallsSound
<1>3. fetching[t] = NoOne
  BY <1>1 DEF Hit, Live, CacheSound
<1> HIDE DEF t
<1>4. /\ StandingView' = [StandingView EXCEPT ![c] = "refused"] /\ StandingView[c] = "new"
      /\ GotView' = GotView
  BY <1>1, <1>2 DEF TypeOK, StandingView, StandingOf, GotView, GotOf
<1> QED
  BY <1>2, <1>3, <1>4
  DEF Flights!TurnAway, StandingView, StandingOf, GotView, GotOf, t

LEMMA MapMiss ==
    ASSUME CacheInv, NEW c \in Calls, Miss(c) PROVE Flights!Board(c)
<1> DEFINE t == TokenOf[c]
           f == IF fetching[t] = NoOne THEN c ELSE fetching[t]
<1>1. TypeOK /\ CallsSound /\ t \in Tokens /\ c # NoOne
  BY Given
<1>2. /\ call[c] = "new" /\ fetcher[c] = NoOne /\ got[c] = Nothing
      /\ fetching' = [fetching EXCEPT ![t] = f]
      /\ fetcher' = [fetcher EXCEPT ![c] = f]
      /\ call' = [call EXCEPT ![c] = "waiting"]
      /\ UNCHANGED <<fetched, got>>
  BY <1>1 DEF Miss, CallsSound
<1>3. f \in Calls /\ f # NoOne
  BY <1>1 DEF TypeOK
<1>4. /\ StandingView' = [StandingView EXCEPT ![c] = "waiting"] /\ StandingView[c] = "new"
      /\ GotView' = GotView
  <2> HIDE DEF f, t
  <2> QED
    BY <1>1, <1>2, <1>3 DEF TypeOK, StandingView, StandingOf, GotView, GotOf
<1> QED
  BY <1>2, <1>4 DEF Flights!Board, StandingView, StandingOf, GotView, GotOf

LEMMA MapLand ==
    ASSUME CacheInv, NEW c \in Calls, NEW q \in Qualities, Land(c, q)
    PROVE  Flights!Land(TokenOf[c])
<1> DEFINE t == TokenOf[c]
<1>1. TypeOK /\ TypeOK' /\ t \in Tokens /\ c # NoOne
  BY Given, LandCache DEF CacheInv
<1>2. /\ fetching[t] = c
      /\ fetched' = [fetched EXCEPT ![c] = q]
      /\ fetching' = [fetching EXCEPT ![t] = NoOne]
      /\ UNCHANGED <<call, fetcher, got>>
  BY DEF Land
<1> HIDE DEF t
<1>3. StandingView' = StandingView /\ GotView' = GotView
  BY <1>2 DEF StandingView, StandingOf, GotView, GotOf
<1>4. /\ fetched' \in [Calls -> Qualities \cup {Nothing}] /\ fetched'[c] \in Qualities
      /\ \A d \in Calls \ {c} : fetched'[d] = fetched[d]
  BY <1>1, <1>2 DEF TypeOK
<1> QED
  BY <1>1, <1>2, <1>3, <1>4 DEF Flights!Land, StandingView, StandingOf, GotView, GotOf, t

LEMMA MapResume ==
    ASSUME CacheInv, NEW c \in Calls, Resume(c) PROVE Flights!Serve(c)
<1>1. TypeOK /\ CallsSound /\ \A d \in Calls : d # NoOne
  BY Given
<1>2. /\ call[c] = "waiting" /\ fetcher[c] \in Calls /\ fetcher[c] # NoOne
      /\ fetched[fetcher[c]] # Nothing
      /\ got' = [got EXCEPT ![c] = fetched[fetcher[c]]]
      /\ call' = [call EXCEPT ![c] = "served"]
      /\ UNCHANGED <<fetching, fetcher, fetched>>
  BY <1>1 DEF Resume, CallsSound
<1>3. /\ StandingView' = [StandingView EXCEPT ![c] = "served"] /\ StandingView[c] = "waiting"
      /\ GotView' = [GotView EXCEPT ![c] = fetched[fetcher[c]]]
  BY <1>1, <1>2 DEF TypeOK, StandingView, StandingOf, GotView, GotOf
<1> QED
  BY <1>2, <1>3 DEF Flights!Serve, StandingView, StandingOf, GotView, GotOf

\* However calls, fetches and expirations interleave, a call is answered by the cache
\* when no fetch of its token is under way, or by the one fetch that was when it
\* asked (deduplicate).
THEOREM FetchesAreShared == Spec => SharesFetches
<1>1. CacheInv /\ [Next]_metadataVars => [Flights!Next]_(Flights!flightVars)
  <2> SUFFICES ASSUME CacheInv, [Next]_metadataVars
               PROVE  Flights!Next \/ UNCHANGED Flights!flightVars
    OBVIOUS
  <2>1. ASSUME NEW c \in Calls, Ask(c) PROVE Flights!Next
    BY <2>1, MapHit, MapMiss DEF Ask, Flights!Next
  <2>2. ASSUME NEW c \in Calls, NEW q \in Qualities, Land(c, q) PROVE Flights!Next
    BY <2>2, MapLand, Given DEF Flights!Next
  <2>3. ASSUME NEW c \in Calls, Resume(c) PROVE Flights!Next
    BY <2>3, MapResume DEF Flights!Next
  <2>4. CASE Tick \/ UNCHANGED metadataVars
    BY <2>4 DEF Tick, metadataVars, Flights!flightVars
  <2> QED
    BY <2>1, <2>2, <2>3, <2>4 DEF Next, Finished
<1> QED
  BY InitCache, NextCache, MapInit, <1>1, PTL DEF Spec, SharesFetches, Flights!Spec

-----------------------------------------------------------------------------
(* The order of use.                                                         *)

\* The entries are in the order of their last use: whatever stands behind an entry
\* has been used since.
UseOrdered ==
    \A i, j \in 1 .. Len(cache) : i < j => cache[j].token \in usedSince[cache[i].token]

UseTyped == /\ usedSince \in [Tokens -> SUBSET Tokens]
            /\ \A t \in Tokens : IsFiniteSet(usedSince[t])

UseInv == CacheInv /\ UseTyped /\ UseOrdered

HistoryStep == usedSince' = [t \in Tokens |-> IF t \in Used THEN {} ELSE usedSince[t] \cup Used]

LEMMA InitUse == HistoryInit => UseInv
<1> SUFFICES ASSUME HistoryInit PROVE UseInv
  OBVIOUS
<1>1. Init /\ cache = <<>> /\ Len(cache) = 0 /\ usedSince = [t \in Tokens |-> {}]
  BY EmptySeq DEF HistoryInit, Init
<1>2. 1 .. Len(cache) = {}
  BY <1>1
<1>3. UseTyped
  BY <1>1, FS_EmptySet DEF UseTyped
<1> QED
  BY <1>1, <1>2, <1>3, InitCache DEF UseInv, UseOrdered

\* Which tokens a step uses.
LEMMA UsedByHit == ASSUME CacheInv, NEW c \in Calls, Hit(c) PROVE Used = {TokenOf[c]}
<1>1. /\ call[c] = "new" /\ call'[c] = "served"
      /\ \A d \in Calls \ {c} : call'[d] = call[d]
      /\ fetched' = fetched
  BY Given DEF Hit, TypeOK
<1> QED
  BY <1>1 DEF Used

LEMMA UsedByLand ==
    ASSUME CacheInv, NEW c \in Calls, NEW q \in Qualities, Land(c, q) PROVE Used = {TokenOf[c]}
<1>1. TypeOK /\ CallsSound /\ fetched[c] = Nothing
  BY Given DEF Land, CallsSound
<1>2. /\ call' = call /\ fetched'[c] = q /\ q # Nothing
      /\ \A d \in Calls \ {c} : fetched'[d] = fetched[d]
  BY <1>1 DEF Land, TypeOK, Qualities, Nothing
<1> QED
  BY <1>1, <1>2 DEF Used

LEMMA UsedByOthers ==
    ASSUME CacheInv,
           (\E c \in Calls : Miss(c) \/ Resume(c)) \/ Tick \/ UNCHANGED metadataVars
    PROVE  Used = {}
<1>1. \A d \in Calls : fetched'[d] = fetched[d] /\ ~(call[d] = "new" /\ call'[d] = "served")
  <2>1. ASSUME NEW c \in Calls, Miss(c) \/ Resume(c)
        PROVE  \A d \in Calls : fetched'[d] = fetched[d] /\ ~(call[d] = "new" /\ call'[d] = "served")
    BY <2>1, Given DEF Miss, Resume, TypeOK
  <2>2. CASE Tick \/ UNCHANGED metadataVars
    BY <2>2 DEF Tick, metadataVars
  <2> QED
    BY <2>1, <2>2
<1> QED
  BY <1>1 DEF Used

LEMMA UseTypedNext ==
    ASSUME UseTyped, HistoryStep, Used \in SUBSET Tokens, IsFiniteSet(Used)
    PROVE  /\ UseTyped'
           /\ \A t \in Tokens : usedSince'[t] = IF t \in Used THEN {} ELSE usedSince[t] \cup Used
<1>1. \A t \in Tokens : usedSince'[t] = IF t \in Used THEN {} ELSE usedSince[t] \cup Used
  BY DEF HistoryStep
<1>2. usedSince' \in [Tokens -> SUBSET Tokens]
  BY DEF HistoryStep, UseTyped
<1>3. ASSUME NEW t \in Tokens PROVE IsFiniteSet(usedSince'[t])
  <2>1. IsFiniteSet(usedSince[t] \cup Used)
    <3>1. IsFiniteSet(usedSince[t])
      BY DEF UseTyped
    <3> QED
      BY <3>1, FS_Union
  <2>2. IsFiniteSet({})
    BY FS_EmptySet
  <2> QED
    BY <1>1, <2>1, <2>2
<1> QED
  BY <1>1, <1>2, <1>3 DEF UseTyped

\* Others keeps the order of what it leaves.
LEMMA OthersOrdered ==
    ASSUME CacheInv, UseOrdered, NEW t \in Tokens,
           NEW i \in 1 .. Len(Others(t)), NEW j \in 1 .. Len(Others(t)), i < j
    PROVE  /\ Others(t)[i].token \in Tokens /\ Others(t)[i].token # t
           /\ Others(t)[j].token \in usedSince[Others(t)[i].token]
<1>1. /\ Len(Others(t)) \in Nat /\ Len(cache) \in Nat
      /\ Before(t, i) \in 1 .. Len(cache) /\ Others(t)[i] = cache[Before(t, i)]
      /\ Before(t, j) \in 1 .. Len(cache) /\ Others(t)[j] = cache[Before(t, j)]
      /\ Others(t)[i].token # t
  <2>1. cache \in Seq(Metadata) /\ OncePerToken
    BY Given
  <2>2. Others(t) \in Seq(Metadata)
    BY <2>1, OthersShape
  <2>3. Len(Others(t)) \in Nat /\ Len(cache) \in Nat
    BY <2>1, <2>2, LenProperties
  <2>4. \A k \in 1 .. Len(Others(t)) :
           /\ Before(t, k) \in 1 .. Len(cache)
           /\ Others(t)[k] = cache[Before(t, k)]
           /\ Others(t)[k].token # t
    BY <2>1, OthersShape
  <2> QED
    BY <2>3, <2>4
<1>2. Holds(t) => Place(t) \in Nat
  BY Given, PlaceOfEntry
<1>3. Before(t, i) < Before(t, j)
  BY <1>1, <1>2 DEF Before
<1>4. cache[Before(t, i)] \in Metadata
  BY <1>1, Given, ElementOfSeq
<1> QED
  BY <1>1, <1>3, <1>4 DEF UseOrdered, Metadata

LEMMA HitOrdered ==
    ASSUME UseInv, HistoryStep, NEW c \in Calls, Hit(c) PROVE UseTyped' /\ UseOrdered'
<1> DEFINE t == TokenOf[c]
           o == Others(t)
           n == Len(o)
           e == EntryOf(t)
<1>1. CacheInv /\ UseTyped /\ UseOrdered /\ t \in Tokens /\ Used = {t} /\ IsFiniteSet({t})
  BY Given, UsedByHit, FS_Singleton DEF UseInv
<1>2. UseTyped' /\ \A u \in Tokens : u # t => usedSince'[u] = usedSince[u] \cup {t}
  BY <1>1, UseTypedNext
<1>3. o \in Seq(Metadata) /\ n \in Nat /\ e \in Metadata /\ e.token = t
  BY <1>1, Given, OthersShape, PlaceOfEntry, LenProperties DEF Hit, Live
<1>4. cache' = Append(o, e)
  BY DEF Hit, AfterGet
<1>5. \A i, j \in 1 .. n : i < j => /\ o[i].token \in Tokens /\ o[i].token # t
                                    /\ o[j].token \in usedSince[o[i].token]
  BY <1>1, OthersOrdered
<1>6. \A i \in 1 .. n : o[i].token \in Tokens /\ o[i].token # t
  <2>1. \A i \in 1 .. n : o[i].token # t
    BY <1>1, Given, OthersShape
  <2>2. \A i \in 1 .. n : o[i] \in Metadata
    BY <1>3, ElementOfSeq
  <2> QED
    BY <2>1, <2>2 DEF Metadata
<1> HIDE DEF t, o, n, e
<1>7. /\ Len(cache') = n + 1 /\ cache'[n + 1] = e
      /\ \A i \in 1 .. n : cache'[i] = o[i]
  BY <1>3, <1>4, AppendProperties DEF n
<1>8. ASSUME NEW i \in 1 .. n + 1, NEW j \in 1 .. n + 1, i < j
      PROVE  cache'[j].token \in usedSince'[cache'[i].token]
  <2>1. i \in 1 .. n /\ cache'[i] = o[i]
    BY <1>3, <1>7, <1>8
  <2>2. CASE j \in 1 .. n
    BY <1>2, <1>5, <1>7, <1>8, <2>1, <2>2
  <2>3. CASE j = n + 1
    BY <1>2, <1>3, <1>6, <1>7, <2>1, <2>3
  <2> QED
    BY <1>3, <2>2, <2>3
<1> QED
  BY <1>2, <1>7, <1>8 DEF UseOrdered

LEMMA MissOrdered ==
    ASSUME UseInv, HistoryStep, NEW c \in Calls, Miss(c) PROVE UseTyped' /\ UseOrdered'
<1> DEFINE t == TokenOf[c]
<1>1. CacheInv /\ UseTyped /\ UseOrdered /\ t \in Tokens /\ Used = {}
  BY Given, UsedByOthers DEF UseInv
<1>2. UseTyped' /\ \A u \in Tokens : usedSince'[u] = usedSince[u]
  BY <1>1, UseTypedNext, FS_EmptySet
<1>3. cache' = Others(t)
  BY DEF Miss, AfterGet
<1>4. \A i, j \in 1 .. Len(Others(t)) : i < j =>
         /\ Others(t)[i].token \in Tokens
         /\ Others(t)[j].token \in usedSince[Others(t)[i].token]
  BY <1>1, OthersOrdered
<1> HIDE DEF t
<1> QED
  BY <1>2, <1>3, <1>4 DEF UseOrdered

\* What MakeRoom leaves keeps its order as well.
LEMMA RoomOrdered ==
    ASSUME CacheInv, UseOrdered, NEW i \in 1 .. Len(MakeRoom), NEW j \in 1 .. Len(MakeRoom), i < j
    PROVE  MakeRoom[j].token \in usedSince[MakeRoom[i].token]
<1>1. cache \in Seq(Metadata) /\ Len(cache) <= MaxEntries /\ Len(cache) \in Nat
  BY Given
<1>2. CASE Len(cache) < MaxEntries
  BY <1>1, <1>2, MakeRoomShape DEF UseOrdered
<1>3. CASE Len(cache) = MaxEntries
  <2>1. /\ MakeRoom[i] = cache[i + 1] /\ MakeRoom[j] = cache[j + 1]
        /\ i + 1 \in 1 .. Len(cache) /\ j + 1 \in 1 .. Len(cache) /\ i + 1 < j + 1
    BY <1>1, <1>3, MakeRoomShape
  <2> QED
    BY <2>1 DEF UseOrdered
<1> QED
  BY <1>1, <1>2, <1>3, MakeRoomShape

LEMMA LandOrdered ==
    ASSUME UseInv, HistoryStep, NEW c \in Calls, NEW q \in Qualities, Land(c, q)
    PROVE  UseTyped' /\ UseOrdered'
<1> DEFINE t == TokenOf[c]
           e == Fresh(t, q)
           n == Len(MakeRoom)
<1>1. CacheInv /\ UseTyped /\ UseOrdered /\ t \in Tokens /\ Used = {t} /\ IsFiniteSet({t})
  BY Given, UsedByLand, FS_Singleton DEF UseInv
<1>2. UseTyped' /\ \A u \in Tokens : u # t => usedSince'[u] = usedSince[u] \cup {t}
  BY <1>1, UseTypedNext
<1>3. ~Holds(t) /\ e \in Metadata /\ e.token = t
  BY <1>1, Given, FreshType DEF Land, CacheSound, TypeOK
<1>4. cache' = Append(MakeRoom, e)
  BY <1>1, <1>3, Given, AfterSetShape DEF Land, TypeOK
<1>5. MakeRoom \in Seq(Metadata) /\ n \in Nat
  BY <1>1, Given, MakeRoomShape, LenProperties
<1> HIDE DEF t, e
<1>6. /\ Len(cache') = n + 1 /\ cache'[n + 1] = e
      /\ \A i \in 1 .. n : /\ cache'[i] = MakeRoom[i] /\ MakeRoom[i].token # t
                           /\ MakeRoom[i].token \in Tokens
  <2>1. /\ Len(cache') = n + 1 /\ cache'[n + 1] = e
        /\ \A i \in 1 .. n : /\ cache'[i] = MakeRoom[i]
                             /\ \E k \in 1 .. Len(cache) : MakeRoom[i] = cache[k] /\ cache[k].token # t
    <3>1. cache \in Seq(Metadata) /\ OncePerToken /\ Len(cache) <= MaxEntries
      BY <1>1, Given
    <3>2. Stored(t, e)
      BY <1>1, <1>3, <3>1, StoreShape
    <3> QED
      BY <1>4, <3>2 DEF Stored
  <2>2. \A i \in 1 .. n : MakeRoom[i] \in Metadata
    BY <1>5, ElementOfSeq
  <2> QED
    BY <2>1, <2>2 DEF Metadata
<1>7. \A i, j \in 1 .. n : i < j => MakeRoom[j].token \in usedSince[MakeRoom[i].token]
  BY <1>1, RoomOrdered
<1> HIDE DEF n
<1>8. ASSUME NEW i \in 1 .. n + 1, NEW j \in 1 .. n + 1, i < j
      PROVE  cache'[j].token \in usedSince'[cache'[i].token]
  <2>1. i \in 1 .. n /\ cache'[i] = MakeRoom[i]
    BY <1>5, <1>6, <1>8
  <2>2. CASE j \in 1 .. n
    BY <1>2, <1>6, <1>7, <1>8, <2>1, <2>2
  <2>3. CASE j = n + 1
    BY <1>2, <1>3, <1>6, <2>1, <2>3
  <2> QED
    BY <1>5, <2>2, <2>3
<1> QED
  BY <1>2, <1>6, <1>8 DEF UseOrdered

LEMMA NextUse == UseInv /\ [HistoryNext]_<<metadataVars, usedSince>> => UseInv'
<1> SUFFICES ASSUME UseInv, [HistoryNext]_<<metadataVars, usedSince>> PROVE UseInv'
  OBVIOUS
<1>1. CacheInv /\ UseTyped /\ UseOrdered
  BY DEF UseInv
<1>2. CacheInv'
  BY <1>1, NextCache DEF HistoryNext
<1>3. CASE UNCHANGED <<metadataVars, usedSince>>
  BY <1>1, <1>2, <1>3 DEF UseInv, UseTyped, UseOrdered, metadataVars
<1>4. CASE Next /\ HistoryStep
  <2>1. ASSUME NEW c \in Calls, Hit(c) PROVE UseTyped' /\ UseOrdered'
    BY <1>4, <2>1, HitOrdered
  <2>2. ASSUME NEW c \in Calls, Miss(c) PROVE UseTyped' /\ UseOrdered'
    BY <1>4, <2>2, MissOrdered
  <2>3. ASSUME NEW c \in Calls, NEW q \in Qualities, Land(c, q) PROVE UseTyped' /\ UseOrdered'
    BY <1>4, <2>3, LandOrdered
  <2>4. ASSUME (\E c \in Calls : Resume(c)) \/ Tick \/ UNCHANGED metadataVars
        PROVE  UseTyped' /\ UseOrdered'
    <3>1. Used = {} /\ cache' = cache
      <4>1. Used = {}
        BY <1>1, <2>4, UsedByOthers
      <4> QED
        BY <2>4, <4>1 DEF Resume, Tick, metadataVars
    <3>2. UseTyped' /\ \A u \in Tokens : usedSince'[u] = usedSince[u]
      BY <1>1, <1>4, <3>1, UseTypedNext, FS_EmptySet
    <3>3. \A i \in 1 .. Len(cache) : cache[i].token \in Tokens
      <4>1. \A i \in 1 .. Len(cache) : cache[i] \in Metadata
        BY <1>1, Given, ElementOfSeq
      <4> QED
        BY <4>1 DEF Metadata
    <3> QED
      BY <1>1, <3>1, <3>2, <3>3 DEF UseOrdered
  <2> QED
    BY <1>2, <1>4, <2>1, <2>2, <2>3, <2>4 DEF UseInv, Next, Ask, Finished
<1> QED
  BY <1>3, <1>4 DEF HistoryNext, HistoryStep

-----------------------------------------------------------------------------
(* Eviction.                                                                 *)

\* Every step but a landing fetch leaves the live entries in.
LEMMA HitKeeps ==
    ASSUME CacheInv, NEW c \in Calls, Hit(c), NEW t \in Tokens, Live(t)
    PROVE  \E x \in ToSet(cache') : x.token = t
<1> DEFINE u == TokenOf[c]
           o == Others(u)
           n == Len(o)
           e == EntryOf(u)
<1>1. u \in Tokens /\ Holds(u) /\ cache' = Append(o, e)
  BY Given DEF Hit, Live, AfterGet
<1>2. /\ cache \in Seq(Metadata) /\ o \in Seq(Metadata) /\ n \in Nat
      /\ e \in Metadata /\ e.token = u
      /\ \A i \in 1 .. Len(cache) : cache[i].token # u => \E j \in 1 .. n : o[j] = cache[i]
  BY <1>1, Given, OthersShape, PlaceOfEntry, LenProperties
<1>3. Holds(t) /\ EntryOf(t).token = t /\ \E i \in 1 .. Len(cache) : cache[i].token = t
  BY <1>2, PlaceOfEntry DEF Live
<1> HIDE DEF u, o, n, e
<1>4. /\ DOMAIN cache' = 1 .. n + 1 /\ cache'[n + 1] = e
      /\ \A j \in 1 .. n : cache'[j] = o[j]
  BY <1>1, <1>2, AppendProperties, LenProperties DEF n
<1>5. CASE t = u
  BY <1>2, <1>4, <1>5 DEF ToSet
<1>6. CASE t # u
  <2>1. PICK j \in 1 .. n : o[j].token = t
    BY <1>2, <1>3, <1>6
  <2>2. j \in DOMAIN cache' /\ cache'[j].token = t
    BY <1>2, <1>4, <2>1
  <2> QED
    BY <2>2 DEF ToSet
<1> QED
  BY <1>5, <1>6

LEMMA MissKeeps ==
    ASSUME CacheInv, NEW c \in Calls, Miss(c), NEW t \in Tokens, Live(t)
    PROVE  \E x \in ToSet(cache') : x.token = t
<1> DEFINE u == TokenOf[c]
           o == Others(u)
<1>1. u \in Tokens /\ t # u /\ cache' = o
  BY Given DEF Miss, AfterGet
<1>2. /\ cache \in Seq(Metadata) /\ o \in Seq(Metadata) /\ DOMAIN o = 1 .. Len(o)
      /\ \A i \in 1 .. Len(cache) : cache[i].token # u => \E j \in 1 .. Len(o) : o[j] = cache[i]
  BY <1>1, Given, OthersShape, LenProperties
<1>3. \E i \in 1 .. Len(cache) : cache[i].token = t
  BY <1>2, PlaceOfEntry DEF Live
<1>4. PICK j \in 1 .. Len(o) : o[j].token = t
  BY <1>1, <1>2, <1>3
<1> QED
  BY <1>1, <1>2, <1>4 DEF ToSet

\* A fetch that lands gives up at most the first entry, and only of a full cache.
LEMMA LandGivesUpFirst ==
    ASSUME CacheInv, NEW c \in Calls, NEW q \in Qualities, Land(c, q),
           NEW t \in Tokens, Holds(t), \A x \in ToSet(cache') : x.token # t
    PROVE  /\ Len(cache) = MaxEntries
           /\ 1 \in 1 .. Len(cache) /\ cache[1].token = t
           /\ ~Holds(TokenOf[c])
<1> DEFINE u == TokenOf[c]
           e == Fresh(u, q)
           m == MakeRoom
           n == Len(m)
<1>1. u \in Tokens /\ ~Holds(u) /\ e \in Metadata /\ e.token = u
  BY Given, FreshType DEF Land, CacheSound, TypeOK
<1>2. cache' = Append(m, e)
  BY <1>1, Given, AfterSetShape DEF Land, TypeOK
<1>3. m \in Seq(Metadata) /\ n \in Nat
  BY Given, MakeRoomShape, LenProperties
<1>4. PICK p \in 1 .. Len(cache) : cache[p].token = t
  BY Given, PlaceOfEntry
<1>5. /\ cache \in Seq(Metadata) /\ Len(cache) \in Nat /\ Len(cache) <= MaxEntries
      /\ Len(cache) < MaxEntries \/ Len(cache) = MaxEntries
      /\ Len(cache) < MaxEntries => m = cache
      /\ Len(cache) = MaxEntries => n = Len(cache) - 1 /\ \A j \in 1 .. n : m[j] = cache[j + 1]
  BY Given, MakeRoomShape
<1> HIDE DEF u, e, m, n
<1>6. \A j \in 1 .. n : m[j].token # t
  <2> SUFFICES ASSUME NEW j \in 1 .. n PROVE m[j].token # t
    OBVIOUS
  <2>1. DOMAIN cache' = 1 .. n + 1 /\ cache'[j] = m[j]
    BY <1>1, <1>2, <1>3, AppendProperties, LenProperties DEF n
  <2>2. j \in DOMAIN cache'
    BY <1>3, <2>1
  <2> QED
    BY <2>1, <2>2 DEF ToSet
<1>7. Len(cache) = MaxEntries
  <2> SUFFICES ASSUME Len(cache) < MaxEntries PROVE FALSE
    BY <1>5
  <2> QED
    BY <1>4, <1>5, <1>6 DEF n
<1>8. p = 1
  <2> SUFFICES ASSUME p # 1 PROVE FALSE
    OBVIOUS
  <2>1. p - 1 \in 1 .. n /\ (p - 1) + 1 = p
    BY <1>4, <1>5, <1>7
  <2>2. m[p - 1] = cache[p]
    BY <1>5, <1>7, <2>1
  <2> QED
    BY <1>4, <1>6, <2>1, <2>2
<1> QED
  BY <1>1, <1>4, <1>7, <1>8 DEF u

\* Behind the first entry of a full cache stand as many others, less one, as it has
\* room for, all used since; with the token that drives it out they are enough.
LEMMA EvictedIsOld ==
    ASSUME UseInv, HistoryStep, NEW c \in Calls, NEW q \in Qualities, Land(c, q),
           NEW t \in Tokens, Holds(t), \A x \in ToSet(cache') : x.token # t
    PROVE  Cardinality(usedSince'[t]) >= MaxEntries
<1> DEFINE u == TokenOf[c]
           f == [i \in 1 .. MaxEntries |-> IF i = 1 THEN u ELSE cache[i].token]
<1>1. CacheInv /\ UseTyped /\ UseOrdered /\ u \in Tokens /\ Used = {u} /\ IsFiniteSet({u})
  BY Given, UsedByLand, FS_Singleton DEF UseInv
<1>2. Len(cache) = MaxEntries /\ 1 \in 1 .. Len(cache) /\ cache[1].token = t /\ ~Holds(u)
  BY <1>1, LandGivesUpFirst
<1>3. UseTyped' /\ usedSince'[t] = usedSince[t] \cup {u}
  <2>1. t # u
    BY <1>2
  <2> QED
    BY <1>1, <2>1, UseTypedNext
<1>4. MaxEntries \in Nat /\ DOMAIN cache = 1 .. MaxEntries
  BY <1>1, <1>2, Given, MetadataAssumption
<1>5. \A i \in 1 .. MaxEntries : cache[i].token # u
  BY <1>2, <1>4 DEF Holds, ToSet
<1>6. \A i, j \in 1 .. MaxEntries : cache[i].token = cache[j].token => i = j
  BY <1>1, <1>4, Given DEF OncePerToken
<1>7. \A i \in 1 .. MaxEntries : i # 1 => cache[i].token \in usedSince[t]
  BY <1>1, <1>2, <1>4 DEF UseOrdered
<1> HIDE DEF u
<1>8. f \in [1 .. MaxEntries -> usedSince'[t]]
  BY <1>3, <1>7
<1>9. \A i, j \in 1 .. MaxEntries : f[i] = f[j] => i = j
  BY <1>5, <1>6
<1>10. f \in Injection(1 .. MaxEntries, usedSince'[t])
  BY <1>8, <1>9 DEF Injection, IsInjective
<1>11. IsFiniteSet(usedSince'[t])
  BY <1>3 DEF UseTyped
<1> HIDE DEF f
<1>12. Cardinality(1 .. MaxEntries) <= Cardinality(usedSince'[t])
  BY <1>10, <1>11, FS_Injection
<1>13. Cardinality(1 .. MaxEntries) = MaxEntries
  <2>1. Cardinality(1 .. MaxEntries) = IF 1 > MaxEntries THEN 0 ELSE MaxEntries - 1 + 1
    BY <1>4, FS_Interval
  <2> QED
    BY <1>4, <2>1
<1>14. Cardinality(usedSince'[t]) \in Nat
  BY <1>11, FS_CardinalityType
<1> QED
  BY <1>4, <1>12, <1>13, <1>14

-----------------------------------------------------------------------------
(* The theorems.                                                             *)

\* Every variable of the cache keeps its type.
THEOREM MetadataTyped == Spec => []TypeOK
BY CacheInvariance, PTL DEF CacheInv

\* The cache stays within its limit, holds each token once, forgets degraded and
\* empty metadata early, and holds nothing that is being fetched.
THEOREM CacheStaysSound == Spec => []CacheSound
BY CacheInvariance, PTL DEF CacheInv

\* A live entry is given up only when as many others have been used since as the
\* cache has room for.
THEOREM LeastRecentGoesFirst == HistorySpec => EvictsLeastRecent
<1> DEFINE Old == \A t \in Tokens :
             Live(t) /\ (\A x \in ToSet(cache') : x.token # t) =>
                 Cardinality(usedSince'[t]) >= MaxEntries
<1>1. UseInv /\ [HistoryNext]_<<metadataVars, usedSince>>
        => Old \/ UNCHANGED <<metadataVars, usedSince>>
  <2> SUFFICES ASSUME UseInv, Next, HistoryStep, NEW t \in Tokens, Live(t),
                      \A x \in ToSet(cache') : x.token # t
               PROVE  Cardinality(usedSince'[t]) >= MaxEntries
    BY DEF HistoryNext, HistoryStep
  <2>1. CacheInv /\ Holds(t)
    BY DEF UseInv, Live
  <2>2. PICK x \in ToSet(cache) : x.token = t
    BY <2>1 DEF Holds
  <2>3. cache' # cache
    BY <2>2
  <2>4. ~\E c \in Calls : Hit(c) \/ Miss(c) \/ Resume(c)
    BY <2>1, <2>3, HitKeeps, MissKeeps DEF Resume
  <2>5. ~Tick /\ ~UNCHANGED metadataVars
    BY <2>3 DEF Tick, metadataVars
  <2>6. PICK c \in Calls, q \in Qualities : Land(c, q)
    BY <2>4, <2>5 DEF Next, Ask, Finished
  <2> QED
    BY <2>1, <2>6, EvictedIsOld
<1> HIDE DEF Old
<1>2. HistorySpec => [][Old]_<<metadataVars, usedSince>>
  BY InitUse, NextUse, <1>1, PTL DEF HistorySpec
<1> QED
  BY <1>2 DEF EvictsLeastRecent, Old

-----------------------------------------------------------------------------
(* What liveness rests on: whoever waits, waits for a fetch.                 *)

\* The fetch a call awaits is one of its own token, and under way or come back.
WaitsForAFetch ==
    /\ \A t \in Tokens : fetching[t] # NoOne => TokenOf[fetching[t]] = t
    /\ \A c \in Calls : call[c] = "waiting" =>
          /\ TokenOf[fetcher[c]] = TokenOf[c]
          /\ fetching[TokenOf[c]] = fetcher[c] \/ fetched[fetcher[c]] # Nothing

LEMMA StepWaits == CacheInv /\ WaitsForAFetch /\ [Next]_metadataVars => WaitsForAFetch'
<1> SUFFICES ASSUME CacheInv, WaitsForAFetch, [Next]_metadataVars PROVE WaitsForAFetch'
  OBVIOUS
<1>1. TypeOK /\ CallsSound /\ TokenOf \in [Calls -> Tokens] /\ NoOne \notin Calls
  BY MetadataAssumption DEF CacheInv
<1>2. ASSUME NEW c \in Calls, Hit(c) \/ Resume(c) PROVE WaitsForAFetch'
  <2>1. call' = [call EXCEPT ![c] = "served"] /\ UNCHANGED <<fetching, fetcher, fetched>>
    BY <1>2 DEF Hit, Resume
  <2> QED
    BY <1>1, <2>1 DEF WaitsForAFetch, TypeOK
<1>3. ASSUME NEW c \in Calls, Miss(c) PROVE WaitsForAFetch'
  <2> DEFINE t == TokenOf[c]
             f == IF fetching[t] = NoOne THEN c ELSE fetching[t]
  <2>1. /\ fetching' = [fetching EXCEPT ![t] = f]
        /\ fetcher' = [fetcher EXCEPT ![c] = f]
        /\ call' = [call EXCEPT ![c] = "waiting"]
        /\ fetched' = fetched
    BY <1>3 DEF Miss
  <2>2. t \in Tokens /\ f \in Calls /\ TokenOf[f] = t
    BY <1>1 DEF WaitsForAFetch, TypeOK
  <2>3. fetching[t] # NoOne => f = fetching[t]
    OBVIOUS
  <2>4. \A d \in Calls : call[d] = "waiting" => fetcher[d] \in Calls
    BY <1>1 DEF CallsSound
  <2>5. fetching'[t] = f /\ \A u \in Tokens \ {t} : fetching'[u] = fetching[u]
    BY <1>1, <2>1, <2>2 DEF TypeOK
  <2>6. ASSUME NEW d \in Calls, call'[d] = "waiting"
        PROVE  /\ TokenOf[fetcher'[d]] = TokenOf[d]
               /\ fetching'[TokenOf[d]] = fetcher'[d] \/ fetched'[fetcher'[d]] # Nothing
    <3>1. CASE d = c
      <4>1. fetcher'[d] = f
        BY <1>1, <2>1, <3>1 DEF TypeOK
      <4> QED
        BY <2>2, <2>5, <3>1, <4>1
    <3>2. CASE d # c
      <4>1. fetcher'[d] = fetcher[d] /\ call[d] = "waiting"
        BY <1>1, <2>1, <2>6, <3>2 DEF TypeOK
      <4>2. /\ TokenOf[fetcher[d]] = TokenOf[d]
            /\ fetching[TokenOf[d]] = fetcher[d] \/ fetched[fetcher[d]] # Nothing
        BY <4>1 DEF WaitsForAFetch
      <4>3. fetching[TokenOf[d]] = fetcher[d] => fetching'[TokenOf[d]] = fetcher[d]
        BY <1>1, <2>3, <2>4, <2>5, <4>1
      <4> QED
        BY <2>1, <4>1, <4>2, <4>3
    <3> QED
      BY <3>1, <3>2
  <2>7. \A u \in Tokens : fetching'[u] # NoOne => TokenOf[fetching'[u]] = u
    BY <2>2, <2>5 DEF WaitsForAFetch
  <2> HIDE DEF t, f
  <2> QED
    BY <2>6, <2>7 DEF WaitsForAFetch
<1>4. ASSUME NEW c \in Calls, NEW q \in Qualities, Land(c, q) PROVE WaitsForAFetch'
  <2> DEFINE t == TokenOf[c]
  <2>1. /\ fetching[t] = c /\ t \in Tokens
        /\ fetched' = [fetched EXCEPT ![c] = q]
        /\ fetching' = [fetching EXCEPT ![t] = NoOne]
        /\ UNCHANGED <<call, fetcher>>
    BY <1>1, <1>4 DEF Land
  <2>2. q # Nothing
    BY DEF Qualities, Nothing
  <2>3. /\ fetched'[c] = q /\ \A d \in Calls \ {c} : fetched'[d] = fetched[d]
        /\ fetching'[t] = NoOne /\ \A u \in Tokens \ {t} : fetching'[u] = fetching[u]
    BY <1>1, <2>1 DEF TypeOK
  <2>4. ASSUME NEW d \in Calls, call[d] = "waiting"
        PROVE  /\ TokenOf[fetcher[d]] = TokenOf[d]
               /\ fetching'[TokenOf[d]] = fetcher[d] \/ fetched'[fetcher[d]] # Nothing
    <3>1. /\ TokenOf[fetcher[d]] = TokenOf[d] /\ fetcher[d] \in Calls
          /\ fetching[TokenOf[d]] = fetcher[d] \/ fetched[fetcher[d]] # Nothing
      BY <1>1, <2>4 DEF WaitsForAFetch, CallsSound
    <3>2. TokenOf[d] \in Tokens
      BY <1>1
    <3> QED
      BY <2>1, <2>2, <2>3, <3>1, <3>2
  <2>5. \A u \in Tokens : fetching'[u] # NoOne => TokenOf[fetching'[u]] = u
    BY <2>3 DEF WaitsForAFetch
  <2> QED
    BY <2>1, <2>4, <2>5 DEF WaitsForAFetch
<1>5. ASSUME Tick \/ Finished \/ UNCHANGED metadataVars
      PROVE  UNCHANGED <<fetching, call, fetcher, fetched>>
  BY <1>5 DEF Tick, Finished, metadataVars
<1>6. ASSUME UNCHANGED <<fetching, call, fetcher, fetched>> PROVE WaitsForAFetch'
  BY <1>6 DEF WaitsForAFetch
<1> QED
  BY <1>2, <1>3, <1>4, <1>5, <1>6 DEF Next, Ask

\* Nobody waits for a fetch that has been forgotten: whoever waits can resume, or the
\* fetch that will let it resume is under way.
THEOREM CallersAwaitAFetch == Spec => []WaitsForAFetch
<1>1. Init => WaitsForAFetch
  BY DEF Init, WaitsForAFetch
<1> QED
  BY <1>1, CacheInvariance, StepWaits, PTL DEF Spec
=============================================================================
