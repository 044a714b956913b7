-------------------------- MODULE EnrichmentProofs --------------------------
(***************************************************************************)
(* Enrichment under its deadline, for any number of lookups, tokens and       *)
(* batches: what is returned is well formed, keeps what was obtained, has the *)
(* metadata of every token unless it owns up to a failure, and is frozen.     *)
(***************************************************************************)
EXTENDS EvmEnrichment, TLAPS, SequenceTheorems

(* The invariant, lookup by lookup.                                          *)

BeforeTokens == {"new", "calling", "lagging", "retrying"}

\* What is known locally has been saved for the deadline.
Recorded(l) == partial[l].receipt = run[l].receipt /\ partial[l].tx = run[l].tx

\* The status saved is that of the receipt, or without one "pending" at most, and
\* that only once the transaction and the receipt have both been asked for.
StatusFits(l) ==
    /\ partial[l].receipt # "none" => partial[l].status = StatusOf(partial[l].receipt)
    /\ partial[l].receipt = "none" => partial[l].status \in {"unknown", "pending"}
    /\ partial[l].status = "pending" =>
          partial[l].tx = "pool" /\ run[l].stage \notin BeforeTokens

EarlyCallsFirst(l) == run[l].wire \cap Early # {} => run[l].stage = "calling"

\* Tokens are asked for only when there is a receipt, and not before the details are.
TokensLast(l) ==
    run[l].receipt = "none" \/ run[l].stage \in BeforeTokens =>
        /\ run[l].due = <<>> /\ run[l].batch = {} /\ run[l].todo = <<>>
        /\ run[l].known = NoToken /\ partial[l].known = NoToken

\* A receipt that should be there and is not is owned up to.
OwnsUp(p) ==
    p.receipt = "none" =>
        /\ p.tx = "mined" => p.failure
        /\ p.tx = "pool" /\ p.status = "unknown" => p.failure

DetailsOwnUp(l) == run[l].stage = "detailing" => OwnsUp(partial[l])

\* No token mentioned by the receipt is forgotten between two batches.
Among(t, s) == \E i \in DOMAIN s : s[i] = t
Pending(l, t) ==
    \/ run[l].known[t] # Metadata!Nothing
    \/ t \in run[l].batch
    \/ Among(t, run[l].due)
    \/ Among(t, run[l].todo)
NothingForgotten(l) ==
    run[l].stage = "detailing" /\ run[l].receipt # "none" =>
        \A i \in DOMAIN Mentions[l] : Pending(l, Mentions[l][i])

\* What has been handed out is what had been saved; a result that was cut says so,
\* and a whole one has everything.
HandedOut(l) ==
    /\ Over(l) =>
          /\ run[l].stage # "new" /\ run[l].due = <<>>
          /\ returned[l].receipt = partial[l].receipt
          /\ returned[l].tx = partial[l].tx
          /\ returned[l].status = partial[l].status
    /\ outcome[l] = "cut" => returned[l].failure
    /\ outcome[l] = "whole" =>
          /\ OwnsUp(returned[l])
          /\ returned[l].receipt = "none" => returned[l].known = NoToken
          /\ returned[l].receipt # "none" =>
                \A i \in DOMAIN Mentions[l] :
                   returned[l].known[Mentions[l][i]] # Metadata!Nothing

LookupInv(l) ==
    /\ Recorded(l) /\ StatusFits(l) /\ EarlyCallsFirst(l) /\ TokensLast(l)
    /\ DetailsOwnUp(l) /\ NothingForgotten(l) /\ HandedOut(l)

\* A call for metadata that waits does so for a fetch, and one that was served has
\* been given something.
MetadataCalls ==
    \A c \in Lookups \X Tokens :
        /\ call[c] = "waiting" => fetcher[c] \in Lookups \X Tokens
        /\ call[c] = "served" => got[c] \in Metadata!Qualities

EnrichmentInv == TypeOK /\ MetadataCalls /\ \A l \in Lookups : LookupInv(l)

-----------------------------------------------------------------------------
(* The metadata cache underneath: types, and what its calls come to.         *)

MetadataInv == Metadata!TypeOK /\ MetadataCalls

LEMMA Assumed ==
    /\ MaxEntries \in Nat \ {0} /\ ShortLife \in Nat /\ FullLife \in Nat
    /\ BatchSize \in Nat \ {0}
    /\ Mentions \in [Lookups -> Seq(Tokens)]
    /\ Receipts \subseteq {"success", "reverted", "statusless"}
    /\ Sightings \subseteq TxKinds
    /\ Fetchable \subseteq Metadata!Qualities
    /\ Blocks # {} /\ Blocks \subseteq Nat \ {0}
BY EnrichmentAssumption, BlocksAssumption DEF Metadata!Qualities

LEMMA PlaceOfEntry ==
    ASSUME Metadata!TypeOK, NEW t \in Tokens, Metadata!Holds(t)
    PROVE  Metadata!Place(t) \in 1 .. Len(cache) /\ Metadata!EntryOf(t) \in Metadata!Metadata
<1>1. cache \in Seq(Metadata!Metadata)
  BY DEF Metadata!TypeOK
<1>2. \E i \in DOMAIN cache : cache[i].token = t
  BY DEF Metadata!Holds, Metadata!ToSet
<1>3. Metadata!Place(t) \in DOMAIN cache
  BY <1>2 DEF Metadata!Place
<1>4. DOMAIN cache = 1 .. Len(cache)
  BY <1>1, LenProperties
<1> QED
  BY <1>1, <1>3, <1>4, ElementOfSeq DEF Metadata!EntryOf

LEMMA OthersTyped ==
    ASSUME Metadata!TypeOK, NEW t \in Tokens
    PROVE  Metadata!Others(t) \in Seq(Metadata!Metadata)
<1>1. cache \in Seq(Metadata!Metadata)
  BY DEF Metadata!TypeOK
<1>2. CASE ~Metadata!Holds(t)
  BY <1>1, <1>2 DEF Metadata!Others
<1>3. CASE Metadata!Holds(t)
  <2> DEFINE p == Metadata!Place(t)
  <2>1. p \in 1 .. Len(cache) /\ Len(cache) \in Nat
    BY <1>1, <1>3, PlaceOfEntry, LenProperties
  <2>2. \A i \in 1 .. Len(cache) : cache[i] \in Metadata!Metadata
    BY <1>1, ElementOfSeq
  <2>3. Metadata!Others(t) = SubSeq(cache, 1, p - 1) \o SubSeq(cache, p + 1, Len(cache))
    BY <1>3 DEF Metadata!Others, Metadata!RemoveAt
  <2> HIDE DEF p
  <2>4. SubSeq(cache, 1, p - 1) \in Seq(Metadata!Metadata)
    <3>1. \A i \in 1 .. p - 1 : cache[i] \in Metadata!Metadata
      BY <2>1, <2>2
    <3> QED
      BY <2>1, <3>1, SubSeqProperties
  <2>5. SubSeq(cache, p + 1, Len(cache)) \in Seq(Metadata!Metadata)
    <3>1. \A i \in p + 1 .. Len(cache) : cache[i] \in Metadata!Metadata
      BY <2>1, <2>2
    <3> QED
      BY <2>1, <3>1, SubSeqProperties
  <2> QED
    BY <2>3, <2>4, <2>5, ConcatProperties
<1> QED
  BY <1>2, <1>3

LEMMA AfterGetTyped ==
    ASSUME Metadata!TypeOK, NEW t \in Tokens
    PROVE  Metadata!AfterGet(t) \in Seq(Metadata!Metadata)
<1>1. CASE ~Metadata!Live(t)
  BY <1>1, OthersTyped DEF Metadata!AfterGet
<1>2. CASE Metadata!Live(t)
  <2>1. Metadata!EntryOf(t) \in Metadata!Metadata
    BY <1>2, PlaceOfEntry DEF Metadata!Live
  <2>2. Metadata!AfterGet(t) = Append(Metadata!Others(t), Metadata!EntryOf(t))
    BY <1>2 DEF Metadata!AfterGet
  <2> QED
    BY <2>1, <2>2, OthersTyped, AppendProperties
<1> QED
  BY <1>1, <1>2

LEMMA AfterSetTyped ==
    ASSUME Metadata!TypeOK, NEW t \in Tokens, NEW q \in Metadata!Qualities
    PROVE  Metadata!AfterSet(t, q) \in Seq(Metadata!Metadata)
<1> DEFINE e == [token |-> t, quality |-> q, until |-> clock + Metadata!Life(q)]
           m == Metadata!MakeRoom
<1>1. e \in Metadata!Metadata
  BY Assumed DEF Metadata!TypeOK, Metadata!Metadata, Metadata!Life
<1>2. m \in Seq(Metadata!Metadata)
  <2>1. cache \in Seq(Metadata!Metadata) /\ Len(cache) \in Nat
    BY LenProperties DEF Metadata!TypeOK
  <2>2. CASE Len(cache) >= MaxEntries
    <3>1. cache # <<>>
      BY <2>1, <2>2, Assumed, EmptySeq
    <3> QED
      BY <2>1, <2>2, <3>1, HeadTailProperties DEF Metadata!MakeRoom
  <2> QED
    BY <2>1, <2>2 DEF Metadata!MakeRoom
<1>3. Len(m) \in Nat /\ DOMAIN m = 1 .. Len(m) /\ \A i \in 1 .. Len(m) : m[i] \in Metadata!Metadata
  BY <1>2, LenProperties, ElementOfSeq
<1>4. Metadata!AfterSet(t, q) =
        IF \E x \in Metadata!ToSet(m) : x.token = t
        THEN [i \in DOMAIN m |-> IF m[i].token = t THEN e ELSE m[i]]
        ELSE Append(m, e)
  BY DEF Metadata!AfterSet
<1> HIDE DEF e, m
<1>5. [i \in DOMAIN m |-> IF m[i].token = t THEN e ELSE m[i]] \in Seq(Metadata!Metadata)
  <2>1. [i \in DOMAIN m |-> IF m[i].token = t THEN e ELSE m[i]] \in [1 .. Len(m) -> Metadata!Metadata]
    BY <1>1, <1>3
  <2> QED
    BY <1>3, <2>1, SeqDef
<1>6. Append(m, e) \in Seq(Metadata!Metadata)
  BY <1>1, <1>2, AppendProperties
<1> QED
  BY <1>4, <1>5, <1>6

LEMMA AskMetadata ==
    ASSUME MetadataInv, NEW c \in Lookups \X Tokens, Metadata!Ask(c)
    PROVE  /\ MetadataInv' /\ call'[c] # "new"
           /\ \A d \in (Lookups \X Tokens) \ {c} : call'[d] = call[d]
<1> DEFINE t == c[2]
<1>1. Metadata!TypeOK /\ MetadataCalls /\ t \in Tokens
  BY DEF MetadataInv
<1>2. Metadata!AfterGet(t) \in Seq(Metadata!Metadata)
  BY <1>1, AfterGetTyped
<1>3. CASE Metadata!Hit(c)
  <2>1. /\ Metadata!Live(t) /\ cache' = Metadata!AfterGet(t)
        /\ got' = [got EXCEPT ![c] = Metadata!EntryOf(t).quality]
        /\ call' = [call EXCEPT ![c] = "served"]
        /\ UNCHANGED <<clock, fetching, fetcher, fetched>>
    BY <1>3 DEF Metadata!Hit
  <2>2. Metadata!EntryOf(t).quality \in Metadata!Qualities
    BY <1>1, <2>1, PlaceOfEntry DEF Metadata!Live, Metadata!Metadata
  <2> HIDE DEF t
  <2> QED
    BY <1>1, <1>2, <2>1, <2>2 DEF MetadataInv, MetadataCalls, Metadata!TypeOK
<1>4. CASE Metadata!Miss(c)
  <2> DEFINE f == IF fetching[t] = NoOne THEN c ELSE fetching[t]
  <2>1. /\ cache' = Metadata!AfterGet(t)
        /\ fetching' = [fetching EXCEPT ![t] = f]
        /\ fetcher' = [fetcher EXCEPT ![c] = f]
        /\ call' = [call EXCEPT ![c] = "waiting"]
        /\ UNCHANGED <<clock, fetched, got>>
    BY <1>4 DEF Metadata!Miss
  <2>2. f \in Lookups \X Tokens
    BY <1>1 DEF Metadata!TypeOK
  <2> HIDE DEF t, f
  <2> QED
    BY <1>1, <1>2, <2>1, <2>2 DEF MetadataInv, MetadataCalls, Metadata!TypeOK
<1> QED
  BY <1>3, <1>4 DEF Metadata!Ask

LEMMA LandMetadata ==
    ASSUME MetadataInv, NEW c \in Lookups \X Tokens, NEW q \in Metadata!Qualities,
           Metadata!Land(c, q)
    PROVE  MetadataInv' /\ call' = call
<1> DEFINE t == c[2]
<1>1. Metadata!TypeOK /\ MetadataCalls /\ t \in Tokens
  BY DEF MetadataInv
<1>2. /\ fetched' = [fetched EXCEPT ![c] = q]
      /\ cache' = Metadata!AfterSet(t, q)
      /\ fetching' = [fetching EXCEPT ![t] = NoOne]
      /\ UNCHANGED <<clock, call, fetcher, got>>
  BY DEF Metadata!Land
<1>3. cache' \in Seq(Metadata!Metadata)
  BY <1>1, <1>2, AfterSetTyped
<1> HIDE DEF t
<1> QED
  BY <1>1, <1>2, <1>3 DEF MetadataInv, MetadataCalls, Metadata!TypeOK

LEMMA ResumeMetadata ==
    ASSUME MetadataInv, NEW c \in Lookups \X Tokens, Metadata!Resume(c)
    PROVE  /\ MetadataInv'
           /\ \A d \in Lookups \X Tokens : call'[d] = "new" <=> call[d] = "new"
<1>1. Metadata!TypeOK /\ MetadataCalls
  BY DEF MetadataInv
<1>2. /\ call[c] = "waiting" /\ fetched[fetcher[c]] # Metadata!Nothing
      /\ got' = [got EXCEPT ![c] = fetched[fetcher[c]]]
      /\ call' = [call EXCEPT ![c] = "served"]
      /\ UNCHANGED <<clock, cache, fetching, fetcher, fetched>>
  BY DEF Metadata!Resume
<1>3. fetched[fetcher[c]] \in Metadata!Qualities
  BY <1>1, <1>2 DEF MetadataCalls, Metadata!TypeOK
<1> QED
  BY <1>1, <1>2, <1>3 DEF MetadataInv, MetadataCalls, Metadata!TypeOK

LEMMA ClockMetadata ==
    ASSUME MetadataInv, Metadata!Tick \/ UNCHANGED metadataVars
    PROVE  MetadataInv' /\ call' = call
<1>1. /\ UNCHANGED <<cache, fetching, call, fetcher, fetched, got>>
      /\ clock' = clock \/ clock' = clock + 1
  BY DEF Metadata!Tick, metadataVars
<1> QED
  BY <1>1 DEF MetadataInv, MetadataCalls, Metadata!TypeOK

-----------------------------------------------------------------------------
(* Batches: the first tokens of a list, and those after them.                *)

LEMMA FirstRestShape ==
    ASSUME NEW s \in Seq(Tokens), NEW n \in Nat, n # 0
    PROVE  /\ First(s, n) \in Seq(Tokens) /\ Rest(s, n) \in Seq(Tokens)
           /\ Len(First(s, n)) \in Nat /\ Len(Rest(s, n)) \in Nat
           /\ Len(First(s, n)) + Len(Rest(s, n)) = Len(s)
           /\ Len(First(s, n)) = 0 => Len(s) = 0
           /\ \A i \in 1 .. Len(First(s, n)) : First(s, n)[i] = s[i]
           /\ \A i \in 1 .. Len(Rest(s, n)) : Rest(s, n)[i] = s[Len(First(s, n)) + i]
<1> DEFINE k == IF n < Len(s) THEN n ELSE Len(s)
<1>0. Len(s) \in Nat
  BY LenProperties
<1>1. \A i \in 1 .. Len(s) : s[i] \in Tokens
  BY ElementOfSeq
<1>2. /\ k \in Nat /\ k <= Len(s) /\ (k = 0 => Len(s) = 0)
      /\ n < Len(s) => k = n
      /\ ~(n < Len(s)) => k = Len(s)
  <2>1. CASE n < Len(s)
    <3>1. k = n
      BY <2>1
    <3> QED
      BY <1>0, <2>1, <3>1
  <2>2. CASE ~(n < Len(s))
    <3>1. k = Len(s)
      BY <2>2
    <3>2. k \in Nat
      BY <1>0, <3>1
    <3> HIDE DEF k
    <3>3. k <= Len(s) /\ (k = 0 => Len(s) = 0)
      BY <1>0, <3>1, <3>2
    <3> QED
      BY <2>2, <3>1, <3>2, <3>3
  <2> QED
    BY <2>1, <2>2
<1>3. First(s, n) = SubSeq(s, 1, k) /\ Rest(s, n) = SubSeq(s, n + 1, Len(s))
  BY DEF First, Rest
<1> HIDE DEF k
<1>4. /\ First(s, n) \in Seq(Tokens) /\ Len(First(s, n)) = k
      /\ \A i \in 1 .. k : First(s, n)[i] = s[i]
  <2>1. ASSUME NEW i \in 1 .. k PROVE s[i] \in Tokens
    <3>1. i \in 1 .. Len(s)
      BY <1>0, <1>2
    <3> QED
      BY <1>1, <3>1
  <2>2. /\ SubSeq(s, 1, k) \in Seq(Tokens)
        /\ Len(SubSeq(s, 1, k)) = IF 1 <= k THEN k - 1 + 1 ELSE 0
        /\ \A i \in 1 .. k - 1 + 1 : SubSeq(s, 1, k)[i] = s[1 + i - 1]
    BY <1>2, <2>1, SubSeqProperties
  <2>3. /\ Len(SubSeq(s, 1, k)) = k
        /\ \A i \in 1 .. k : SubSeq(s, 1, k)[i] = s[i]
    BY <1>2, <2>2
  <2> QED
    BY <1>3, <2>2, <2>3
<1>5. /\ Rest(s, n) \in Seq(Tokens)
      /\ Len(Rest(s, n)) = IF n < Len(s) THEN Len(s) - n ELSE 0
      /\ \A i \in 1 .. Len(s) - n : Rest(s, n)[i] = s[n + i]
  <2>1. \A i \in n + 1 .. Len(s) : s[i] \in Tokens
    BY <1>1
  <2>2. /\ SubSeq(s, n + 1, Len(s)) \in Seq(Tokens)
        /\ Len(SubSeq(s, n + 1, Len(s))) =
              IF n + 1 <= Len(s) THEN Len(s) - (n + 1) + 1 ELSE 0
        /\ \A i \in 1 .. Len(s) - (n + 1) + 1 : SubSeq(s, n + 1, Len(s))[i] = s[n + 1 + i - 1]
    BY <1>0, <2>1, SubSeqProperties
  <2>3. /\ Len(SubSeq(s, n + 1, Len(s))) = IF n < Len(s) THEN Len(s) - n ELSE 0
        /\ \A i \in 1 .. Len(s) - n : SubSeq(s, n + 1, Len(s))[i] = s[n + i]
    BY <1>0, <2>2
  <2> QED
    BY <1>3, <2>2, <2>3
<1>6. CASE n < Len(s)
  <2>1. k = n /\ Len(Rest(s, n)) = Len(s) - n
    BY <1>2, <1>5, <1>6
  <2>2. /\ Len(First(s, n)) + Len(Rest(s, n)) = Len(s) /\ Len(Rest(s, n)) \in Nat
    BY <1>0, <1>4, <1>6, <2>1
  <2> QED
    BY <1>2, <1>4, <1>5, <2>1, <2>2
<1>7. CASE ~(n < Len(s))
  <2>1. k = Len(s) /\ Len(Rest(s, n)) = 0
    BY <1>2, <1>5, <1>7
  <2> QED
    BY <1>0, <1>2, <1>4, <1>5, <2>1
<1> QED
  BY <1>6, <1>7

LEMMA FirstAndRest ==
    ASSUME NEW s \in Seq(Tokens), NEW n \in Nat, n # 0
    PROVE  /\ First(s, n) \in Seq(Tokens) /\ Rest(s, n) \in Seq(Tokens)
           /\ First(s, n) = <<>> <=> s = <<>>
           /\ First(s, n) = <<>> => Rest(s, n) = <<>>
           /\ \A t : Among(t, s) <=> Among(t, First(s, n)) \/ Among(t, Rest(s, n))
<1> DEFINE f == First(s, n)
           r == Rest(s, n)
<1>1. /\ f \in Seq(Tokens) /\ r \in Seq(Tokens) /\ Len(f) \in Nat /\ Len(r) \in Nat
      /\ Len(f) + Len(r) = Len(s) /\ (Len(f) = 0 => Len(s) = 0)
      /\ \A i \in 1 .. Len(f) : f[i] = s[i]
      /\ \A i \in 1 .. Len(r) : r[i] = s[Len(f) + i]
  BY FirstRestShape
<1> HIDE DEF f, r
<1>2. DOMAIN s = 1 .. Len(s) /\ DOMAIN f = 1 .. Len(f) /\ DOMAIN r = 1 .. Len(r)
  BY <1>1, LenProperties
<1>3. Len(f) = 0 <=> Len(s) = 0
  BY <1>1
<1>4. Len(f) = 0 => Len(r) = 0
  BY <1>1
<1>5. f = <<>> <=> s = <<>>
  BY <1>1, <1>3, EmptySeq
<1>6. f = <<>> => r = <<>>
  BY <1>1, <1>4, EmptySeq
<1>7. ASSUME NEW t, Among(t, s) PROVE Among(t, f) \/ Among(t, r)
  <2>1. PICK i \in 1 .. Len(s) : s[i] = t
    BY <1>2, <1>7 DEF Among
  <2>2. CASE i <= Len(f)
    <3>1. i \in DOMAIN f /\ f[i] = t
      BY <1>1, <1>2, <2>1, <2>2
    <3> QED
      BY <3>1 DEF Among
  <2>3. CASE i > Len(f)
    <3>1. i - Len(f) \in 1 .. Len(r) /\ Len(f) + (i - Len(f)) = i
      BY <1>1, <2>1, <2>3
    <3>2. r[i - Len(f)] = t
      BY <1>1, <2>1, <3>1
    <3> QED
      BY <1>2, <3>1, <3>2 DEF Among
  <2> QED
    BY <1>1, <2>1, <2>2, <2>3
<1>8. ASSUME NEW t, Among(t, f) \/ Among(t, r) PROVE Among(t, s)
  <2>1. CASE Among(t, f)
    <3>1. PICK i \in 1 .. Len(f) : f[i] = t
      BY <1>2, <2>1 DEF Among
    <3>2. i \in 1 .. Len(s) /\ s[i] = t
      BY <1>1, <3>1
    <3> QED
      BY <1>2, <3>2 DEF Among
  <2>2. CASE Among(t, r)
    <3>1. PICK i \in 1 .. Len(r) : r[i] = t
      BY <1>2, <2>2 DEF Among
    <3>2. Len(f) + i \in 1 .. Len(s) /\ s[Len(f) + i] = t
      BY <1>1, <3>1
    <3> QED
      BY <1>2, <3>2 DEF Among
  <2> QED
    BY <1>8, <2>1, <2>2
<1> QED
  BY <1>1, <1>5, <1>6, <1>7, <1>8 DEF f, r

\* What is taken apart without repetition is put together without repetition.
Once(s) == \A i, j \in DOMAIN s : s[i] = s[j] => i = j
Apart(s, r) == \A t : ~(Among(t, s) /\ Among(t, r))

LEMMA FirstAndRestOnce ==
    ASSUME NEW s \in Seq(Tokens), NEW n \in Nat, n # 0, Once(s)
    PROVE  Once(First(s, n)) /\ Once(Rest(s, n)) /\ Apart(First(s, n), Rest(s, n))
<1> DEFINE f == First(s, n)
           r == Rest(s, n)
<1>1. /\ f \in Seq(Tokens) /\ r \in Seq(Tokens) /\ Len(f) \in Nat /\ Len(r) \in Nat
      /\ Len(f) + Len(r) = Len(s)
      /\ \A i \in 1 .. Len(f) : f[i] = s[i]
      /\ \A i \in 1 .. Len(r) : r[i] = s[Len(f) + i]
  BY FirstRestShape
<1> HIDE DEF f, r
<1>2. DOMAIN s = 1 .. Len(s) /\ DOMAIN f = 1 .. Len(f) /\ DOMAIN r = 1 .. Len(r)
  BY <1>1, LenProperties
<1>3. \A i, j \in 1 .. Len(s) : s[i] = s[j] => i = j
  BY <1>2 DEF Once
<1>4. ASSUME NEW i \in 1 .. Len(f), NEW j \in 1 .. Len(f), f[i] = f[j] PROVE i = j
  <2>1. i \in 1 .. Len(s) /\ j \in 1 .. Len(s)
    BY <1>1
  <2> QED
    BY <1>1, <1>3, <1>4, <2>1
<1>5. ASSUME NEW i \in 1 .. Len(r), NEW j \in 1 .. Len(r), r[i] = r[j] PROVE i = j
  <2>1. Len(f) + i \in 1 .. Len(s) /\ Len(f) + j \in 1 .. Len(s)
    BY <1>1
  <2>2. Len(f) + i = Len(f) + j
    BY <1>1, <1>3, <1>5, <2>1
  <2> QED
    BY <1>1, <2>2
<1>6. ASSUME NEW i \in 1 .. Len(f), NEW j \in 1 .. Len(r), f[i] = r[j] PROVE FALSE
  <2>1. i \in 1 .. Len(s) /\ Len(f) + j \in 1 .. Len(s)
    BY <1>1
  <2>2. i = Len(f) + j
    BY <1>1, <1>3, <1>6, <2>1
  <2> QED
    BY <1>1, <2>2
<1>7. Once(f) /\ Once(r)
  BY <1>2, <1>4, <1>5 DEF Once
<1>8. Apart(f, r)
  BY <1>2, <1>6 DEF Apart, Among
<1> QED
  BY <1>7, <1>8 DEF f, r

LEMMA HeadAndTail ==
    ASSUME NEW s \in Seq(Tokens), s # <<>>
    PROVE  /\ Head(s) \in Tokens /\ Tail(s) \in Seq(Tokens)
           /\ \A t : Among(t, s) => t = Head(s) \/ Among(t, Tail(s))
<1>1. /\ Head(s) \in Tokens /\ Tail(s) \in Seq(Tokens)
      /\ Len(Tail(s)) = Len(s) - 1
      /\ \A i \in 1 .. Len(Tail(s)) : Tail(s)[i] = s[i + 1]
  BY HeadTailProperties
<1>2. /\ Len(s) \in Nat /\ DOMAIN s = 1 .. Len(s) /\ DOMAIN Tail(s) = 1 .. Len(Tail(s))
      /\ Head(s) = s[1]
  BY <1>1, LenProperties
<1>3. ASSUME NEW t, Among(t, s), t # Head(s) PROVE Among(t, Tail(s))
  <2>1. PICK i \in 1 .. Len(s) : s[i] = t
    BY <1>2, <1>3 DEF Among
  <2>2. i # 1
    BY <1>2, <1>3, <2>1
  <2>3. i - 1 \in DOMAIN Tail(s) /\ (i - 1) + 1 = i
    BY <1>1, <1>2, <2>1, <2>2
  <2>4. Tail(s)[i - 1] = t
    BY <1>1, <1>2, <2>1, <2>3
  <2> QED
    BY <2>3, <2>4 DEF Among
<1> QED
  BY <1>1, <1>3

LEMMA HeadAndTailOnce ==
    ASSUME NEW s \in Seq(Tokens), s # <<>>, Once(s)
    PROVE  /\ \A t : Among(t, s) <=> t = Head(s) \/ Among(t, Tail(s))
           /\ Once(Tail(s)) /\ ~Among(Head(s), Tail(s))
<1> DEFINE r == Tail(s)
<1>1. /\ r \in Seq(Tokens) /\ Len(r) = Len(s) - 1
      /\ \A i \in 1 .. Len(r) : r[i] = s[i + 1]
      /\ Len(s) \in Nat /\ Len(s) # 0
      /\ \A t : Among(t, s) => t = Head(s) \/ Among(t, r)
  BY HeadTailProperties, LenProperties, EmptySeq, HeadAndTail
<1>2. DOMAIN s = 1 .. Len(s) /\ DOMAIN r = 1 .. Len(r) /\ Head(s) = s[1]
  BY <1>1, LenProperties
<1> HIDE DEF r
<1>3. \A i, j \in 1 .. Len(s) : s[i] = s[j] => i = j
  BY <1>2 DEF Once
<1>4. Among(Head(s), s)
  <2>1. 1 \in DOMAIN s
    BY <1>1, <1>2
  <2> QED
    BY <1>2, <2>1 DEF Among
<1>5. ASSUME NEW i \in 1 .. Len(r)
      PROVE  i + 1 \in 1 .. Len(s) /\ r[i] = s[i + 1] /\ r[i] # s[1]
  <2>1. i + 1 \in 1 .. Len(s) /\ 1 \in 1 .. Len(s) /\ i + 1 # 1
    BY <1>1
  <2> QED
    BY <1>1, <1>3, <2>1
<1>6. ASSUME NEW t, Among(t, r) PROVE Among(t, s) /\ t # Head(s)
  <2>1. PICK i \in 1 .. Len(r) : r[i] = t
    BY <1>2, <1>6 DEF Among
  <2> QED
    BY <1>2, <1>5, <2>1 DEF Among
<1>7. ASSUME NEW i \in 1 .. Len(r), NEW j \in 1 .. Len(r), r[i] = r[j] PROVE i = j
  <2>1. i + 1 = j + 1
    BY <1>3, <1>5, <1>7
  <2> QED
    BY <1>1, <2>1
<1>8. Once(r)
  BY <1>2, <1>7 DEF Once
<1> QED
  BY <1>1, <1>4, <1>6, <1>8 DEF r

-----------------------------------------------------------------------------
(* What a step of lookup l does: it touches l alone, keeps the invariant of l,*)
(* and, once l is over, nothing the caller can see.                          *)

OwnTyped ==
    /\ run \in [Lookups -> Runs]
    /\ partial \in [Lookups -> Collected]
    /\ outcome \in [Lookups -> {"none", "whole", "cut"}]
    /\ returned \in [Lookups -> Collected]

Untouched(l) ==
    /\ run'[l] = run[l] /\ partial'[l] = partial[l]
    /\ outcome'[l] = outcome[l] /\ returned'[l] = returned[l]

Kept(l) ==
    /\ outcome'[l] = outcome[l] /\ returned'[l] = returned[l]
    /\ partial'[l].known = partial[l].known
    /\ run'[l].wire \subseteq run[l].wire

StepOf(l) ==
    /\ OwnTyped' /\ LookupInv(l)'
    /\ \A m \in Lookups \ {l} : Untouched(m)
    /\ Over(l) => Kept(l)

LEMMA UntouchedInv ==
    ASSUME NEW l \in Lookups, LookupInv(l), Untouched(l) PROVE LookupInv(l)' /\ Kept(l)
BY DEF LookupInv, Untouched, Kept, Recorded, StatusFits, EarlyCallsFirst, TokensLast, OwnsUp,
       DetailsOwnUp, NothingForgotten, Pending, Among, HandedOut, Over

LEMMA Own ==
    ASSUME EnrichmentInv, NEW l \in Lookups
    PROVE  /\ OwnTyped /\ MetadataInv /\ LookupInv(l)
           /\ run[l] \in Runs /\ partial[l] \in Collected /\ returned[l] \in Collected
           /\ Recorded(l) /\ StatusFits(l) /\ EarlyCallsFirst(l) /\ TokensLast(l)
           /\ DetailsOwnUp(l) /\ NothingForgotten(l) /\ HandedOut(l)
BY DEF EnrichmentInv, TypeOK, MetadataInv, OwnTyped, LookupInv

LEMMA BeginStep ==
    ASSUME EnrichmentInv, NEW l \in Lookups, Begin(l) PROVE StepOf(l)
<1>1. /\ run[l].stage = "new"
      /\ run' = [run EXCEPT ![l] = [@ EXCEPT !.stage = "calling", !.wire = Early]]
      /\ UNCHANGED <<partial, outcome, returned>>
  BY DEF Begin
<1> DEFINE r == [run[l] EXCEPT !.stage = "calling", !.wire = Early]
<1>2. r \in Runs /\ run' = [run EXCEPT ![l] = r]
  BY <1>1, Own DEF Runs, Stages, Early
<1>3. run'[l] = r
  BY <1>2, Own DEF OwnTyped
<1>4. /\ run'[l].stage = "calling" /\ run'[l].receipt = run[l].receipt /\ run'[l].tx = run[l].tx
      /\ run'[l].due = run[l].due /\ run'[l].batch = run[l].batch /\ run'[l].todo = run[l].todo
      /\ run'[l].known = run[l].known
  BY <1>3, Own DEF Runs
<1>5. LookupInv(l)'
  BY <1>1, <1>4, Own DEF LookupInv, Recorded, StatusFits, EarlyCallsFirst, TokensLast,
       DetailsOwnUp, NothingForgotten, HandedOut, Over, BeforeTokens
<1>6. ~Over(l)
  BY <1>1, Own DEF HandedOut
<1> HIDE DEF r
<1>7. OwnTyped' /\ \A m \in Lookups \ {l} : Untouched(m)
  BY <1>1, <1>2, Own DEF OwnTyped, Untouched
<1> QED
  BY <1>5, <1>6, <1>7 DEF StepOf

LEMMA ReceiptAnswersStep ==
    ASSUME EnrichmentInv, NEW l \in Lookups, NEW receipt \in Receipts \cup {"none"},
           ReceiptAnswers(l, receipt)
    PROVE  StepOf(l)
<1> DEFINE r == [run[l] EXCEPT !.wire = @ \ {"receipt"}, !.receipt = receipt]
           p == [partial[l] EXCEPT !.receipt = receipt, !.status = StatusOf(receipt)]
<1>1. /\ "receipt" \in run[l].wire /\ ~Over(l)
      /\ run' = [run EXCEPT ![l] = r] /\ partial' = [partial EXCEPT ![l] = p]
      /\ UNCHANGED <<outcome, returned>>
  BY Own DEF ReceiptAnswers, OwnTyped, Runs, Collected
<1>2. run[l].stage = "calling"
  BY <1>1, Own DEF EarlyCallsFirst, Early
<1>3. StatusOf(receipt) \in Statuses /\ StatusOf(receipt) # "pending"
  BY Assumed DEF StatusOf, Statuses
<1>4. r \in Runs /\ p \in Collected
  BY <1>3, Own DEF Runs, Collected
<1>5. run'[l] = r /\ partial'[l] = p
  BY <1>1, Own DEF OwnTyped
<1>6. /\ r.stage = run[l].stage /\ r.wire = run[l].wire \ {"receipt"} /\ r.receipt = receipt
      /\ r.tx = run[l].tx /\ r.due = run[l].due /\ r.batch = run[l].batch
      /\ r.todo = run[l].todo /\ r.known = run[l].known
      /\ p.receipt = receipt /\ p.tx = partial[l].tx /\ p.status = StatusOf(receipt)
      /\ p.known = partial[l].known
  BY Own DEF Runs, Collected
<1> HIDE DEF r, p
<1>7. OwnTyped' /\ \A m \in Lookups \ {l} : Untouched(m)
  BY <1>1, <1>4, Own DEF OwnTyped, Untouched
<1>8. Recorded(l)' /\ EarlyCallsFirst(l)' /\ TokensLast(l)' /\ DetailsOwnUp(l)'
        /\ NothingForgotten(l)' /\ HandedOut(l)'
  BY <1>1, <1>2, <1>5, <1>6, Own
  DEF Recorded, EarlyCallsFirst, TokensLast, DetailsOwnUp, NothingForgotten, HandedOut, Over,
      BeforeTokens
<1>9. StatusFits(l)'
  BY <1>3, <1>5, <1>6 DEF StatusFits, StatusOf
<1> QED
  BY <1>1, <1>7, <1>8, <1>9 DEF StepOf, LookupInv

LEMMA TxAnswersStep ==
    ASSUME EnrichmentInv, NEW l \in Lookups, NEW tx \in Sightings, TxAnswers(l, tx)
    PROVE  StepOf(l)
<1> DEFINE r == [run[l] EXCEPT !.wire = @ \ {"tx"}, !.tx = tx]
           p == [partial[l] EXCEPT !.tx = tx]
<1>1. /\ "tx" \in run[l].wire /\ ~Over(l)
      /\ run' = [run EXCEPT ![l] = r] /\ partial' = [partial EXCEPT ![l] = p]
      /\ UNCHANGED <<outcome, returned>>
  BY Own DEF TxAnswers, OwnTyped, Runs, Collected
<1>2. run[l].stage = "calling"
  BY <1>1, Own DEF EarlyCallsFirst, Early
<1>3. tx \in TxKinds
  BY Assumed
<1>4. r \in Runs /\ p \in Collected
  BY <1>3, Own DEF Runs, Collected
<1>5. run'[l] = r /\ partial'[l] = p
  BY <1>1, Own DEF OwnTyped
<1>6. /\ r.stage = run[l].stage /\ r.wire = run[l].wire \ {"tx"} /\ r.receipt = run[l].receipt
      /\ r.tx = tx /\ r.due = run[l].due /\ r.batch = run[l].batch
      /\ r.todo = run[l].todo /\ r.known = run[l].known
      /\ p.receipt = partial[l].receipt /\ p.tx = tx /\ p.status = partial[l].status
      /\ p.known = partial[l].known
  BY Own DEF Runs, Collected
<1> HIDE DEF r, p
<1>7. OwnTyped' /\ \A m \in Lookups \ {l} : Untouched(m)
  BY <1>1, <1>4, Own DEF OwnTyped, Untouched
<1>8. Recorded(l)' /\ EarlyCallsFirst(l)' /\ TokensLast(l)' /\ DetailsOwnUp(l)'
        /\ NothingForgotten(l)' /\ HandedOut(l)'
  BY <1>1, <1>2, <1>5, <1>6, Own
  DEF Recorded, EarlyCallsFirst, TokensLast, DetailsOwnUp, NothingForgotten, HandedOut, Over,
      BeforeTokens
<1>9. StatusFits(l)'
  BY <1>2, <1>5, <1>6, Own DEF StatusFits, BeforeTokens
<1> QED
  BY <1>1, <1>7, <1>8, <1>9 DEF StepOf, LookupInv

LEMMA EarlyCallFailsStep ==
    ASSUME EnrichmentInv, NEW l \in Lookups, NEW c \in Early, EarlyCallFails(l, c)
    PROVE  StepOf(l)
<1> DEFINE r == [run[l] EXCEPT !.wire = @ \ {c}]
           p == [partial[l] EXCEPT !.failure = TRUE]
<1>1. /\ c \in run[l].wire
      /\ run' = [run EXCEPT ![l] = r] /\ partial' = [partial EXCEPT ![l] = p]
      /\ UNCHANGED <<outcome, returned>>
  BY Own DEF EarlyCallFails, OwnTyped, Runs, Collected
<1>2. run[l].stage = "calling"
  BY <1>1, Own DEF EarlyCallsFirst
<1>4. r \in Runs /\ p \in Collected
  BY Own DEF Runs, Collected
<1>5. run'[l] = r /\ partial'[l] = p
  BY <1>1, Own DEF OwnTyped
<1>6. /\ r.stage = run[l].stage /\ r.wire = run[l].wire \ {c} /\ r.receipt = run[l].receipt
      /\ r.tx = run[l].tx /\ r.due = run[l].due /\ r.batch = run[l].batch
      /\ r.todo = run[l].todo /\ r.known = run[l].known
      /\ p.receipt = partial[l].receipt /\ p.tx = partial[l].tx /\ p.status = partial[l].status
      /\ p.known = partial[l].known
  BY Own DEF Runs, Collected
<1> HIDE DEF r, p
<1>7. OwnTyped' /\ \A m \in Lookups \ {l} : Untouched(m)
  BY <1>1, <1>4, Own DEF OwnTyped, Untouched
<1>8. Recorded(l)' /\ EarlyCallsFirst(l)' /\ TokensLast(l)' /\ DetailsOwnUp(l)'
        /\ NothingForgotten(l)' /\ StatusFits(l)'
  BY <1>2, <1>5, <1>6, Own
  DEF Recorded, EarlyCallsFirst, TokensLast, DetailsOwnUp, NothingForgotten, StatusFits,
      BeforeTokens
<1>9. HandedOut(l)'
  BY <1>1, <1>2, <1>5, <1>6, Own DEF HandedOut, Over
<1>10. Over(l) => Kept(l)
  BY <1>1, <1>5, <1>6 DEF Kept
<1> QED
  BY <1>7, <1>8, <1>9, <1>10 DEF StepOf, LookupInv

\* The status is settled and the first batch is due.
LEMMA DetailStep ==
    ASSUME EnrichmentInv, NEW l \in Lookups, NEW receipt \in Receipts \cup {"none"},
           run[l].stage \in BeforeTokens, ~Over(l), Detail(l, receipt),
           UNCHANGED <<outcome, returned>>
    PROVE  StepOf(l)
<1> DEFINE tx == run[l].tx
           status == SettledStatus(l, receipt)
           tokens == IF receipt = "none" THEN <<>> ELSE Mentions[l]
           failure == partial[l].failure \/ (receipt = "none" /\ tx = "mined")
           wire == (IF tx # "none" \/ receipt # "none" THEN {"code"} ELSE {})
                     \cup (IF tx = "mined" \/ (receipt # "none" /\ tx # "zero")
                           THEN {"block"} ELSE {})
           due == First(tokens, BatchSize)
           todo == Rest(tokens, BatchSize)
           r == [run[l] EXCEPT !.stage = "detailing", !.receipt = receipt, !.wire = wire,
                               !.due = due, !.todo = todo]
           p == [partial[l] EXCEPT !.receipt = receipt, !.tx = tx, !.status = status,
                                   !.failure = failure]
<1>1. run' = [run EXCEPT ![l] = r] /\ partial' = [partial EXCEPT ![l] = p]
  BY Own DEF Detail, OwnTyped, Runs, Collected
<1>2. /\ run[l].known = NoToken /\ partial[l].known = NoToken /\ run[l].batch = {}
  BY Own DEF TokensLast
<1>3. /\ StatusOf(receipt) \in Statuses /\ StatusOf(receipt) # "pending"
      /\ status \in Statuses /\ failure \in BOOLEAN
      /\ receipt # "none" => status = StatusOf(receipt)
      /\ receipt = "none" => status \in {"unknown", "pending"}
      /\ status = "pending" => tx = "pool"
  BY Assumed, Own DEF SettledStatus, StatusOf, Statuses, Collected
<1>4. /\ tokens \in Seq(Tokens)
      /\ due \in Seq(Tokens) /\ todo \in Seq(Tokens)
      /\ receipt = "none" => due = <<>> /\ todo = <<>>
      /\ receipt # "none" => \A t : Among(t, Mentions[l]) => Among(t, due) \/ Among(t, todo)
  <2>1. tokens \in Seq(Tokens)
    BY Assumed, EmptySeq
  <2>2. BatchSize \in Nat /\ BatchSize # 0
    BY Assumed
  <2>3. /\ receipt = "none" => tokens = <<>>
        /\ receipt # "none" => tokens = Mentions[l]
    OBVIOUS
  <2> HIDE DEF tokens
  <2>4. /\ due \in Seq(Tokens) /\ todo \in Seq(Tokens)
        /\ tokens = <<>> => due = <<>> /\ todo = <<>>
        /\ \A t : Among(t, tokens) <=> Among(t, due) \/ Among(t, todo)
    BY <2>1, <2>2, FirstAndRest
  <2> HIDE DEF due, todo
  <2> QED
    BY <2>1, <2>3, <2>4
<1>5. wire \in SUBSET {"receipt", "tx", "retry", "code", "block"} /\ wire \cap Early = {}
  BY DEF Early
<1>6. OwnsUp([receipt |-> receipt, tx |-> tx, status |-> status, failure |-> failure])
  BY DEF OwnsUp, SettledStatus
<1>7. tx \in TxKinds
  BY Own DEF Runs
<1> HIDE DEF tx, status, tokens, failure, wire, due, todo
<1>16. r \in Runs
  BY <1>4, <1>5, Own DEF Runs, Stages
<1>17. p \in Collected
  BY <1>3, <1>7, Own DEF Collected
<1>9. run'[l] = r /\ partial'[l] = p
  BY <1>1, Own DEF OwnTyped
<1>10. /\ r.stage = "detailing" /\ r.wire = wire /\ r.receipt = receipt
       /\ r.tx = tx /\ r.due = due /\ r.batch = {}
       /\ r.todo = todo /\ r.known = NoToken
       /\ p.receipt = receipt /\ p.tx = tx /\ p.status = status /\ p.failure = failure
       /\ p.known = NoToken
  BY <1>2, Own DEF Runs, Collected, tx
<1> HIDE DEF r, p
<1>11. OwnTyped' /\ \A m \in Lookups \ {l} : Untouched(m)
  BY <1>1, <1>16, <1>17, Own DEF OwnTyped, Untouched
<1>12. Recorded(l)' /\ EarlyCallsFirst(l)' /\ TokensLast(l)' /\ StatusFits(l)'
  BY <1>3, <1>4, <1>5, <1>9, <1>10 DEF Recorded, EarlyCallsFirst, TokensLast, StatusFits, BeforeTokens
<1>13. DetailsOwnUp(l)'
  BY <1>6, <1>9, <1>10 DEF DetailsOwnUp, OwnsUp
<1>14. NothingForgotten(l)'
  BY <1>4, <1>9, <1>10 DEF NothingForgotten, Pending, Among
<1>15. HandedOut(l)'
  BY Own DEF HandedOut, Over
<1> QED
  BY <1>11, <1>12, <1>13, <1>14, <1>15 DEF StepOf, LookupInv

LEMMA AssessStep ==
    ASSUME EnrichmentInv, NEW l \in Lookups, Assess(l) PROVE StepOf(l)
<1>1. run[l].stage = "calling" /\ run[l].wire = {} /\ UNCHANGED <<outcome, returned>>
  BY DEF Assess
<1>2. CASE Over(l) \/ (run[l].receipt = "none" /\ run[l].tx = "mined")
  <2> DEFINE s == IF Over(l) THEN "failed" ELSE "lagging"
             r == [run[l] EXCEPT !.stage = s]
  <2>1. run' = [run EXCEPT ![l] = r] /\ partial' = partial
    BY <1>2 DEF Assess
  <2>2. s \in {"failed", "lagging"}
    OBVIOUS
  <2>3. run[l].due = <<>> /\ (Over(l) => s = "failed")
    BY <1>1, Own DEF TokensLast, BeforeTokens
  <2> HIDE DEF s
  <2>4. r \in Runs
    BY <2>2, Own DEF Runs, Stages
  <2>5. run'[l] = r
    BY <2>1, Own DEF OwnTyped
  <2>6. /\ r.stage = s /\ r.wire = run[l].wire /\ r.receipt = run[l].receipt
        /\ r.tx = run[l].tx /\ r.due = run[l].due /\ r.batch = run[l].batch
        /\ r.todo = run[l].todo /\ r.known = run[l].known
    BY Own DEF Runs
  <2> HIDE DEF r
  <2>7. OwnTyped' /\ \A m \in Lookups \ {l} : Untouched(m)
    BY <1>1, <2>1, <2>4, Own DEF OwnTyped, Untouched
  <2>8. Recorded(l)' /\ EarlyCallsFirst(l)' /\ TokensLast(l)' /\ DetailsOwnUp(l)'
          /\ NothingForgotten(l)' /\ StatusFits(l)' /\ HandedOut(l)'
    BY <1>1, <2>1, <2>2, <2>5, <2>6, Own
    DEF Recorded, EarlyCallsFirst, TokensLast, DetailsOwnUp, NothingForgotten, StatusFits,
        HandedOut, Over, BeforeTokens
  <2>9. Over(l) => Kept(l)
    BY <1>1, <2>1, <2>5, <2>6 DEF Kept
  <2> QED
    BY <2>7, <2>8, <2>9 DEF StepOf, LookupInv
<1>3. CASE ~(Over(l) \/ (run[l].receipt = "none" /\ run[l].tx = "mined"))
  <2>1. Detail(l, run[l].receipt) /\ ~Over(l) /\ run[l].receipt \in Receipts \cup {"none"}
    BY <1>3, Own DEF Assess, Runs
  <2>2. run[l].stage \in BeforeTokens
    BY <1>1 DEF BeforeTokens
  <2> QED
    BY <1>1, <2>1, <2>2, DetailStep
<1> QED
  BY <1>2, <1>3

LEMMA RetryStep ==
    ASSUME EnrichmentInv, NEW l \in Lookups, Retry(l) PROVE StepOf(l)
<1> DEFINE s == IF Over(l) THEN "failed" ELSE "retrying"
           w == IF Over(l) THEN run[l].wire ELSE {"retry"}
           r == [run[l] EXCEPT !.stage = s, !.wire = w]
<1>1. /\ run[l].stage = "lagging" /\ UNCHANGED <<partial, outcome, returned>>
      /\ run' = [run EXCEPT ![l] = IF Over(l) THEN [run[l] EXCEPT !.stage = "failed"]
                                   ELSE [run[l] EXCEPT !.stage = "retrying", !.wire = {"retry"}]]
  BY DEF Retry
<1>2. run' = [run EXCEPT ![l] = r]
  <2>1. CASE Over(l)
    <3>1. [run[l] EXCEPT !.stage = "failed"] = [run[l] EXCEPT !.stage = "failed", !.wire = run[l].wire]
      BY Own DEF Runs
    <3> QED
      BY <1>1, <2>1, <3>1
  <2>2. CASE ~Over(l)
    BY <1>1, <2>2
  <2> QED
    BY <2>1, <2>2
<1>3. /\ s \in {"failed", "retrying"} /\ w \in SUBSET {"receipt", "tx", "retry", "code", "block"}
      /\ Over(l) => w = run[l].wire
      /\ w \cap Early = {}
  BY <1>1, Own DEF Runs, Early, EarlyCallsFirst
<1>4. run[l].due = <<>> /\ (Over(l) => s = "failed")
  BY <1>1, Own DEF TokensLast, BeforeTokens
<1> HIDE DEF s, w
<1>5. r \in Runs
  BY <1>3, Own DEF Runs, Stages
<1>6. run'[l] = r
  BY <1>2, Own DEF OwnTyped
<1>7. /\ r.stage = s /\ r.wire = w /\ r.receipt = run[l].receipt
      /\ r.tx = run[l].tx /\ r.due = run[l].due /\ r.batch = run[l].batch
      /\ r.todo = run[l].todo /\ r.known = run[l].known
  BY Own DEF Runs
<1> HIDE DEF r
<1>8. OwnTyped' /\ \A m \in Lookups \ {l} : Untouched(m)
  BY <1>1, <1>2, <1>5, Own DEF OwnTyped, Untouched
<1>9. Recorded(l)' /\ EarlyCallsFirst(l)' /\ TokensLast(l)' /\ DetailsOwnUp(l)'
        /\ NothingForgotten(l)' /\ StatusFits(l)' /\ HandedOut(l)'
  BY <1>1, <1>3, <1>6, <1>7, Own
  DEF Recorded, EarlyCallsFirst, TokensLast, DetailsOwnUp, NothingForgotten, StatusFits,
      HandedOut, Over, BeforeTokens
<1>10. Over(l) => Kept(l)
  BY <1>1, <1>3, <1>6, <1>7 DEF Kept
<1> QED
  BY <1>8, <1>9, <1>10 DEF StepOf, LookupInv

LEMMA RetryAnswersStep ==
    ASSUME EnrichmentInv, NEW l \in Lookups, NEW receipt \in Receipts \cup {"none"},
           RetryAnswers(l, receipt)
    PROVE  StepOf(l)
<1>1. /\ run[l].stage = "retrying" /\ ~Over(l) /\ Detail(l, receipt)
      /\ UNCHANGED <<outcome, returned>>
  BY DEF RetryAnswers
<1>2. run[l].stage \in BeforeTokens
  BY <1>1 DEF BeforeTokens
<1> QED
  BY <1>1, <1>2, DetailStep

\* Handing out what was collected, of a lookup that is not over.
LEMMA CutHandsOut ==
    ASSUME EnrichmentInv, NEW l \in Lookups, Cut(l), run[l].due = <<>>
    PROVE  /\ outcome' \in [Lookups -> {"none", "whole", "cut"}]
           /\ returned' \in [Lookups -> Collected]
           /\ \A m \in Lookups \ {l} : outcome'[m] = outcome[m] /\ returned'[m] = returned[m]
           /\ outcome'[l] = "cut" /\ returned'[l].failure
           /\ returned'[l].receipt = partial[l].receipt /\ returned'[l].tx = partial[l].tx
           /\ returned'[l].status = partial[l].status
<1> DEFINE g == [partial[l] EXCEPT !.failure = TRUE]
<1>1. /\ outcome' = [outcome EXCEPT ![l] = "cut"]
      /\ returned' = [returned EXCEPT ![l] = g]
  BY DEF Cut
<1>2. g \in Collected /\ g.failure /\ g.receipt = partial[l].receipt /\ g.tx = partial[l].tx
        /\ g.status = partial[l].status
  BY Own DEF Collected
<1> HIDE DEF g
<1> QED
  BY <1>1, <1>2, Own DEF OwnTyped

LEMMA RetryFailsStep ==
    ASSUME EnrichmentInv, NEW l \in Lookups, RetryFails(l) PROVE StepOf(l)
<1> DEFINE r == [run[l] EXCEPT !.stage = "failed", !.wire = {}]
<1>1. /\ run[l].stage = "retrying" /\ partial' = partial
      /\ run' = [run EXCEPT ![l] = r]
      /\ IF Over(l) THEN UNCHANGED <<outcome, returned>> ELSE Cut(l)
  BY DEF RetryFails
<1>2. run[l].due = <<>>
  BY <1>1, Own DEF TokensLast, BeforeTokens
<1>3. r \in Runs
  BY Own DEF Runs, Stages
<1>4. run'[l] = r
  BY <1>1, Own DEF OwnTyped
<1>5. /\ r.stage = "failed" /\ r.wire = {} /\ r.receipt = run[l].receipt
      /\ r.tx = run[l].tx /\ r.due = run[l].due /\ r.batch = run[l].batch
      /\ r.todo = run[l].todo /\ r.known = run[l].known
  BY Own DEF Runs
<1> HIDE DEF r
<1>6. run' \in [Lookups -> Runs] /\ \A m \in Lookups \ {l} : run'[m] = run[m]
  BY <1>1, <1>3, Own DEF OwnTyped
<1>7. Recorded(l)' /\ EarlyCallsFirst(l)' /\ TokensLast(l)' /\ DetailsOwnUp(l)'
        /\ NothingForgotten(l)' /\ StatusFits(l)'
  BY <1>1, <1>4, <1>5, Own
  DEF Recorded, EarlyCallsFirst, TokensLast, DetailsOwnUp, NothingForgotten, StatusFits,
      BeforeTokens
<1>8. CASE Over(l)
  <2>1. OwnTyped' /\ \A m \in Lookups \ {l} : Untouched(m)
    BY <1>1, <1>6, <1>8, Own DEF OwnTyped, Untouched
  <2>2. HandedOut(l)' /\ Kept(l)
    BY <1>1, <1>2, <1>4, <1>5, <1>8, Own DEF HandedOut, Over, Kept
  <2> QED
    BY <1>7, <2>1, <2>2 DEF StepOf, LookupInv
<1>9. CASE ~Over(l)
  <2>1. Cut(l)
    BY <1>1, <1>9
  <2>2. OwnTyped' /\ \A m \in Lookups \ {l} : Untouched(m)
    BY <1>1, <1>2, <1>6, <2>1, CutHandsOut, Own DEF OwnTyped, Untouched
  <2>3. HandedOut(l)'
    BY <1>1, <1>2, <1>4, <1>5, <2>1, CutHandsOut DEF HandedOut, Over
  <2> QED
    BY <1>7, <1>9, <2>2, <2>3 DEF StepOf, LookupInv
<1> QED
  BY <1>8, <1>9

LEMMA DetailCallEndsStep ==
    ASSUME EnrichmentInv, NEW l \in Lookups, NEW c, DetailCallEnds(l, c) PROVE StepOf(l)
<1> DEFINE r == [run[l] EXCEPT !.wire = @ \ {c}]
<1>1. run' = [run EXCEPT ![l] = r] /\ UNCHANGED <<partial, outcome, returned>>
  BY DEF DetailCallEnds
<1>2. r \in Runs
  BY Own DEF Runs
<1>3. run'[l] = r
  BY <1>1, Own DEF OwnTyped
<1>4. /\ r.stage = run[l].stage /\ r.wire = run[l].wire \ {c} /\ r.receipt = run[l].receipt
      /\ r.tx = run[l].tx /\ r.due = run[l].due /\ r.batch = run[l].batch
      /\ r.todo = run[l].todo /\ r.known = run[l].known
  BY Own DEF Runs
<1> HIDE DEF r
<1>5. OwnTyped' /\ \A m \in Lookups \ {l} : Untouched(m)
  BY <1>1, <1>2, Own DEF OwnTyped, Untouched
<1>6. Recorded(l)' /\ EarlyCallsFirst(l)' /\ TokensLast(l)' /\ DetailsOwnUp(l)' /\ StatusFits(l)'
  BY <1>1, <1>3, <1>4, Own
  DEF Recorded, EarlyCallsFirst, TokensLast, DetailsOwnUp, StatusFits, OwnsUp
<1>7. NothingForgotten(l)' /\ HandedOut(l)'
  BY <1>1, <1>3, <1>4, Own DEF NothingForgotten, Pending, Among, HandedOut, Over, OwnsUp
<1>8. Over(l) => Kept(l)
  BY <1>1, <1>3, <1>4 DEF Kept
<1> QED
  BY <1>5, <1>6, <1>7, <1>8 DEF StepOf, LookupInv

\* A token that was due is in the batch; the lookup is not over, and has a receipt.
LEMMA AskForTokenStep ==
    ASSUME EnrichmentInv, NEW l \in Lookups, AskForToken(l) PROVE StepOf(l) /\ ~Over(l)
<1> DEFINE h == Head(run[l].due)
           s == Tail(run[l].due)
           r == [run[l] EXCEPT !.due = s, !.batch = @ \cup {h}]
<1>1. run[l].due # <<>> /\ run' = [run EXCEPT ![l] = r] /\ UNCHANGED <<partial, outcome, returned>>
  BY DEF AskForToken
<1>2. ~Over(l) /\ run[l].receipt # "none" /\ run[l].stage \notin BeforeTokens
  BY <1>1, Own DEF HandedOut, TokensLast
<1>3. /\ h \in Tokens /\ s \in Seq(Tokens)
      /\ \A t : Among(t, run[l].due) => t = h \/ Among(t, s)
  BY <1>1, Own, HeadAndTail DEF Runs
<1> HIDE DEF h, s
<1>4. r \in Runs
  BY <1>3, Own DEF Runs
<1>5. run'[l] = r
  BY <1>1, Own DEF OwnTyped
<1>6. /\ r.stage = run[l].stage /\ r.wire = run[l].wire /\ r.receipt = run[l].receipt
      /\ r.tx = run[l].tx /\ r.due = s /\ r.batch = run[l].batch \cup {h}
      /\ r.todo = run[l].todo /\ r.known = run[l].known
  BY Own DEF Runs
<1> HIDE DEF r
<1>7. OwnTyped' /\ \A m \in Lookups \ {l} : Untouched(m)
  BY <1>1, <1>4, Own DEF OwnTyped, Untouched
<1>8. Recorded(l)' /\ EarlyCallsFirst(l)' /\ TokensLast(l)' /\ DetailsOwnUp(l)' /\ StatusFits(l)'
        /\ HandedOut(l)'
  BY <1>1, <1>2, <1>5, <1>6, Own
  DEF Recorded, EarlyCallsFirst, TokensLast, DetailsOwnUp, StatusFits, OwnsUp, HandedOut, Over
<1>9. NothingForgotten(l)'
  <2> SUFFICES ASSUME run[l].stage = "detailing", NEW i \in DOMAIN Mentions[l]
               PROVE  Pending(l, Mentions[l][i])'
    BY <1>5, <1>6 DEF NothingForgotten
  <2>1. Pending(l, Mentions[l][i])
    BY <1>2, Own DEF NothingForgotten
  <2>2. \A t : Pending(l, t) => Pending(l, t)'
    BY <1>3, <1>5, <1>6 DEF Pending, Among
  <2> QED
    BY <2>1, <2>2 DEF Pending, Among
<1> QED
  BY <1>2, <1>7, <1>8, <1>9 DEF StepOf, LookupInv

\* A batch that has been served adds to what is known, and no token gets lost between
\* it and the next.
LEMMA BatchEndsStep ==
    ASSUME EnrichmentInv, NEW l \in Lookups, BatchEnds(l) PROVE StepOf(l)
<1> DEFINE known == WithBatch(l, run[l].known)
           shared == IF Over(l) THEN partial[l].known ELSE WithBatch(l, partial[l].known)
           s == IF run[l].todo # <<>> /\ Over(l) THEN "failed" ELSE run[l].stage
           due == IF Over(l) THEN <<>> ELSE First(run[l].todo, BatchSize)
           todo == IF Over(l) THEN <<>> ELSE Rest(run[l].todo, BatchSize)
           r == [run[l] EXCEPT !.known = known, !.batch = {}, !.stage = s, !.due = due, !.todo = todo]
           p == [partial[l] EXCEPT !.known = shared]
<1>1. /\ Idle /\ BatchServed(l) /\ UNCHANGED <<outcome, returned>>
      /\ run' = [run EXCEPT ![l] = r] /\ partial' = [partial EXCEPT ![l] = p]
  BY DEF BatchEnds
<1>2. /\ run[l].batch # {} /\ run[l].due = <<>>
      /\ run[l].receipt # "none" /\ run[l].stage \notin BeforeTokens
  BY <1>1, Own DEF BatchServed, Idle, TokensLast
<1>3. /\ run[l].todo \in Seq(Tokens) /\ run[l].known \in KnownTokens
      /\ partial[l].known \in KnownTokens /\ run[l].batch \in SUBSET Tokens
      /\ run[l].stage \in Stages
  BY Own DEF Runs, Collected
<1>4. \A t \in run[l].batch : got[<<l, t>>] \in Metadata!Qualities
  <2>1. \A t \in run[l].batch : <<l, t>> \in Lookups \X Tokens /\ call[<<l, t>>] = "served"
    BY <1>1, <1>3 DEF BatchServed
  <2> QED
    BY <2>1, Own DEF MetadataInv, MetadataCalls
<1>5. known \in KnownTokens /\ shared \in KnownTokens
  BY <1>3, <1>4 DEF KnownTokens, WithBatch
<1>6. \A t \in Tokens : t \in run[l].batch \/ run[l].known[t] # Metadata!Nothing =>
                           known[t] # Metadata!Nothing
  BY <1>3, <1>4 DEF WithBatch, Metadata!Qualities, Metadata!Nothing
<1>7. /\ due \in Seq(Tokens) /\ todo \in Seq(Tokens)
      /\ Over(l) => due = <<>>
      /\ ~Over(l) \/ run[l].todo = <<>> =>
            \A t : Among(t, run[l].todo) => Among(t, due) \/ Among(t, todo)
  <2>1. BatchSize \in Nat /\ BatchSize # 0 /\ <<>> \in Seq(Tokens)
    BY Assumed, EmptySeq
  <2>2. \A t : ~Among(t, <<>>)
    BY DEF Among
  <2> QED
    BY <1>3, <2>1, <2>2, FirstAndRest
<1>8. /\ s \in Stages \ BeforeTokens
      /\ s = "detailing" => run[l].stage = "detailing" /\ (~Over(l) \/ run[l].todo = <<>>)
  BY <1>2, <1>3 DEF Stages, BeforeTokens
<1>9. Over(l) => shared = partial[l].known
  OBVIOUS
<1> HIDE DEF known, shared, s, due, todo
<1>10. r \in Runs /\ p \in Collected
  <2>1. r \in Runs
    BY <1>5, <1>7, <1>8, Own DEF Runs
  <2>2. p \in Collected
    BY <1>5, Own DEF Collected
  <2> QED
    BY <2>1, <2>2
<1>11. run'[l] = r /\ partial'[l] = p
  BY <1>1, Own DEF OwnTyped
<1>12. /\ r.stage = s /\ r.wire = run[l].wire /\ r.receipt = run[l].receipt
       /\ r.tx = run[l].tx /\ r.due = due /\ r.batch = {}
       /\ r.todo = todo /\ r.known = known
       /\ p.receipt = partial[l].receipt /\ p.tx = partial[l].tx /\ p.status = partial[l].status
       /\ p.failure = partial[l].failure /\ p.known = shared
  BY Own DEF Runs, Collected
<1> HIDE DEF r, p
<1>13. OwnTyped' /\ \A m \in Lookups \ {l} : Untouched(m)
  BY <1>1, <1>10, Own DEF OwnTyped, Untouched
<1>14. Recorded(l)' /\ EarlyCallsFirst(l)' /\ TokensLast(l)' /\ DetailsOwnUp(l)' /\ StatusFits(l)'
  BY <1>2, <1>8, <1>11, <1>12, Own
  DEF Recorded, EarlyCallsFirst, TokensLast, DetailsOwnUp, StatusFits, OwnsUp, BeforeTokens
<1>15. HandedOut(l)'
  BY <1>1, <1>7, <1>8, <1>11, <1>12, Own DEF HandedOut, Over, BeforeTokens
<1>16. NothingForgotten(l)'
  <2> SUFFICES ASSUME s = "detailing", NEW i \in DOMAIN Mentions[l]
               PROVE  Pending(l, Mentions[l][i])'
    BY <1>11, <1>12 DEF NothingForgotten
  <2>1. Pending(l, Mentions[l][i])
    BY <1>2, <1>8, Own DEF NothingForgotten
  <2>2. Mentions[l][i] \in Tokens
    <3>1. Mentions[l] \in Seq(Tokens)
      BY Assumed
    <3> QED
      BY <3>1, LenProperties, ElementOfSeq
  <2>3. ~Among(Mentions[l][i], run[l].due)
    BY <1>2 DEF Among
  <2>4. Mentions[l][i] \in run[l].batch \/ run[l].known[Mentions[l][i]] # Metadata!Nothing
          \/ Among(Mentions[l][i], run[l].todo)
    BY <2>1, <2>3 DEF Pending
  <2>5. known[Mentions[l][i]] # Metadata!Nothing
          \/ Among(Mentions[l][i], due) \/ Among(Mentions[l][i], todo)
    BY <1>6, <1>7, <1>8, <2>2, <2>4
  <2> QED
    BY <1>11, <1>12, <2>5 DEF Pending, Among
<1>17. Over(l) => Kept(l)
  BY <1>1, <1>9, <1>11, <1>12 DEF Kept
<1> QED
  BY <1>13, <1>14, <1>15, <1>16, <1>17 DEF StepOf, LookupInv

LEMMA FinishStep ==
    ASSUME EnrichmentInv, NEW l \in Lookups, Finish(l) PROVE StepOf(l)
<1> DEFINE r == [run[l] EXCEPT !.stage = "done"]
           g == [receipt |-> run[l].receipt, tx |-> run[l].tx, status |-> partial[l].status,
                 failure |-> partial[l].failure, known |-> run[l].known]
<1>1. /\ Idle /\ run[l].stage = "detailing" /\ run[l].due = <<>>
      /\ run[l].wire = {} /\ run[l].batch = {} /\ run[l].todo = <<>>
      /\ run' = [run EXCEPT ![l] = r] /\ partial' = partial
      /\ IF Over(l) THEN UNCHANGED <<outcome, returned>>
         ELSE /\ outcome' = [outcome EXCEPT ![l] = "whole"]
              /\ returned' = [returned EXCEPT ![l] = g]
  BY DEF Finish, Idle
<1>2. r \in Runs /\ g \in Collected
  BY Own DEF Runs, Stages, Collected
<1>3. run'[l] = r
  BY <1>1, Own DEF OwnTyped
<1>4. /\ r.stage = "done" /\ r.wire = {} /\ r.receipt = run[l].receipt
      /\ r.tx = run[l].tx /\ r.due = run[l].due /\ r.batch = run[l].batch
      /\ r.todo = run[l].todo /\ r.known = run[l].known
  BY <1>1, Own DEF Runs
<1>5. /\ g.receipt = partial[l].receipt /\ g.tx = partial[l].tx /\ g.status = partial[l].status
      /\ g.failure = partial[l].failure /\ g.known = run[l].known
      /\ run[l].receipt = partial[l].receipt
  BY Own DEF Recorded
<1>6. /\ OwnsUp(g)
      /\ g.receipt = "none" => g.known = NoToken
      /\ g.receipt # "none" =>
            \A i \in DOMAIN Mentions[l] : g.known[Mentions[l][i]] # Metadata!Nothing
  <2>1. OwnsUp(g)
    BY <1>1, <1>5, Own DEF DetailsOwnUp, OwnsUp
  <2>2. g.receipt = "none" => g.known = NoToken
    BY <1>5, Own DEF TokensLast
  <2>3. \A t : ~Among(t, run[l].due) /\ ~Among(t, run[l].todo)
    BY <1>1 DEF Among
  <2> QED
    BY <1>1, <1>5, <2>1, <2>2, <2>3, Own DEF NothingForgotten, Pending
<1> HIDE DEF r, g
<1>7. run' \in [Lookups -> Runs] /\ \A m \in Lookups \ {l} : run'[m] = run[m]
  BY <1>1, <1>2, Own DEF OwnTyped
<1>8. Recorded(l)' /\ EarlyCallsFirst(l)' /\ TokensLast(l)' /\ DetailsOwnUp(l)'
        /\ NothingForgotten(l)' /\ StatusFits(l)'
  BY <1>1, <1>3, <1>4, Own
  DEF Recorded, EarlyCallsFirst, TokensLast, DetailsOwnUp, NothingForgotten, StatusFits,
      BeforeTokens
<1>9. CASE Over(l)
  <2>1. OwnTyped' /\ \A m \in Lookups \ {l} : Untouched(m)
    BY <1>1, <1>7, <1>9, Own DEF OwnTyped, Untouched
  <2>2. HandedOut(l)' /\ Kept(l)
    BY <1>1, <1>3, <1>4, <1>9, Own DEF HandedOut, Over, Kept
  <2> QED
    BY <1>8, <2>1, <2>2 DEF StepOf, LookupInv
<1>10. CASE ~Over(l)
  <2>1. outcome' = [outcome EXCEPT ![l] = "whole"] /\ returned' = [returned EXCEPT ![l] = g]
    BY <1>1, <1>10
  <2>2. OwnTyped' /\ \A m \in Lookups \ {l} : Untouched(m)
    BY <1>1, <1>2, <1>7, <2>1, Own DEF OwnTyped, Untouched
  <2>3. outcome'[l] = "whole" /\ returned'[l] = g
    BY <2>1, Own DEF OwnTyped
  <2>4. HandedOut(l)'
    BY <1>1, <1>3, <1>4, <1>5, <1>6, <2>3 DEF HandedOut, Over
  <2> QED
    BY <1>8, <1>10, <2>2, <2>4 DEF StepOf, LookupInv
<1> QED
  BY <1>9, <1>10

LEMMA DeadlineStep ==
    ASSUME EnrichmentInv, NEW l \in Lookups, Deadline(l) PROVE StepOf(l)
<1>1. /\ run[l].due = <<>> /\ run[l].stage # "new" /\ ~Over(l) /\ Cut(l)
      /\ run' = run /\ partial' = partial
  BY DEF Deadline, Idle
<1>2. OwnTyped' /\ \A m \in Lookups \ {l} : Untouched(m)
  BY <1>1, CutHandsOut, Own DEF OwnTyped, Untouched
<1>3. Recorded(l)' /\ EarlyCallsFirst(l)' /\ TokensLast(l)' /\ DetailsOwnUp(l)'
        /\ NothingForgotten(l)' /\ StatusFits(l)'
  BY <1>1, Own
  DEF Recorded, EarlyCallsFirst, TokensLast, DetailsOwnUp, NothingForgotten, StatusFits,
      OwnsUp, Pending, Among
<1>4. HandedOut(l)'
  BY <1>1, CutHandsOut DEF HandedOut, Over
<1> QED
  BY <1>1, <1>2, <1>3, <1>4 DEF StepOf, LookupInv

-----------------------------------------------------------------------------
(* Every step: one lookup moves and the cache rests, or moves as it may.     *)

\* The steps of a lookup that leave the metadata alone: all but asking for a token.
OwnStep(l) ==
    Begin(l) \/ Call(l) \/ Assess(l) \/ Retry(l) \/ BatchEnds(l) \/ Finish(l) \/ Deadline(l)

LEMMA OwnStepIsAStep ==
    ASSUME EnrichmentInv, NEW l \in Lookups, OwnStep(l)
    PROVE  StepOf(l) /\ UNCHANGED metadataVars
<1>1. CASE Begin(l)
  BY <1>1, BeginStep DEF Begin
<1>2. CASE Call(l)
  <2>1. ASSUME NEW r \in Receipts \cup {"none"}, ReceiptAnswers(l, r)
        PROVE  StepOf(l) /\ UNCHANGED metadataVars
    BY <2>1, ReceiptAnswersStep DEF ReceiptAnswers
  <2>2. ASSUME NEW r \in Receipts \cup {"none"}, RetryAnswers(l, r)
        PROVE  StepOf(l) /\ UNCHANGED metadataVars
    BY <2>2, RetryAnswersStep DEF RetryAnswers
  <2>3. ASSUME NEW x \in Sightings, TxAnswers(l, x)
        PROVE  StepOf(l) /\ UNCHANGED metadataVars
    BY <2>3, TxAnswersStep DEF TxAnswers
  <2>4. ASSUME NEW c, EarlyCallFails(l, c) PROVE StepOf(l) /\ UNCHANGED metadataVars
    BY <2>4, EarlyCallFailsStep DEF EarlyCallFails
  <2>5. ASSUME NEW c, DetailCallEnds(l, c) PROVE StepOf(l) /\ UNCHANGED metadataVars
    BY <2>5, DetailCallEndsStep DEF DetailCallEnds
  <2>6. CASE RetryFails(l)
    BY <2>6, RetryFailsStep DEF RetryFails
  <2> QED
    BY <1>2, <2>1, <2>2, <2>3, <2>4, <2>5, <2>6 DEF Call
<1>3. CASE Assess(l)
  BY <1>3, AssessStep DEF Assess
<1>4. CASE Retry(l)
  BY <1>4, RetryStep DEF Retry
<1>5. CASE BatchEnds(l)
  BY <1>5, BatchEndsStep DEF BatchEnds
<1>6. CASE Finish(l)
  BY <1>6, FinishStep DEF Finish
<1>7. CASE Deadline(l)
  BY <1>7, DeadlineStep DEF Deadline
<1> QED
  BY <1>1, <1>2, <1>3, <1>4, <1>5, <1>6, <1>7 DEF OwnStep

\* What a step comes to: the invariant again, nothing new from a lookup that is over,
\* and for the cache a step of its own or none.
NothingNew(l) == Kept(l) /\ \A t \in Tokens : call'[<<l, t>>] = "new" <=> call[<<l, t>>] = "new"

GoodStep ==
    /\ EnrichmentInv'
    /\ \A l \in Lookups : Over(l) => NothingNew(l)
    /\ [Metadata!Next]_metadataVars

LEMMA LookupMoves ==
    ASSUME EnrichmentInv, NEW l \in Lookups, StepOf(l), MetadataInv'
    PROVE  EnrichmentInv' /\ \A m \in Lookups : Over(m) => Kept(m)
<1>1. ASSUME NEW m \in Lookups \ {l} PROVE LookupInv(m)' /\ Kept(m)
  BY UntouchedInv DEF StepOf, EnrichmentInv
<1>2. TypeOK' /\ MetadataCalls'
  BY DEF StepOf, OwnTyped, MetadataInv, TypeOK
<1> QED
  BY <1>1, <1>2 DEF StepOf, EnrichmentInv

LEMMA MetadataMoves ==
    ASSUME EnrichmentInv, UNCHANGED <<run, partial, outcome, returned>>, MetadataInv'
    PROVE  EnrichmentInv' /\ \A m \in Lookups : Kept(m)
<1>1. ASSUME NEW m \in Lookups PROVE LookupInv(m)' /\ Kept(m)
  BY UntouchedInv DEF EnrichmentInv, Untouched
<1>2. TypeOK' /\ MetadataCalls'
  BY DEF MetadataInv, TypeOK, EnrichmentInv
<1> QED
  BY <1>1, <1>2 DEF EnrichmentInv

LEMMA EveryStepIsGood ==
    ASSUME EnrichmentInv, [Next]_vars PROVE GoodStep
<1>0. MetadataInv
  BY DEF EnrichmentInv, MetadataInv, TypeOK
<1>1. ASSUME NEW l \in Lookups, OwnStep(l) PROVE GoodStep
  <2>1. StepOf(l) /\ UNCHANGED metadataVars
    BY <1>1, OwnStepIsAStep
  <2>2. MetadataInv' /\ call' = call
    BY <1>0, <2>1, ClockMetadata
  <2> QED
    BY <2>1, <2>2, LookupMoves DEF GoodStep, NothingNew
<1>2. ASSUME NEW l \in Lookups, AskForToken(l) PROVE GoodStep
  <2> DEFINE c == <<l, Head(run[l].due)>>
  <2>1. StepOf(l) /\ ~Over(l)
    BY <1>2, AskForTokenStep
  <2>2. Metadata!Ask(c)
    BY <1>2 DEF AskForToken
  <2>3. c \in Lookups \X Tokens
    <3>1. run[l].due \in Seq(Tokens) /\ run[l].due # <<>>
      BY <1>2, Own DEF AskForToken, Runs
    <3> QED
      BY <3>1, HeadAndTail
  <2>4. MetadataInv' /\ \A d \in (Lookups \X Tokens) \ {c} : call'[d] = call[d]
    BY <1>0, <2>2, <2>3, AskMetadata
  <2>5. Metadata!Next
    BY <2>2, <2>3 DEF Metadata!Next
  <2>6. ASSUME NEW m \in Lookups, m # l, NEW t \in Tokens PROVE call'[<<m, t>>] = call[<<m, t>>]
    <3>1. <<m, t>> # c /\ <<m, t>> \in Lookups \X Tokens
      BY <2>6
    <3> QED
      BY <2>4, <3>1
  <2> QED
    BY <2>1, <2>4, <2>5, <2>6, LookupMoves DEF GoodStep, NothingNew
<1>3. ASSUME NEW l \in Lookups, NEW t \in Tokens, NEW q \in Fetchable, FetchEnds(l, t, q)
      PROVE  GoodStep
  <2>1. /\ Metadata!Land(<<l, t>>, q) /\ UNCHANGED <<run, partial, outcome, returned>>
        /\ q \in Metadata!Qualities /\ <<l, t>> \in Lookups \X Tokens
    BY <1>3, Assumed DEF FetchEnds
  <2>2. MetadataInv' /\ call' = call
    BY <1>0, <2>1, LandMetadata
  <2>3. Metadata!Next
    BY <2>1 DEF Metadata!Next
  <2> QED
    BY <2>1, <2>2, <2>3, MetadataMoves DEF GoodStep, NothingNew
<1>4. ASSUME NEW l \in Lookups, NEW t \in Tokens, FetchResumes(l, t) PROVE GoodStep
  <2>1. /\ Metadata!Resume(<<l, t>>) /\ UNCHANGED <<run, partial, outcome, returned>>
        /\ <<l, t>> \in Lookups \X Tokens
    BY <1>4 DEF FetchResumes
  <2>2. MetadataInv' /\ \A d \in Lookups \X Tokens : call'[d] = "new" <=> call[d] = "new"
    BY <1>0, <2>1, ResumeMetadata
  <2>3. Metadata!Next
    BY <2>1 DEF Metadata!Next
  <2> QED
    BY <2>1, <2>2, <2>3, MetadataMoves DEF GoodStep, NothingNew
<1>5. CASE Tick \/ UNCHANGED vars
  <2>1. /\ Metadata!Tick \/ UNCHANGED metadataVars
        /\ UNCHANGED <<run, partial, outcome, returned>>
    BY <1>5 DEF Tick, vars
  <2>2. MetadataInv' /\ call' = call
    BY <1>0, <2>1, ClockMetadata
  <2>3. [Metadata!Next]_metadataVars
    BY <2>1 DEF Metadata!Next
  <2> QED
    BY <2>1, <2>2, <2>3, MetadataMoves DEF GoodStep, NothingNew
<1> QED
  BY <1>1, <1>2, <1>3, <1>4, <1>5 DEF Next, Proceed, Fetch, OwnStep, Finished

LEMMA InitEnrichment == Init => EnrichmentInv
<1> SUFFICES ASSUME Init PROVE EnrichmentInv
  OBVIOUS
<1> DEFINE r == [stage |-> "new", wire |-> {}, receipt |-> "none", tx |-> "none",
                 known |-> NoToken, due |-> <<>>, batch |-> {}, todo |-> <<>>]
<1>1. NoToken \in KnownTokens
  BY DEF NoToken, KnownTokens
<1>2. r \in Runs /\ NothingYet \in Collected
  BY <1>1, EmptySeq DEF Runs, Stages, Collected, NothingYet, Statuses, TxKinds
<1>3. OwnTyped
  BY <1>2 DEF Init, OwnTyped
<1>4. Metadata!TypeOK /\ MetadataCalls
  BY EmptySeq DEF Init, Metadata!Init, Metadata!TypeOK, MetadataCalls
<1>5. ASSUME NEW l \in Lookups PROVE LookupInv(l)
  <2>1. run[l] = r /\ partial[l] = NothingYet /\ outcome[l] = "none"
    BY DEF Init
  <2> QED
    BY <2>1 DEF LookupInv, Recorded, StatusFits, EarlyCallsFirst, TokensLast, DetailsOwnUp,
                NothingForgotten, HandedOut, Over, NothingYet, BeforeTokens
<1> QED
  BY <1>3, <1>4, <1>5 DEF EnrichmentInv, TypeOK, OwnTyped

LEMMA NextEnrichment == EnrichmentInv /\ [Next]_vars => GoodStep
BY EveryStepIsGood

\* What the results below rest on holds throughout.
THEOREM EnrichmentInvHolds == Spec => []EnrichmentInv
<1>1. GoodStep => EnrichmentInv'
  BY DEF GoodStep
<1> QED
  BY InitEnrichment, NextEnrichment, <1>1, PTL DEF Spec

-----------------------------------------------------------------------------
(* What the caller is given.                                                 *)

\* What was handed out, as the caller sees it now: the map of tokens of a cut result
\* is the one collected in.
LEMMA GivenIs ==
    ASSUME EnrichmentInv, NEW l \in Lookups, Over(l)
    PROVE  /\ Given(l).receipt = partial[l].receipt /\ Given(l).tx = partial[l].tx
           /\ Given(l).status = partial[l].status /\ Given(l).failure = returned[l].failure
           /\ Given(l).known = IF outcome[l] = "cut" THEN partial[l].known ELSE returned[l].known
           /\ outcome[l] \in {"whole", "cut"}
<1>1. /\ returned[l].receipt = partial[l].receipt /\ returned[l].tx = partial[l].tx
      /\ returned[l].status = partial[l].status
  BY Own DEF HandedOut
<1>2. outcome[l] \in {"whole", "cut"}
  BY Own DEF Over, OwnTyped
<1> QED
  BY <1>1, <1>2, Own DEF Given, Collected

LEMMA ResultFits ==
    ASSUME EnrichmentInv, NEW l \in Lookups, Over(l)
    PROVE  WellFormed(AsEnrichment(l))
<1> DEFINE g == Given(l)
           e == AsEnrichment(l)
<1>1. /\ g.receipt \in Receipts \cup {"none"} /\ g.tx \in TxKinds
      /\ g.receipt # "none" => g.status = StatusOf(g.receipt)
      /\ g.receipt = "none" => g.status \in {"unknown", "pending"}
      /\ g.status = "pending" => g.tx = "pool"
  BY GivenIs, Own DEF StatusFits, Collected
<1>2. OwnsUp(g)
  BY GivenIs, Own DEF HandedOut, OwnsUp
<1>3. g.receipt = "none" => g.known = NoToken
  BY GivenIs, Own DEF HandedOut, TokensLast, Recorded
<1>4. g.receipt = "none" => (e.block = NoBlock <=> g.tx # "mined")
  <2>1. (CHOOSE b \in Blocks : TRUE) \in Nat \ {0}
    BY Assumed
  <2> QED
    BY <2>1 DEF AsEnrichment, NoBlock
<1>5. g.receipt = "none" => e.tokens = {}
  BY <1>3 DEF AsEnrichment, NoToken, Metadata!Nothing
<1>6. /\ e.receipt = g.receipt /\ e.tx = g.tx /\ e.status = g.status /\ e.hash = "requested"
      /\ e.temporaryFailure = g.failure /\ e.unrecognised = FALSE
  BY DEF AsEnrichment
<1> HIDE DEF g, e
<1>7. /\ g.receipt = "success" <=> g.status = "confirmed"
      /\ g.receipt = "reverted" <=> g.status = "failed"
      /\ g.status = "pending" => g.receipt = "none"
  BY <1>1, Assumed DEF StatusOf
<1>8. WellFormed(e)
  BY <1>1, <1>2, <1>4, <1>5, <1>6, <1>7 DEF WellFormed, OwnsUp
<1> QED
  BY <1>8 DEF e

-----------------------------------------------------------------------------
(* The theorems.                                                             *)

\* For any lookups, tokens and batches the enrichments and the cache keep their types.
THEOREM EnrichmentTyped == Spec => []TypeOK
<1>1. EnrichmentInv => TypeOK
  BY DEF EnrichmentInv
<1> QED
  BY <1>1, EnrichmentInvHolds, PTL

\* However the calls end and wherever the deadline falls, what is returned is
\* consistent: what the decisions about coverage and lifetime take for granted.
THEOREM ResultsStayWellFormed == Spec => []ResultsWellFormed
<1>1. EnrichmentInv => ResultsWellFormed
  BY ResultFits DEF ResultsWellFormed
<1> QED
  BY <1>1, EnrichmentInvHolds, PTL

\* A receipt or transaction that had been obtained is in what was returned.
THEOREM NothingObtainedIsLost == Spec => []KeepsWhatItHad
<1>1. EnrichmentInv => KeepsWhatItHad
  BY GivenIs, Own DEF KeepsWhatItHad, Recorded
<1> QED
  BY <1>1, EnrichmentInvHolds, PTL

\* Unless it owns up to a failure, a result has the metadata of every token mentioned.
THEOREM MetadataIsWhole == Spec => []WholeMetadata
<1>1. EnrichmentInv => WholeMetadata
  BY GivenIs, Own DEF WholeMetadata, HandedOut
<1> QED
  BY <1>1, EnrichmentInvHolds, PTL

\* What the caller was given never changes under its hands.
THEOREM GivenIsFrozen == Spec => ResultFrozen
<1> DEFINE Frozen == \A l \in Lookups : Over(l) => Given(l)' = Given(l)
<1>1. GoodStep => Frozen
  BY DEF GoodStep, NothingNew, Kept, Given
<1> HIDE DEF Frozen
<1>2. Spec => [][Frozen]_vars
  BY EnrichmentInvHolds, NextEnrichment, <1>1, PTL DEF Spec
<1> QED
  BY <1>2 DEF ResultFrozen, Frozen

\* A lookup that is over makes no call any more, of the node or of the cache.
THEOREM OverMeansOver == Spec => NoNewWork
<1> DEFINE Quiet == \A l \in Lookups : Over(l) =>
                       run'[l].wire \subseteq run[l].wire /\ Asks(l)' = Asks(l)
<1>1. GoodStep => Quiet
  BY DEF GoodStep, NothingNew, Kept, Asks
<1> HIDE DEF Quiet
<1>2. Spec => [][Quiet]_vars
  BY EnrichmentInvHolds, NextEnrichment, <1>1, PTL DEF Spec
<1> QED
  BY <1>2 DEF NoNewWork, Quiet

\* What TokenMetadataCache assumes of its constants holds of those it is given here.
LEMMA CacheIsGivenWhatItAssumes ==
    /\ NoOne \notin Lookups \X Tokens
    /\ [c \in Lookups \X Tokens |-> c[2]] \in [Lookups \X Tokens -> Tokens]
    /\ MaxEntries \in Nat \ {0}
    /\ ShortLife \in Nat \ {0} /\ FullLife \in Nat /\ ShortLife <= FullLife
    /\ MaxClock \in Nat
BY EnrichmentAssumption

\* The lookups use the cache as TokenMetadataCache says it is used, so what is proved
\* of it in MetadataProofs holds of the one they share.
THEOREM CacheUsedAsSpecified == Spec => Metadata!Init /\ [][Metadata!Next]_metadataVars
<1>1. Init => Metadata!Init
  BY DEF Init
<1>2. GoodStep => [Metadata!Next]_metadataVars
  BY DEF GoodStep
<1> QED
  BY <1>1, <1>2, EnrichmentInvHolds, NextEnrichment, PTL DEF Spec
-----------------------------------------------------------------------------
(* What progress rests on: a token that is due can be asked for, so the step *)
(* of a lookup always comes to its end and the others can go on.             *)

\* No token is due twice, none that is due has been asked for, every token awaited
\* has been, and while tokens are left there is a step or a batch that gets to them.
Fresh(l, t) == call[<<l, t>>] = "new"

ListsFit(l) ==
    /\ Once(run[l].due) /\ Once(run[l].todo) /\ Apart(run[l].due, run[l].todo)
    /\ \A t \in Tokens :
          /\ Among(t, run[l].due) \/ Among(t, run[l].todo) => Fresh(l, t)
          /\ run[l].stage \in BeforeTokens => Fresh(l, t)
          /\ t \in run[l].batch => ~Fresh(l, t)
    /\ run[l].todo # <<>> => run[l].due # <<>> \/ run[l].batch # {}

ProgressInv == EnrichmentInv /\ \A l \in Lookups : ListsFit(l)

\* The steps that leave the lists of a lookup as they are.
ListsKept(l) ==
    /\ run'[l].due = run[l].due /\ run'[l].todo = run[l].todo /\ run'[l].batch = run[l].batch
    /\ run'[l].stage \in BeforeTokens => run[l].stage \in BeforeTokens

LEMMA KeptListsFit ==
    ASSUME NEW l \in Lookups, ListsFit(l), ListsKept(l), \A t \in Tokens : Fresh(l, t)' <=> Fresh(l, t)
    PROVE  ListsFit(l)'
<1>1. ASSUME NEW t \in Tokens
      PROVE  /\ Among(t, run'[l].due) \/ Among(t, run'[l].todo) => Fresh(l, t)'
             /\ run'[l].stage \in BeforeTokens => Fresh(l, t)'
             /\ t \in run'[l].batch => ~Fresh(l, t)'
  BY DEF ListsFit, ListsKept
<1>2. /\ Once(run'[l].due) /\ Once(run'[l].todo) /\ Apart(run'[l].due, run'[l].todo)
      /\ run'[l].todo # <<>> => run'[l].due # <<>> \/ run'[l].batch # {}
  BY DEF ListsFit, ListsKept
<1> QED
  BY <1>1, <1>2 DEF ListsFit, Among, Once, Apart

\* New lists, of tokens that are all fresh and with no batch awaited.
LEMMA NewListsFit ==
    ASSUME EnrichmentInv, NEW l \in Lookups, NEW s \in Seq(Tokens), Once(s),
           \A t \in Tokens : Among(t, s) => Fresh(l, t),
           run'[l].due = First(s, BatchSize), run'[l].todo = Rest(s, BatchSize),
           run'[l].batch = {}, run'[l].stage \notin BeforeTokens, UNCHANGED metadataVars
    PROVE  ListsFit(l)'
<1> DEFINE f == First(s, BatchSize)
           r == Rest(s, BatchSize)
<1>1. BatchSize \in Nat /\ BatchSize # 0
  BY Assumed
<1>2. /\ f = <<>> => r = <<>>
      /\ \A t : Among(t, s) <=> Among(t, f) \/ Among(t, r)
  BY <1>1, FirstAndRest
<1>3. Once(f) /\ Once(r) /\ Apart(f, r)
  BY <1>1, FirstAndRestOnce
<1>4. run'[l].due = f /\ run'[l].todo = r
  OBVIOUS
<1> HIDE DEF f, r
<1>5. ASSUME NEW t \in Tokens PROVE Fresh(l, t)' <=> Fresh(l, t)
  BY DEF Fresh, metadataVars
<1>6. ASSUME NEW t \in Tokens
      PROVE  /\ Among(t, run'[l].due) \/ Among(t, run'[l].todo) => Fresh(l, t)'
             /\ run'[l].stage \in BeforeTokens => Fresh(l, t)'
             /\ t \in run'[l].batch => ~Fresh(l, t)'
  BY <1>2, <1>4, <1>5
<1>7. /\ Once(run'[l].due) /\ Once(run'[l].todo) /\ Apart(run'[l].due, run'[l].todo)
      /\ run'[l].todo # <<>> => run'[l].due # <<>> \/ run'[l].batch # {}
  BY <1>2, <1>3, <1>4
<1> QED
  BY <1>6, <1>7 DEF ListsFit, Among, Once, Apart

LEMMA DetailLists ==
    ASSUME EnrichmentInv, NEW l \in Lookups, ListsFit(l), run[l].stage \in BeforeTokens,
           NEW receipt, Detail(l, receipt), UNCHANGED metadataVars
    PROVE  ListsFit(l)'
<1> DEFINE s == IF receipt = "none" THEN <<>> ELSE Mentions[l]
<1>1. /\ run'[l].due = First(s, BatchSize) /\ run'[l].todo = Rest(s, BatchSize)
      /\ run'[l].batch = run[l].batch /\ run'[l].stage = "detailing"
  BY Own DEF Detail, OwnTyped, Runs
<1>2. run[l].batch = {}
  BY Own DEF TokensLast
<1>3. s \in Seq(Tokens)
  BY Assumed, EmptySeq
<1>4. Once(s)
  BY EnrichmentAssumption DEF Once
<1>5. \A t \in Tokens : Fresh(l, t)
  BY DEF ListsFit
<1> HIDE DEF s
<1> QED
  BY <1>1, <1>2, <1>3, <1>4, <1>5, NewListsFit DEF BeforeTokens

LEMMA BatchEndsLists ==
    ASSUME EnrichmentInv, NEW l \in Lookups, ListsFit(l), BatchEnds(l)
    PROVE  ListsFit(l)'
<1> DEFINE s == IF Over(l) THEN <<>> ELSE run[l].todo
<1>1. /\ run'[l].due = IF Over(l) THEN <<>> ELSE First(run[l].todo, BatchSize)
      /\ run'[l].todo = IF Over(l) THEN <<>> ELSE Rest(run[l].todo, BatchSize)
      /\ run'[l].batch = {} /\ UNCHANGED metadataVars
      /\ run'[l].stage = IF run[l].todo # <<>> /\ Over(l) THEN "failed" ELSE run[l].stage
      /\ run[l].batch # {}
  BY Own DEF BatchEnds, BatchServed, OwnTyped, Runs
<1>2. run[l].stage \notin BeforeTokens
  BY <1>1, Own DEF TokensLast
<1>3. s \in Seq(Tokens) /\ Once(s) /\ \A t \in Tokens : Among(t, s) => Fresh(l, t)
  <2>1. <<>> \in Seq(Tokens) /\ Once(<<>>) /\ \A t : ~Among(t, <<>>)
    BY EmptySeq DEF Once, Among
  <2> QED
    BY <2>1, Own DEF ListsFit, Runs
<1>4. First(<<>>, BatchSize) = <<>> /\ Rest(<<>>, BatchSize) = <<>>
  BY Assumed, EmptySeq, FirstAndRest
<1>5. /\ run'[l].due = First(s, BatchSize) /\ run'[l].todo = Rest(s, BatchSize)
      /\ run'[l].stage \notin BeforeTokens
  BY <1>1, <1>2, <1>4 DEF BeforeTokens
<1> HIDE DEF s
<1> QED
  BY <1>1, <1>3, <1>5, NewListsFit

LEMMA AskLists ==
    ASSUME EnrichmentInv, NEW l \in Lookups, ListsFit(l), AskForToken(l)
    PROVE  ListsFit(l)'
<1> DEFINE d == run[l].due
<1>0. PICK h \in Tokens : h = Head(d)
  BY Own, HeadAndTail DEF AskForToken, Runs
<1>1. /\ d # <<>> /\ Metadata!Ask(<<l, h>>)
      /\ run'[l].due = Tail(d) /\ run'[l].batch = run[l].batch \cup {h}
      /\ run'[l].todo = run[l].todo /\ run'[l].stage = run[l].stage
  BY <1>0, Own DEF AskForToken, OwnTyped, Runs
<1>2. d \in Seq(Tokens) /\ Once(d) /\ Apart(d, run[l].todo) /\ Once(run[l].todo)
  BY Own DEF ListsFit, Runs
<1> HIDE DEF d
<1>3. /\ \A t : Among(t, d) <=> t = h \/ Among(t, Tail(d))
      /\ Once(Tail(d)) /\ ~Among(h, Tail(d))
  BY <1>0, <1>1, <1>2, HeadAndTailOnce
<1>4. run[l].stage \notin BeforeTokens
  BY <1>1, Own DEF TokensLast, d
<1>5. /\ ~Fresh(l, h)'
      /\ \A t \in Tokens \ {h} : Fresh(l, t)' <=> Fresh(l, t)
  <2>1. <<l, h>> \in Lookups \X Tokens
    OBVIOUS
  <2>2. /\ call'[<<l, h>>] # "new"
        /\ \A c \in (Lookups \X Tokens) \ {<<l, h>>} : call'[c] = call[c]
    BY <1>1, <2>1, Own, AskMetadata
  <2>3. \A t \in Tokens \ {h} : <<l, t>> \in (Lookups \X Tokens) \ {<<l, h>>}
    OBVIOUS
  <2>4. ASSUME NEW t \in Tokens \ {h} PROVE call'[<<l, t>>] = call[<<l, t>>]
    BY <2>2, <2>3
  <2>5. ~Fresh(l, h)'
    BY <2>2 DEF Fresh
  <2>6. \A t \in Tokens \ {h} : Fresh(l, t)' <=> Fresh(l, t)
    BY <2>4 DEF Fresh
  <2> QED
    BY <2>5, <2>6
<1>6. Apart(Tail(d), run[l].todo) /\ ~Among(h, run[l].todo)
  BY <1>2, <1>3 DEF Apart
<1>7. ASSUME NEW t \in Tokens
      PROVE  /\ Among(t, run'[l].due) \/ Among(t, run'[l].todo) => Fresh(l, t)'
             /\ run'[l].stage \in BeforeTokens => Fresh(l, t)'
             /\ t \in run'[l].batch => ~Fresh(l, t)'
  <2>1. Among(t, Tail(d)) \/ Among(t, run[l].todo) => t # h /\ Fresh(l, t)
    BY <1>3, <1>6 DEF ListsFit, d
  <2>2. t \in run[l].batch => ~Fresh(l, t)
    BY DEF ListsFit
  <2>3. t # h => (Fresh(l, t)' <=> Fresh(l, t))
    BY <1>5
  <2>4. Among(t, run'[l].due) \/ Among(t, run'[l].todo) => Fresh(l, t)'
    BY <1>1, <2>1, <2>3
  <2>5. t \in run'[l].batch => ~Fresh(l, t)'
    BY <1>1, <1>5, <2>2, <2>3
  <2> QED
    BY <1>1, <1>4, <2>4, <2>5
<1>8. /\ Once(run'[l].due) /\ Once(run'[l].todo) /\ Apart(run'[l].due, run'[l].todo)
      /\ run'[l].todo # <<>> => run'[l].due # <<>> \/ run'[l].batch # {}
  BY <1>1, <1>2, <1>3, <1>6
<1> QED
  BY <1>7, <1>8 DEF ListsFit, Among, Once, Apart

LEMMA OwnStepLists ==
    ASSUME EnrichmentInv, NEW l \in Lookups, ListsFit(l), OwnStep(l), UNCHANGED metadataVars
    PROVE  ListsFit(l)'
<1>1. ASSUME ListsKept(l) PROVE ListsFit(l)'
  BY <1>1, KeptListsFit DEF Fresh, metadataVars
<1>2. CASE BatchEnds(l)
  BY <1>2, BatchEndsLists
<1>3. ASSUME NEW receipt, Detail(l, receipt), run[l].stage \in BeforeTokens PROVE ListsFit(l)'
  BY <1>3, DetailLists
<1>4. CASE Begin(l) \/ Retry(l) \/ Finish(l) \/ Deadline(l) \/ RetryFails(l)
  <2>1. ListsKept(l)
    <3>1. CASE Begin(l)
      BY <3>1, Own DEF Begin, OwnTyped, Runs, ListsKept, BeforeTokens
    <3>2. CASE Retry(l)
      BY <3>2, Own DEF Retry, OwnTyped, Runs, ListsKept, BeforeTokens
    <3>3. CASE Finish(l)
      BY <3>3, Own DEF Finish, OwnTyped, Runs, ListsKept, BeforeTokens
    <3>4. CASE Deadline(l)
      BY <3>4 DEF Deadline, ListsKept
    <3>5. CASE RetryFails(l)
      BY <3>5, Own DEF RetryFails, OwnTyped, Runs, ListsKept, BeforeTokens
    <3> QED
      BY <1>4, <3>1, <3>2, <3>3, <3>4, <3>5
  <2> QED
    BY <1>1, <2>1
<1>5. CASE Assess(l)
  <2>1. CASE Over(l) \/ (run[l].receipt = "none" /\ run[l].tx = "mined")
    <3>1. PICK s \in {"failed", "lagging"} : run' = [run EXCEPT ![l] = [run[l] EXCEPT !.stage = s]]
      BY <1>5, <2>1 DEF Assess
    <3>2. run[l].stage \in BeforeTokens
      BY <1>5 DEF Assess, BeforeTokens
    <3>3. ListsKept(l)
      BY <3>1, <3>2, Own DEF OwnTyped, Runs, ListsKept
    <3> QED
      BY <1>1, <3>3
  <2>2. CASE ~(Over(l) \/ (run[l].receipt = "none" /\ run[l].tx = "mined"))
    BY <1>3, <1>5, <2>2 DEF Assess, BeforeTokens
  <2> QED
    BY <2>1, <2>2
<1>6. ASSUME NEW r, ReceiptAnswers(l, r) PROVE ListsFit(l)'
  <2>1. ListsKept(l)
    BY <1>6, Own DEF ReceiptAnswers, OwnTyped, Runs, ListsKept
  <2> QED
    BY <1>1, <2>1
<1>7. ASSUME NEW r, RetryAnswers(l, r) PROVE ListsFit(l)'
  BY <1>3, <1>7 DEF RetryAnswers, BeforeTokens
<1>8. ASSUME NEW x, TxAnswers(l, x) PROVE ListsFit(l)'
  <2>1. ListsKept(l)
    BY <1>8, Own DEF TxAnswers, OwnTyped, Runs, ListsKept
  <2> QED
    BY <1>1, <2>1
<1>9. ASSUME NEW c, EarlyCallFails(l, c) \/ DetailCallEnds(l, c) PROVE ListsFit(l)'
  <2>1. run' = [run EXCEPT ![l] = [run[l] EXCEPT !.wire = @ \ {c}]]
    BY <1>9 DEF EarlyCallFails, DetailCallEnds
  <2>2. ListsKept(l)
    BY <2>1, Own DEF OwnTyped, Runs, ListsKept
  <2> QED
    BY <1>1, <2>2
<1> QED
  BY <1>2, <1>4, <1>5, <1>6, <1>7, <1>8, <1>9 DEF OwnStep, Call

LEMMA OthersLists ==
    ASSUME NEW m \in Lookups, ListsFit(m), run'[m] = run[m],
           \A t \in Tokens : call'[<<m, t>>] = "new" <=> call[<<m, t>>] = "new"
    PROVE  ListsFit(m)'
<1>1. ListsKept(m)
  BY DEF ListsKept
<1> QED
  BY <1>1, KeptListsFit DEF Fresh

LEMMA NextLists == ProgressInv /\ [Next]_vars => ProgressInv'
<1> SUFFICES ASSUME ProgressInv, [Next]_vars PROVE \A l \in Lookups : ListsFit(l)'
  BY NextEnrichment DEF ProgressInv, GoodStep
<1>0. EnrichmentInv /\ MetadataInv
  BY DEF ProgressInv, EnrichmentInv, MetadataInv, TypeOK
<1>1. ASSUME NEW m \in Lookups PROVE ListsFit(m)
  BY DEF ProgressInv
<1>2. ASSUME NEW l \in Lookups, OwnStep(l), NEW m \in Lookups PROVE ListsFit(m)'
  <2>1. StepOf(l) /\ UNCHANGED metadataVars
    BY <1>0, <1>2, OwnStepIsAStep
  <2>2. CASE m = l
    BY <1>0, <1>1, <1>2, <2>1, <2>2, OwnStepLists
  <2>3. CASE m # l
    <3>1. run'[m] = run[m] /\ call' = call
      BY <2>1, <2>3 DEF StepOf, Untouched, metadataVars
    <3> QED
      BY <1>1, <3>1, OthersLists
  <2> QED
    BY <2>2, <2>3
<1>3. ASSUME NEW l \in Lookups, AskForToken(l), NEW m \in Lookups PROVE ListsFit(m)'
  <2> DEFINE c == <<l, Head(run[l].due)>>
  <2>1. StepOf(l) /\ Metadata!Ask(c)
    BY <1>0, <1>3, AskForTokenStep DEF AskForToken
  <2>2. c \in Lookups \X Tokens
    <3>1. run[l].due \in Seq(Tokens) /\ run[l].due # <<>>
      BY <1>0, <1>3, Own DEF AskForToken, Runs
    <3> QED
      BY <3>1, HeadAndTail
  <2>3. \A d \in (Lookups \X Tokens) \ {c} : call'[d] = call[d]
    BY <1>0, <2>1, <2>2, AskMetadata
  <2>4. CASE m = l
    BY <1>0, <1>1, <1>3, <2>4, AskLists
  <2>5. CASE m # l
    <3>1. run'[m] = run[m]
      BY <2>1, <2>5 DEF StepOf, Untouched
    <3>2. \A t \in Tokens : <<m, t>> \in (Lookups \X Tokens) \ {c}
      BY <2>5
    <3>3. \A t \in Tokens : call'[<<m, t>>] = call[<<m, t>>]
      BY <2>3, <3>2
    <3> QED
      BY <1>1, <3>1, <3>3, OthersLists
  <2> QED
    BY <2>4, <2>5
<1>4. ASSUME UNCHANGED run, \A d \in Lookups \X Tokens : call'[d] = "new" <=> call[d] = "new",
             NEW m \in Lookups
      PROVE  ListsFit(m)'
  BY <1>1, <1>4, OthersLists
<1>5. ASSUME NEW l \in Lookups, Fetch(l), NEW m \in Lookups PROVE ListsFit(m)'
  <2>1. ASSUME NEW t \in Tokens, NEW q \in Fetchable, FetchEnds(l, t, q) PROVE ListsFit(m)'
    <3>1. /\ Metadata!Land(<<l, t>>, q) /\ UNCHANGED run
          /\ q \in Metadata!Qualities /\ <<l, t>> \in Lookups \X Tokens
      BY <2>1, Assumed DEF FetchEnds
    <3>2. call' = call
      BY <1>0, <3>1, LandMetadata
    <3> QED
      BY <1>4, <3>1, <3>2
  <2>2. ASSUME NEW t \in Tokens, FetchResumes(l, t) PROVE ListsFit(m)'
    <3>1. Metadata!Resume(<<l, t>>) /\ UNCHANGED run /\ <<l, t>> \in Lookups \X Tokens
      BY <2>2 DEF FetchResumes
    <3>2. \A d \in Lookups \X Tokens : call'[d] = "new" <=> call[d] = "new"
      BY <1>0, <3>1, ResumeMetadata
    <3> QED
      BY <1>4, <3>1, <3>2
  <2> QED
    BY <1>5, <2>1, <2>2 DEF Fetch
<1>6. ASSUME Tick \/ UNCHANGED vars, NEW m \in Lookups PROVE ListsFit(m)'
  <2>1. UNCHANGED run /\ call' = call
    BY <1>6 DEF Tick, Metadata!Tick, vars, metadataVars
  <2> QED
    BY <1>4, <2>1
<1> QED
  BY <1>2, <1>3, <1>5, <1>6 DEF Next, Proceed, OwnStep, Finished

\* A token that is due can be asked for, so whoever is in the middle of a step ends it
\* and is not what everyone else waits for; a token of the batch has been asked for; and
\* a lookup with tokens left is in a step or awaits a batch, so none is left for good.
NobodyIsStuck ==
    \A l \in Lookups :
        /\ run[l].due # <<>> => Fresh(l, Head(run[l].due))
        /\ \A t \in run[l].batch : call[<<l, t>>] \in {"waiting", "served"}
        /\ run[l].todo # <<>> => run[l].due # <<>> \/ run[l].batch # {}

\* For any lookups, tokens in any order and size of the batches, so that all liveness
\* needs of the loop over the batches is that fetches come back.
THEOREM TokensCanBeAsked == Spec => []NobodyIsStuck
<1>1. Init => ProgressInv
  <2> SUFFICES ASSUME Init, NEW l \in Lookups PROVE ListsFit(l)
    BY InitEnrichment DEF ProgressInv
  <2>1. run[l].due = <<>> /\ run[l].todo = <<>> /\ run[l].batch = {}
    BY DEF Init
  <2>2. \A t \in Tokens : Fresh(l, t)
    BY DEF Init, Metadata!Init, Fresh
  <2>3. Once(<<>>) /\ Apart(<<>>, <<>>)
    BY DEF Once, Apart, Among
  <2> QED
    BY <2>1, <2>2, <2>3 DEF ListsFit
<1>2. ProgressInv => NobodyIsStuck
  <2> SUFFICES ASSUME ProgressInv, NEW l \in Lookups
               PROVE  /\ run[l].due # <<>> => Fresh(l, Head(run[l].due))
                      /\ \A t \in run[l].batch : call[<<l, t>>] \in {"waiting", "served"}
                      /\ run[l].todo # <<>> => run[l].due # <<>> \/ run[l].batch # {}
    BY DEF NobodyIsStuck
  <2>1. ListsFit(l) /\ run[l] \in Runs /\ Metadata!TypeOK
    BY Own DEF ProgressInv, MetadataInv
  <2>2. ASSUME run[l].due # <<>> PROVE Fresh(l, Head(run[l].due))
    <3>1. Head(run[l].due) \in Tokens /\ Among(Head(run[l].due), run[l].due)
      BY <2>1, <2>2, HeadAndTail, HeadAndTailOnce DEF Runs, ListsFit
    <3> QED
      BY <2>1, <3>1 DEF ListsFit
  <2>3. ASSUME NEW t \in run[l].batch PROVE call[<<l, t>>] \in {"waiting", "served"}
    <3>1. t \in Tokens /\ ~Fresh(l, t)
      BY <2>1 DEF ListsFit, Runs
    <3> QED
      BY <2>1, <3>1 DEF Metadata!TypeOK, Fresh
  <2> QED
    BY <2>1, <2>2, <2>3 DEF ListsFit
<1> QED
  BY <1>1, <1>2, NextLists, PTL DEF Spec
=============================================================================
