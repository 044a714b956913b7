--------------------------- MODULE OverviewProofs ---------------------------
(***************************************************************************)
(* Proofs about OverviewRefresh, for any networks, values, clients, answers   *)
(* and times.  The argument for ages: wherever a value is carried to, it      *)
(* keeps the time it was obtained at, and no later time stands beside it;     *)
(* present looks at that time once more before anyone sees the value.         *)
(***************************************************************************)
EXTENDS OverviewRefresh, TLAPS

\* Values nobody has seen after t, and that do not claim to be younger than they are.
Honest(t) == {v \in Values : v.seen <= t /\ (v.seen # 0 => v.stamp <= v.seen)}

HonestItems(t)     == [Networks -> [Fields -> Honest(t)]]
HonestEnvelopes(t) == [items : HonestItems(t), expires : Nat]
HonestRefreshes(t) ==
    [stage : {"none", "batch", "asking", "saving"}, cached : HonestEnvelopes(t), now : Nat,
     items : HonestItems(t), holes : SUBSET Networks]

\* The values a refresh has gathered by itself.
Gathered(items, now) ==
    \A n \in Networks, f \in Fields :
        items[n][f].seen # 0 => items[n][f].seen >= now /\ items[n][f].stamp = now

\* A value that is fit to be shown at the time t.
Presentable(v, t) ==
    v.seen # 0 =>
        /\ v.stamp <= v.seen
        /\ t - v.seen <= MaxAge
        /\ ~v.stale => t - v.seen < Fresh

Carried ==
    /\ clock \in Nat /\ retryAt \in Nat /\ quotaAt \in Nat /\ forgotten \in BOOLEAN
    /\ lastValid \in HonestEnvelopes(clock)
    /\ refresh \in HonestRefreshes(clock)
    /\ redis \in [envelope : HonestEnvelopes(clock), until : Nat]
    /\ phase \in [Clients -> {"idle", "resuming", "waiting"}]
    /\ reply \in [Clients -> HonestEnvelopes(clock)]
    /\ shown \in [at : Nat, items : Items]

\* While networks are asked for one by one, what the refresh started with is older than
\* what it gathers.
OldAndNew ==
    refresh.stage = "asking" =>
        /\ refresh.now <= clock
        /\ refresh.cached \in HonestEnvelopes(refresh.now)
        /\ Gathered(refresh.items, refresh.now)

\* A quota error is over once a refresh is under way, or else retryAt outlasts it, unless
\* a restart has made the process forget it.
QuotaRespected ==
    quotaAt # 0 =>
        \/ forgotten
        \/ clock - quotaAt >= QuotaPause
        \/ refresh.stage \in {"none", "saving"} /\ retryAt - quotaAt >= QuotaPause

IInv == Carried /\ OldAndNew /\ QuotaRespected /\ HonestAges

-----------------------------------------------------------------------------
(* Values and envelopes.                                                     *)

LEMMA HonestGrows ==
    ASSUME NEW s \in Nat, NEW t \in Nat, s <= t
    PROVE  /\ Honest(s) \subseteq Honest(t)
           /\ HonestItems(s) \subseteq HonestItems(t)
           /\ HonestEnvelopes(s) \subseteq HonestEnvelopes(t)
<1>1. Honest(s) \subseteq Honest(t)
  BY DEF Honest, Values
<1>2. HonestItems(s) \subseteq HonestItems(t)
  BY <1>1 DEF HonestItems
<1>3. HonestEnvelopes(s) \subseteq HonestEnvelopes(t)
  BY <1>2 DEF HonestEnvelopes
<1> QED
  BY <1>1, <1>2, <1>3

LEMMA HonestIsTyped ==
    ASSUME NEW t \in Nat
    PROVE  /\ HonestItems(t) \subseteq Items
           /\ HonestEnvelopes(t) \subseteq Envelopes
<1>1. Honest(t) \subseteq Values
  BY DEF Honest
<1>2. HonestItems(t) \subseteq Items
  BY <1>1 DEF HonestItems, Items
<1> QED
  BY <1>2 DEF HonestEnvelopes, Envelopes

LEMMA NothingIsHonest ==
    ASSUME NEW t \in Nat
    PROVE  NoItems \in HonestItems(t) /\ NoEnvelope \in HonestEnvelopes(t)
<1>1. NoValue \in Honest(t)
  BY DEF NoValue, Honest, Values
<1>2. NoItems \in HonestItems(t)
  BY <1>1 DEF NoItems, HonestItems
<1> QED
  BY <1>2 DEF NoEnvelope, HonestEnvelopes

\* What merge returns is one of its two values, kept under its own time, or nothing.
LEMMA MergeHonest ==
    ASSUME NEW t \in Nat, NEW now \in Nat, NEW fresh \in Honest(t), NEW old \in Honest(t)
    PROVE  /\ Merge(fresh, old, now) \in Honest(t)
           /\ Presentable(Merge(fresh, old, now), now)
<1> DEFINE kept == IF fresh.seen = 0 /\ old.seen # 0 /\ now - old.stamp <= MaxAge
                   THEN [old EXCEPT !.stale = TRUE] ELSE fresh
           result == [kept EXCEPT !.stale = @ \/ now - kept.stamp >= Fresh]
<1>1. kept \in Honest(t)
  BY DEF Honest, Values
<1>2. Merge(fresh, old, now) =
        IF kept.seen = 0 \/ now - kept.stamp > MaxAge THEN NoValue ELSE result
  BY DEF Merge
<1> HIDE DEF kept
<1>3. result \in Honest(t) /\ result.seen = kept.seen /\ result.stamp = kept.stamp
  BY <1>1 DEF Honest, Values
<1>4. ~result.stale => ~(now - kept.stamp >= Fresh)
  BY <1>1 DEF Honest, Values
<1> HIDE DEF result
<1>5. NoValue \in Honest(t) /\ NoValue.seen = 0
  BY DEF NoValue, Honest, Values
<1>6. CASE kept.seen = 0 \/ now - kept.stamp > MaxAge
  BY <1>2, <1>5, <1>6 DEF Presentable
<1>7. CASE ~(kept.seen = 0 \/ now - kept.stamp > MaxAge)
  <2>1. Merge(fresh, old, now) = result
    BY <1>2, <1>7
  <2>2. kept.stamp \in Nat /\ kept.seen \in Nat /\ kept.stamp <= kept.seen
    BY <1>1, <1>7 DEF Honest, Values
  <2>3. result.stamp <= result.seen /\ now - result.seen <= MaxAge
    BY <1>3, <1>7, <2>2, OverviewAssumption DEF OverviewAssumption
  <2>4. ~result.stale => now - result.seen < Fresh
    BY <1>3, <1>4, <2>2, OverviewAssumption DEF OverviewAssumption
  <2> QED
    BY <1>3, <2>1, <2>3, <2>4 DEF Presentable
<1> QED
  BY <1>6, <1>7

LEMMA MergeItemsHonest ==
    ASSUME NEW t \in Nat, NEW now \in Nat,
           NEW fresh \in HonestItems(t), NEW old \in HonestItems(t)
    PROVE  MergeItems(fresh, old, now) \in HonestItems(t)
<1>1. ASSUME NEW n \in Networks, NEW f \in Fields
      PROVE  Merge(fresh[n][f], old[n][f], now) \in Honest(t)
  <2>1. fresh[n][f] \in Honest(t) /\ old[n][f] \in Honest(t)
    BY DEF HonestItems
  <2> QED
    BY <2>1, MergeHonest
<1> QED
  BY <1>1 DEF MergeItems, HonestItems

\* Whatever present makes of an envelope may be shown.
LEMMA PresentHonest ==
    ASSUME clock \in Nat, NEW e \in HonestEnvelopes(clock), shown' = Present(e)
    PROVE  shown' \in [at : Nat, items : Items] /\ HonestAges'
<1>1. e.items \in HonestItems(clock) /\ NoItems \in HonestItems(clock)
  BY NothingIsHonest DEF HonestEnvelopes
<1>2. MergeItems(e.items, NoItems, clock) \in Items
  BY <1>1, MergeItemsHonest, HonestIsTyped
<1>3. shown'.at = clock /\ shown'.items = MergeItems(e.items, NoItems, clock)
  BY DEF Present
<1>4. ASSUME NEW n \in Networks, NEW f \in Fields
      PROVE  Presentable(shown'.items[n][f], clock)
  <2>1. e.items[n][f] \in Honest(clock) /\ NoItems[n][f] \in Honest(clock)
    BY <1>1 DEF HonestItems
  <2>2. shown'.items[n][f] = Merge(e.items[n][f], NoItems[n][f], clock)
    BY <1>3 DEF MergeItems
  <2> QED
    BY <2>1, <2>2, MergeHonest
<1>5. HonestAges'
  BY <1>3, <1>4 DEF HonestAges, Presentable
<1>6. shown' \in [at : Nat, items : Items]
  BY <1>2 DEF Present
<1> QED
  BY <1>5, <1>6

LEMMA NothingShownHonest ==
    ASSUME shown' = NothingShown
    PROVE  shown' \in [at : Nat, items : Items] /\ HonestAges'
<1>1. \A n \in Networks, f \in Fields : NothingShown.items[n][f].seen = 0
  BY DEF NothingShown, NoItems, NoValue
<1>2. NothingShown \in [at : Nat, items : Items]
  BY NothingIsHonest, HonestIsTyped DEF NothingShown
<1> QED
  BY <1>1, <1>2 DEF HonestAges

LEMMA NoRefreshHonest ==
    ASSUME NEW t \in Nat
    PROVE  /\ NoRefresh \in HonestRefreshes(t)
           /\ [NoRefresh EXCEPT !.stage = "saving"] \in HonestRefreshes(t)
           /\ NoRefresh.stage = "none"
           /\ [NoRefresh EXCEPT !.stage = "saving"].stage = "saving"
  BY NothingIsHonest DEF NoRefresh, HonestRefreshes

\* Statistics received now, under the time a refresh started to gather at.
LEMMA ObtainedHonest ==
    ASSUME clock \in Nat, NEW now \in Nat, now <= clock, NEW have
    PROVE  /\ Obtained(have, now) \in [Fields -> Honest(clock)]
           /\ \A f \in Fields : Obtained(have, now)[f].seen # 0 =>
                /\ Obtained(have, now)[f].seen >= now
                /\ Obtained(have, now)[f].stamp = now
<1>1. [seen |-> clock, stamp |-> now, stale |-> FALSE] \in Honest(clock)
  BY DEF Honest, Values
<1>2. NoValue \in Honest(clock)
  BY DEF NoValue, Honest, Values
<1> QED
  BY <1>1, <1>2 DEF Obtained, NoValue

-----------------------------------------------------------------------------
(* The steps.                                                                *)

LEMMA InitSound == Init => IInv
<1> SUFFICES ASSUME Init PROVE IInv
  OBVIOUS
<1>1. NoEntry \in [envelope : HonestEnvelopes(1), until : Nat]
  BY NothingIsHonest DEF NoEntry
<1>2. NothingShown \in [at : Nat, items : Items]
  BY NothingIsHonest, HonestIsTyped DEF NothingShown
<1>3. Carried
  BY <1>1, <1>2, NothingIsHonest, NoRefreshHonest DEF Init, Carried
<1>4. OldAndNew /\ QuotaRespected
  BY NoRefreshHonest DEF Init, OldAndNew, QuotaRespected
<1>5. HonestAges
  BY DEF Init, HonestAges, NothingShown, NoItems, NoValue
<1> QED
  BY <1>3, <1>4, <1>5 DEF IInv

\* A poll keeps what is remembered, whatever Redis answers with.
LEMMA PollSound ==
    ASSUME IInv, NEW c \in Clients, Poll(c)
    PROVE  IInv'
<1>1. reply' \in [Clients -> HonestEnvelopes(clock)]
  BY NothingIsHonest DEF IInv, Carried, Poll
<1>2. phase' \in [Clients -> {"idle", "resuming", "waiting"}]
  BY DEF IInv, Carried, Poll
<1>3. shown' \in [at : Nat, items : Items] /\ HonestAges'
  BY NothingShownHonest DEF Poll
<1>4. UNCHANGED <<clock, lastValid, retryAt, refresh, quotaAt, forgotten, redis>>
  BY DEF Poll, memory
<1>5. Carried'
  BY <1>1, <1>2, <1>3, <1>4 DEF IInv, Carried
<1>6. OldAndNew' /\ QuotaRespected'
  BY <1>4 DEF IInv, OldAndNew, QuotaRespected
<1> QED
  BY <1>3, <1>5, <1>6 DEF IInv

\* A call that has the answer of Redis forgets it, whatever it does next.
LEMMA ResumeTyped ==
    ASSUME IInv, NEW c \in Clients,
           reply' = [reply EXCEPT ![c] = NoEnvelope],
           \/ phase' = [phase EXCEPT ![c] = "idle"]
           \/ phase' = [phase EXCEPT ![c] = "waiting"]
    PROVE  /\ reply' \in [Clients -> HonestEnvelopes(clock)]
           /\ phase' \in [Clients -> {"idle", "resuming", "waiting"}]
           /\ Cached(c) \in HonestEnvelopes(clock)
  BY NothingIsHonest DEF IInv, Carried, Cached

LEMMA ShowSound ==
    ASSUME IInv, NEW c \in Clients, Show(c)
    PROVE  IInv'
<1>1. /\ reply' \in [Clients -> HonestEnvelopes(clock)]
      /\ phase' \in [Clients -> {"idle", "resuming", "waiting"}]
      /\ Cached(c) \in HonestEnvelopes(clock)
  BY ResumeTyped DEF Show
<1>2. clock \in Nat /\ shown' = Present(Cached(c))
  BY DEF IInv, Carried, Show
<1>3. shown' \in [at : Nat, items : Items] /\ HonestAges'
  BY <1>1, <1>2, PresentHonest
<1>4. UNCHANGED <<clock, lastValid, retryAt, refresh, quotaAt, forgotten, redis>>
  BY DEF Show, memory
<1>5. Carried'
  BY <1>1, <1>3, <1>4 DEF IInv, Carried
<1>6. OldAndNew' /\ QuotaRespected'
  BY <1>4 DEF IInv, OldAndNew, QuotaRespected
<1> QED
  BY <1>3, <1>5, <1>6 DEF IInv

LEMMA JoinSound ==
    ASSUME IInv, NEW c \in Clients, Join(c)
    PROVE  IInv'
<1>1. /\ reply' \in [Clients -> HonestEnvelopes(clock)]
      /\ phase' \in [Clients -> {"idle", "resuming", "waiting"}]
  BY ResumeTyped DEF Join
<1>2. shown' \in [at : Nat, items : Items] /\ HonestAges'
  BY NothingShownHonest DEF Join
<1>3. UNCHANGED <<clock, lastValid, retryAt, refresh, quotaAt, forgotten, redis>>
  BY DEF Join, memory
<1>4. Carried'
  BY <1>1, <1>2, <1>3 DEF IInv, Carried
<1>5. OldAndNew' /\ QuotaRespected'
  BY <1>3 DEF IInv, OldAndNew, QuotaRespected
<1> QED
  BY <1>2, <1>4, <1>5 DEF IInv

\* A refresh begins only when the quota error before it is over.
LEMMA LeadSound ==
    ASSUME IInv, NEW c \in Clients, Lead(c)
    PROVE  IInv'
<1>1. /\ reply' \in [Clients -> HonestEnvelopes(clock)]
      /\ phase' \in [Clients -> {"idle", "resuming", "waiting"}]
      /\ Cached(c) \in HonestEnvelopes(clock)
  BY ResumeTyped DEF Lead
<1>2. shown' \in [at : Nat, items : Items] /\ HonestAges'
  BY NothingShownHonest DEF Lead
<1>3. UNCHANGED <<clock, lastValid, retryAt, quotaAt, forgotten, redis>>
  BY DEF Lead
<1>4. refresh' = [NoRefresh EXCEPT !.stage = "batch", !.cached = Cached(c)]
  BY DEF Lead
<1>5. refresh' \in HonestRefreshes(clock) /\ refresh'.stage = "batch"
  BY <1>1, <1>4, NothingIsHonest DEF IInv, Carried, HonestRefreshes, NoRefresh
<1>6. Carried'
  BY <1>1, <1>2, <1>3, <1>5 DEF IInv, Carried
<1>7. OldAndNew'
  BY <1>5 DEF OldAndNew
<1>8. QuotaRespected'
  BY <1>3, <1>5, OverviewAssumption
  DEF IInv, Carried, QuotaRespected, Lead, OverviewAssumption
<1> QED
  BY <1>2, <1>6, <1>7, <1>8 DEF IInv

\* Everyone who waits is given an envelope.
LEMMA ServeTyped ==
    ASSUME IInv, NEW e \in HonestEnvelopes(clock), ServeAll(e)
    PROVE  /\ phase' \in [Clients -> {"idle", "resuming", "waiting"}]
           /\ shown' \in [at : Nat, items : Items] /\ HonestAges'
<1>1. phase' \in [Clients -> {"idle", "resuming", "waiting"}]
  BY DEF IInv, Carried, ServeAll
<1>2. clock \in Nat /\ shown' = Present(e)
  BY DEF IInv, Carried, ServeAll
<1> QED
  BY <1>1, <1>2, PresentHonest

\* The end of a refresh, whichever answer was its last.
LEMMA ConcludeSound ==
    ASSUME IInv, NEW now \in Nat, NEW items \in HonestItems(clock), NEW quota \in BOOLEAN,
           refresh.stage \in {"batch", "asking"},
           Conclude(items, now, quota),
           quotaAt' = (IF quota THEN clock ELSE quotaAt),
           forgotten' = (IF quota THEN FALSE ELSE forgotten),
           UNCHANGED <<clock, redis, reply>>
    PROVE  IInv'
<1>1. /\ clock \in Nat /\ retryAt \in Nat /\ quotaAt \in Nat /\ forgotten \in BOOLEAN
      /\ lastValid \in HonestEnvelopes(clock)
      /\ refresh \in HonestRefreshes(clock)
      /\ redis \in [envelope : HonestEnvelopes(clock), until : Nat]
      /\ phase \in [Clients -> {"idle", "resuming", "waiting"}]
      /\ reply \in [Clients -> HonestEnvelopes(clock)]
  BY DEF IInv, Carried
<1>2. refresh.cached \in HonestEnvelopes(clock) /\ refresh.cached.items \in HonestItems(clock)
  BY <1>1 DEF HonestRefreshes, HonestEnvelopes
<1>3. retryAt' \in Nat /\ quotaAt' \in Nat /\ forgotten' \in BOOLEAN
  <2>1. retryAt' \in Nat /\ quotaAt' \in Nat
    BY <1>1, OverviewAssumption DEF Conclude, OverviewAssumption
  <2>2. forgotten' \in BOOLEAN
    BY <1>1, Zenon
  <2> QED
    BY <2>1, <2>2
<1>4. refresh' \in HonestRefreshes(clock) /\ refresh'.stage \in {"none", "saving"}
  BY <1>1, NoRefreshHonest DEF Conclude
<1>5. lastValid' \in HonestEnvelopes(clock)
  <2>1. MergeItems(items, refresh.cached.items, now) \in HonestItems(clock)
    BY <1>1, <1>2, MergeItemsHonest
  <2> QED
    BY <1>1, <2>1, OverviewAssumption DEF Conclude, HonestEnvelopes, OverviewAssumption
<1>6. /\ phase' \in [Clients -> {"idle", "resuming", "waiting"}]
      /\ shown' \in [at : Nat, items : Items] /\ HonestAges'
  BY <1>1, <1>2, ServeTyped, NothingShownHonest DEF Conclude
<1>7. Carried'
  BY <1>1, <1>3, <1>4, <1>5, <1>6 DEF Carried
<1>8. OldAndNew'
  BY <1>4 DEF OldAndNew
<1>9. QuotaRespected'
  <2>1. CASE quota
    BY <1>1, <1>4, <2>1, OverviewAssumption DEF Conclude, QuotaRespected, OverviewAssumption
  <2>2. CASE ~quota
    BY <1>1, <2>2 DEF IInv, QuotaRespected
  <2> QED
    BY <2>1, <2>2
<1> QED
  BY <1>6, <1>7, <1>8, <1>9 DEF IInv

\* An answer reports a quota error exactly when the client takes it for one.
LEMMA AnsweredQuota ==
    ASSUME NEW r, Answered(r)
    PROVE  /\ quotaAt' = (IF Limited(r) THEN clock ELSE quotaAt)
           /\ forgotten' = (IF Limited(r) THEN FALSE ELSE forgotten)
  BY DEF Answered, Limited

LEMMA BatchSound ==
    ASSUME IInv, NEW r, NEW stats, BatchAnswers(r, stats)
    PROVE  IInv'
<1> DEFINE items == [n \in Networks |->
                        Obtained(IF n \in DOMAIN stats THEN stats[n] ELSE {}, clock)]
           holes == Networks \ DOMAIN stats
<1>1. clock \in Nat
  BY DEF IInv, Carried
<1>2. items \in HonestItems(clock)
  BY <1>1, ObtainedHonest DEF HonestItems
<1>3. Gathered(items, clock)
  BY <1>1, ObtainedHonest DEF Gathered
<1>4. /\ refresh.stage = "batch"
      /\ Answered(r)
      /\ UNCHANGED <<clock, redis, reply>>
      /\ \/ Conclude(items, clock, Limited(r))
         \/ /\ HasStats(r)
            /\ refresh' = [refresh EXCEPT !.stage = "asking", !.now = clock,
                                          !.items = items, !.holes = holes]
            /\ shown' = NothingShown
            /\ UNCHANGED <<lastValid, retryAt, phase>>
  BY DEF BatchAnswers
<1>5. holes \in SUBSET Networks
  OBVIOUS
<1> HIDE DEF items, holes
<1>6. CASE Conclude(items, clock, Limited(r))
  <2>1. Limited(r) \in BOOLEAN
    BY DEF Limited
  <2> QED
    BY <1>1, <1>2, <1>4, <1>6, <2>1, AnsweredQuota, ConcludeSound
<1>7. CASE /\ HasStats(r)
           /\ refresh' = [refresh EXCEPT !.stage = "asking", !.now = clock,
                                         !.items = items, !.holes = holes]
           /\ shown' = NothingShown
           /\ UNCHANGED <<lastValid, retryAt, phase>>
  <2>1. UNCHANGED <<quotaAt, forgotten>>
    BY <1>4, <1>7, AnsweredQuota DEF HasStats
  <2>2. refresh \in HonestRefreshes(clock)
    BY DEF IInv, Carried
  <2>3. /\ refresh' \in HonestRefreshes(clock)
        /\ refresh'.stage = "asking" /\ refresh'.now = clock
        /\ refresh'.cached = refresh.cached /\ refresh'.items = items
    BY <1>1, <1>2, <1>5, <1>7, <2>2 DEF HonestRefreshes
  <2>4. shown' \in [at : Nat, items : Items] /\ HonestAges'
    BY <1>7, NothingShownHonest
  <2>5. Carried'
    BY <1>4, <1>7, <2>1, <2>3, <2>4 DEF IInv, Carried
  <2>6. OldAndNew'
    BY <1>1, <1>3, <1>4, <2>2, <2>3 DEF OldAndNew, HonestRefreshes
  <2>7. QuotaRespected'
    BY <1>4, <2>1 DEF IInv, QuotaRespected
  <2> QED
    BY <2>4, <2>5, <2>6, <2>7 DEF IInv
<1> QED
  BY <1>4, <1>6, <1>7

LEMMA HoleSound ==
    ASSUME IInv, NEW n \in Networks, NEW r, NEW have, HoleAnswers(n, r, have)
    PROVE  IInv'
<1> DEFINE items == [refresh.items EXCEPT ![n] = Obtained(have, refresh.now)]
<1>1. clock \in Nat /\ refresh \in HonestRefreshes(clock)
  BY DEF IInv, Carried
<1>2. /\ refresh.stage = "asking"
      /\ Answered(r)
      /\ UNCHANGED <<clock, redis, reply>>
      /\ \/ Conclude(items, refresh.now, Limited(r))
         \/ /\ ~Limited(r)
            /\ refresh' = [refresh EXCEPT !.items = items, !.holes = @ \ {n}]
            /\ shown' = NothingShown
            /\ UNCHANGED <<lastValid, retryAt, phase>>
  BY DEF HoleAnswers
<1>3. /\ refresh.now \in Nat /\ refresh.now <= clock /\ refresh.items \in HonestItems(clock)
      /\ refresh.cached \in HonestEnvelopes(refresh.now)
      /\ Gathered(refresh.items, refresh.now)
  BY <1>1, <1>2 DEF IInv, OldAndNew, HonestRefreshes
<1>4. /\ Obtained(have, refresh.now) \in [Fields -> Honest(clock)]
      /\ \A f \in Fields : Obtained(have, refresh.now)[f].seen # 0 =>
           /\ Obtained(have, refresh.now)[f].seen >= refresh.now
           /\ Obtained(have, refresh.now)[f].stamp = refresh.now
  BY <1>1, <1>3, ObtainedHonest
<1>5. items \in HonestItems(clock)
  BY <1>3, <1>4 DEF HonestItems
<1>6. Gathered(items, refresh.now)
  BY <1>3, <1>4 DEF Gathered, HonestItems
<1> HIDE DEF items
<1>7. CASE Conclude(items, refresh.now, Limited(r))
  <2>1. Limited(r) \in BOOLEAN
    BY DEF Limited
  <2> QED
    BY <1>2, <1>3, <1>5, <1>7, <2>1, AnsweredQuota, ConcludeSound
<1>8. CASE /\ ~Limited(r)
           /\ refresh' = [refresh EXCEPT !.items = items, !.holes = @ \ {n}]
           /\ shown' = NothingShown
           /\ UNCHANGED <<lastValid, retryAt, phase>>
  <2>1. UNCHANGED <<quotaAt, forgotten>>
    BY <1>2, <1>8, AnsweredQuota
  <2>2. /\ refresh' \in HonestRefreshes(clock)
        /\ refresh'.stage = "asking" /\ refresh'.now = refresh.now
        /\ refresh'.cached = refresh.cached /\ refresh'.items = items
    BY <1>1, <1>2, <1>5, <1>8 DEF HonestRefreshes
  <2>3. shown' \in [at : Nat, items : Items] /\ HonestAges'
    BY <1>8, NothingShownHonest
  <2>4. Carried'
    BY <1>2, <1>8, <2>1, <2>2, <2>3 DEF IInv, Carried
  <2>5. OldAndNew'
    BY <1>2, <1>3, <1>6, <2>2 DEF OldAndNew
  <2>6. QuotaRespected'
    BY <1>2, <2>1 DEF IInv, QuotaRespected
  <2> QED
    BY <2>3, <2>4, <2>5, <2>6 DEF IInv
<1> QED
  BY <1>2, <1>7, <1>8

LEMMA SavedSound ==
    ASSUME IInv, Saved
    PROVE  IInv'
<1>1. clock \in Nat /\ lastValid \in HonestEnvelopes(clock)
  BY DEF IInv, Carried
<1>2. redis' \in [envelope : HonestEnvelopes(clock), until : Nat]
  BY <1>1, OverviewAssumption DEF IInv, Carried, Saved, OverviewAssumption
<1>3. /\ phase' \in [Clients -> {"idle", "resuming", "waiting"}]
      /\ shown' \in [at : Nat, items : Items] /\ HonestAges'
  BY <1>1, ServeTyped DEF Saved
<1>4. refresh' \in HonestRefreshes(clock) /\ refresh'.stage = "none"
  BY <1>1, NoRefreshHonest DEF Saved
<1>5. UNCHANGED <<clock, lastValid, retryAt, quotaAt, forgotten, reply>>
  BY DEF Saved
<1>6. Carried'
  BY <1>2, <1>3, <1>4, <1>5 DEF IInv, Carried
<1>7. OldAndNew'
  BY <1>4 DEF OldAndNew
<1>8. QuotaRespected'
  BY <1>4, <1>5 DEF IInv, QuotaRespected
<1> QED
  BY <1>3, <1>6, <1>7, <1>8 DEF IInv

LEMMA TickSound ==
    ASSUME IInv, Tick
    PROVE  IInv'
<1>1. clock \in Nat /\ clock' = clock + 1
  BY DEF IInv, Carried, Tick
<1>2. /\ HonestEnvelopes(clock) \subseteq HonestEnvelopes(clock')
      /\ HonestItems(clock) \subseteq HonestItems(clock')
  BY <1>1, HonestGrows
<1>3. UNCHANGED <<lastValid, retryAt, refresh, quotaAt, forgotten, phase, reply>>
  BY DEF Tick, memory
<1>4. refresh' \in HonestRefreshes(clock')
  BY <1>2, <1>3 DEF IInv, Carried, HonestRefreshes
<1>5. redis' \in [envelope : HonestEnvelopes(clock'), until : Nat]
  <2>1. NoEntry \in [envelope : HonestEnvelopes(clock'), until : Nat]
    BY <1>1, NothingIsHonest DEF NoEntry
  <2> QED
    BY <1>2, <2>1 DEF IInv, Carried, Tick
<1>6. shown' \in [at : Nat, items : Items] /\ HonestAges'
  BY NothingShownHonest DEF Tick
<1>7. Carried'
  <2>1. clock' \in Nat /\ retryAt' \in Nat /\ quotaAt' \in Nat /\ forgotten' \in BOOLEAN
    BY <1>1, <1>3 DEF IInv, Carried
  <2>2. lastValid' \in HonestEnvelopes(clock') /\ reply' \in [Clients -> HonestEnvelopes(clock')]
    BY <1>2, <1>3 DEF IInv, Carried
  <2>3. phase' \in [Clients -> {"idle", "resuming", "waiting"}]
    BY <1>3 DEF IInv, Carried
  <2> QED
    BY <1>4, <1>5, <1>6, <2>1, <2>2, <2>3 DEF Carried
<1>8. OldAndNew'
  <2>1. ASSUME refresh.stage = "asking" PROVE refresh.now <= clock'
    BY <1>1, <2>1 DEF IInv, Carried, OldAndNew, HonestRefreshes
  <2> QED
    BY <1>3, <2>1 DEF IInv, OldAndNew
<1>9. QuotaRespected'
  BY <1>1, <1>3, OverviewAssumption DEF IInv, Carried, QuotaRespected, OverviewAssumption
<1> QED
  BY <1>6, <1>7, <1>8, <1>9 DEF IInv

LEMMA RestartSound ==
    ASSUME IInv, Restart
    PROVE  IInv'
<1>1. clock \in Nat /\ UNCHANGED clock
  BY DEF IInv, Carried, Restart
<1>2. NoEnvelope \in HonestEnvelopes(clock)
  BY <1>1, NothingIsHonest
<1>3. redis' \in [envelope : HonestEnvelopes(clock), until : Nat]
  BY <1>1, OverviewAssumption DEF IInv, Carried, Restart, OverviewAssumption
<1>4. shown' \in [at : Nat, items : Items] /\ HonestAges'
  BY NothingShownHonest DEF Restart
<1>5. refresh' \in HonestRefreshes(clock) /\ refresh'.stage = "none"
  BY <1>1, NoRefreshHonest DEF Restart
<1>6. /\ phase' \in [Clients -> {"idle", "resuming", "waiting"}]
      /\ reply' \in [Clients -> HonestEnvelopes(clock)]
      /\ lastValid' \in HonestEnvelopes(clock)
      /\ retryAt' \in Nat /\ quotaAt' = quotaAt /\ forgotten' = (quotaAt # 0)
  BY <1>2 DEF Restart
<1>7. Carried'
  BY <1>1, <1>3, <1>4, <1>5, <1>6 DEF IInv, Carried
<1>8. OldAndNew' /\ QuotaRespected'
  BY <1>5, <1>6 DEF OldAndNew, QuotaRespected
<1> QED
  BY <1>4, <1>7, <1>8 DEF IInv

LEMMA StepSound ==
    IInv /\ [Next]_vars => IInv'
<1> SUFFICES ASSUME IInv, [Next]_vars PROVE IInv'
  OBVIOUS
<1>1. ASSUME NEW c \in Clients, Poll(c) \/ Show(c) \/ Join(c) \/ Lead(c) PROVE IInv'
  BY <1>1, PollSound, ShowSound, JoinSound, LeadSound
<1>2. ASSUME ProviderAnswers PROVE IInv'
  BY <1>2, BatchSound, HoleSound DEF ProviderAnswers, IInv, Carried, HonestRefreshes
<1>3. CASE UNCHANGED vars
  BY <1>3 DEF vars, memory, IInv, Carried, OldAndNew, QuotaRespected, HonestAges
<1> QED
  BY <1>1, <1>2, <1>3, SavedSound, TickSound, RestartSound DEF Next

-----------------------------------------------------------------------------
(* The theorems.                                                             *)

\* Every execution keeps IInv.
THEOREM IInvHolds == Spec => []IInv
<1> QED
  BY InitSound, StepSound, PTL DEF Spec

\* The state of the overview has its type.
THEOREM OverviewTyped == Spec => []TypeOK
<1>1. IInv => TypeOK
  BY HonestIsTyped DEF IInv, Carried, TypeOK, HonestRefreshes, Refreshes
<1> QED
  BY <1>1, IInvHolds, PTL

\* For all times and any number of refreshes, restarts and lost writes: what is shown was
\* obtained within MaxAge, bears no later time than that, and was obtained within Fresh
\* if it is not marked.
THEOREM ShownAgesAreTrue == Spec => []HonestAges
<1>1. IInv => HonestAges
  BY DEF IInv
<1> QED
  BY <1>1, IInvHolds, PTL

\* What Conclude puts in place of the envelope has something new, and every value of the
\* envelope the refresh began with that is not too old, or a newer one.
LEMMA ConcludeKeeps ==
    ASSUME NEW now \in Nat, NEW quota, clock \in Nat, now <= clock,
           NEW items \in HonestItems(clock), Gathered(items, now),
           NEW t \in Nat, refresh.cached \in HonestEnvelopes(t), t <= now,
           Conclude(items, now, quota), lastValid' # lastValid
    PROVE  LET new  == lastValid'.items
               base == refresh.cached.items
           IN  /\ \E n \in Networks, f \in Fields : new[n][f].seen >= now
               /\ \A n \in Networks, f \in Fields :
                     base[n][f].seen # 0 /\ now - base[n][f].stamp <= MaxAge
                         => new[n][f].seen >= base[n][f].seen
<1> DEFINE base == refresh.cached.items
           new  == lastValid'.items
<1>1. Received(items) /\ new = MergeItems(items, base, now)
  BY DEF Conclude
<1>2. base \in HonestItems(t)
  BY DEF HonestEnvelopes
<1> HIDE DEF base
<1>3. ASSUME NEW n \in Networks, NEW f \in Fields
      PROVE  /\ new[n][f] = Merge(items[n][f], base[n][f], now)
             /\ items[n][f] \in Honest(clock) /\ base[n][f] \in Honest(t)
  BY <1>1, <1>2 DEF MergeItems, HonestItems
<1> HIDE DEF new
\* A value that was gathered is taken as it is.
<1>4. ASSUME NEW n \in Networks, NEW f \in Fields, items[n][f].seen # 0
      PROVE  new[n][f].seen = items[n][f].seen /\ new[n][f].seen >= now
  <2> DEFINE v == items[n][f]
             o == base[n][f]
  <2>1. v \in Values /\ v.seen >= now /\ v.stamp = now
    BY <1>3, <1>4 DEF Gathered, Honest
  <2>2. Merge(v, o, now) = [v EXCEPT !.stale = @ \/ now - v.stamp >= Fresh]
    <3>1. ~(now - v.stamp > MaxAge)
      BY <2>1, OverviewAssumption DEF OverviewAssumption
    <3> HIDE DEF v, o
    <3> QED
      BY <1>4, <3>1 DEF Merge, v
  <2>3. Merge(v, o, now).seen = v.seen
    BY <2>1, <2>2 DEF Values
  <2> QED
    BY <1>3, <2>1, <2>3
\* A value that was not is carried over.
<1>5. ASSUME NEW n \in Networks, NEW f \in Fields,
             items[n][f].seen = 0, base[n][f].seen # 0, now - base[n][f].stamp <= MaxAge
      PROVE  new[n][f].seen = base[n][f].seen
  <2> DEFINE v == items[n][f]
             o == base[n][f]
             kept == [o EXCEPT !.stale = TRUE]
  <2>1. o \in Values /\ kept.seen = o.seen /\ kept.stamp = o.stamp /\ kept \in Values
    BY <1>3 DEF Honest, Values
  <2>2. ~(kept.seen = 0 \/ now - kept.stamp > MaxAge)
    BY <1>5, <2>1, OverviewAssumption DEF Values, OverviewAssumption
  <2>3. Merge(v, o, now) = [kept EXCEPT !.stale = @ \/ now - kept.stamp >= Fresh]
    <3> HIDE DEF kept
    <3>1. (IF v.seen = 0 /\ o.seen # 0 /\ now - o.stamp <= MaxAge
           THEN [o EXCEPT !.stale = TRUE] ELSE v) = kept
      BY <1>5 DEF kept
    <3> HIDE DEF v, o
    <3> QED
      BY <2>2, <3>1 DEF Merge
  <2>4. Merge(v, o, now).seen = o.seen
    <3> HIDE DEF kept
    <3> QED
      BY <2>1, <2>3 DEF Values
  <2> QED
    BY <1>3, <2>4
<1>6. \E n \in Networks, f \in Fields : new[n][f].seen >= now
  BY <1>1, <1>4 DEF Received
<1>7. ASSUME NEW n \in Networks, NEW f \in Fields,
             base[n][f].seen # 0, now - base[n][f].stamp <= MaxAge
      PROVE  new[n][f].seen >= base[n][f].seen
  <2>1. base[n][f].seen \in Nat /\ base[n][f].seen <= now
    BY <1>3 DEF Honest, Values
  <2>2. CASE items[n][f].seen = 0
    BY <1>5, <1>7, <2>1, <2>2
  <2>3. CASE items[n][f].seen # 0
    BY <1>3, <1>4, <2>1, <2>3 DEF Honest, Values
  <2> QED
    BY <2>2, <2>3
<1> QED
  BY <1>6, <1>7 DEF new, base

\* Only an answer of the provider replaces the envelope by another one.
THEOREM FailedRefreshKeeps == Spec => FailuresKeepValues
<1> DEFINE Kept ==
        LET now  == IF refresh.stage = "batch" THEN clock ELSE refresh.now
            new  == lastValid'.items
            base == refresh.cached.items
        IN  /\ \E n \in Networks, f \in Fields : new[n][f].seen >= now
            /\ \A n \in Networks, f \in Fields :
                  base[n][f].seen # 0 /\ now - base[n][f].stamp <= MaxAge
                      => new[n][f].seen >= base[n][f].seen
<1>1. ASSUME IInv, NEW r, NEW stats, BatchAnswers(r, stats), lastValid' # lastValid
      PROVE  Kept
  <2> DEFINE items == [n \in Networks |->
                          Obtained(IF n \in DOMAIN stats THEN stats[n] ELSE {}, clock)]
  <2>1. clock \in Nat /\ refresh.cached \in HonestEnvelopes(clock)
    BY <1>1 DEF IInv, Carried, HonestRefreshes
  <2>2. items \in HonestItems(clock) /\ Gathered(items, clock)
    BY <2>1, ObtainedHonest DEF HonestItems, Gathered
  <2>3. refresh.stage = "batch" /\ Conclude(items, clock, Limited(r))
    BY <1>1 DEF BatchAnswers
  <2> HIDE DEF items
  <2>4. clock <= clock
    BY <2>1
  <2>5. /\ \E n \in Networks, f \in Fields : lastValid'.items[n][f].seen >= clock
        /\ \A n \in Networks, f \in Fields :
              refresh.cached.items[n][f].seen # 0
              /\ clock - refresh.cached.items[n][f].stamp <= MaxAge
                  => lastValid'.items[n][f].seen >= refresh.cached.items[n][f].seen
    BY <1>1, <2>1, <2>2, <2>3, <2>4, ConcludeKeeps
  <2> QED
    BY <2>3, <2>5
<1>2. ASSUME IInv, NEW n \in Networks, NEW r, NEW have, HoleAnswers(n, r, have),
             lastValid' # lastValid
      PROVE  Kept
  <2> DEFINE now   == refresh.now
             items == [refresh.items EXCEPT ![n] = Obtained(have, now)]
  <2>1. refresh.stage = "asking" /\ Conclude(items, now, Limited(r))
    BY <1>2 DEF HoleAnswers
  <2>2. clock \in Nat /\ refresh \in HonestRefreshes(clock)
    BY <1>2 DEF IInv, Carried
  <2>3. /\ now \in Nat /\ now <= clock /\ refresh.items \in HonestItems(clock)
        /\ refresh.cached \in HonestEnvelopes(now)
        /\ Gathered(refresh.items, now)
    BY <1>2, <2>1, <2>2 DEF IInv, OldAndNew, HonestRefreshes
  <2>4. items \in HonestItems(clock) /\ Gathered(items, now)
    BY <2>2, <2>3, ObtainedHonest DEF HonestItems, Gathered
  <2> HIDE DEF items, now
  <2>5. now <= now
    BY <2>3
  <2>6. /\ \E m \in Networks, f \in Fields : lastValid'.items[m][f].seen >= now
        /\ \A m \in Networks, f \in Fields :
              refresh.cached.items[m][f].seen # 0
              /\ now - refresh.cached.items[m][f].stamp <= MaxAge
                  => lastValid'.items[m][f].seen >= refresh.cached.items[m][f].seen
    BY <1>2, <2>1, <2>2, <2>3, <2>4, <2>5, ConcludeKeeps
  <2> QED
    BY <2>1, <2>6 DEF now
<1> HIDE DEF Kept
<1>3. ASSUME IInv, [Next]_vars, lastValid' # lastValid, lastValid' # NoEnvelope
      PROVE  Kept
  <2>1. ~(\E c \in Clients : Poll(c) \/ Show(c) \/ Join(c) \/ Lead(c))
    BY <1>3 DEF Poll, Show, Join, Lead, memory
  <2>2. ~Saved /\ ~Tick /\ ~Restart /\ ~UNCHANGED vars
    BY <1>3 DEF Saved, Tick, Restart, vars, memory
  <2>3. ProviderAnswers
    BY <1>3, <2>1, <2>2 DEF Next
  <2> QED
    BY <1>1, <1>2, <1>3, <2>3 DEF ProviderAnswers, IInv, Carried, HonestRefreshes
<1>4. IInv /\ [Next]_vars =>
        [lastValid' # lastValid /\ lastValid' # NoEnvelope => Kept]_vars
  BY <1>3
<1> QED
  BY <1>4, IInvHolds, PTL DEF Spec, FailuresKeepValues, Kept

\* While a process lives, it sends no request within QuotaPause of a quota error: neither
\* a batch nor one for a network that was left out, whatever form the error had.  Only a
\* process that was restarted since may, for the pause is lost with its memory.
THEOREM ProviderIsSpared == Spec => ProviderSpared
<1>1. ASSUME IInv, NEW c \in Clients, Lead(c), quotaAt' # 0
      PROVE  forgotten' \/ clock - quotaAt' >= QuotaPause
  BY <1>1, OverviewAssumption
  DEF IInv, Carried, QuotaRespected, Lead, OverviewAssumption
<1>2. ASSUME IInv, [Next]_vars, Asks, ~(\E c \in Clients : Lead(c))
      PROVE  refresh.stage \in {"batch", "asking"} /\ UNCHANGED <<quotaAt, forgotten>>
  <2>1. ~(\E c \in Clients : Poll(c) \/ Show(c) \/ Join(c))
    BY <1>2 DEF Poll, Show, Join, memory, Asks
  <2>2. ~Saved /\ ~Tick /\ ~Restart /\ ~UNCHANGED vars
    BY <1>2 DEF Saved, Tick, Restart, vars, memory, Asks, NoRefresh
  <2>3. ProviderAnswers
    BY <1>2, <2>1, <2>2 DEF Next
  <2>4. ASSUME NEW r, NEW stats, BatchAnswers(r, stats)
        PROVE  refresh.stage \in {"batch", "asking"} /\ UNCHANGED <<quotaAt, forgotten>>
    <3>1. refresh.stage = "batch" /\ ~Limited(r) /\ Answered(r)
      BY <1>2, <2>4 DEF BatchAnswers, Asks, Conclude, NoRefresh, HasStats
    <3>2. UNCHANGED <<quotaAt, forgotten>>
      BY <3>1, AnsweredQuota
    <3> QED
      BY <3>1, <3>2
  <2>5. ASSUME NEW n, NEW r, NEW have, HoleAnswers(n, r, have)
        PROVE  refresh.stage \in {"batch", "asking"} /\ UNCHANGED <<quotaAt, forgotten>>
    <3>1. refresh.stage = "asking" /\ ~Limited(r) /\ Answered(r)
      BY <1>2, <2>5 DEF HoleAnswers, Asks, Conclude, NoRefresh
    <3>2. UNCHANGED <<quotaAt, forgotten>>
      BY <3>1, AnsweredQuota
    <3> QED
      BY <3>1, <3>2
  <2> QED
    BY <2>3, <2>4, <2>5 DEF ProviderAnswers
<1>3. ASSUME IInv, [Next]_vars, Asks, quotaAt' # 0
      PROVE  forgotten' \/ clock - quotaAt' >= QuotaPause
  <2>1. CASE ~(\E c \in Clients : Lead(c))
    BY <1>2, <1>3, <2>1 DEF IInv, QuotaRespected
  <2> QED
    BY <1>1, <1>3, <2>1
<1>4. IInv /\ [Next]_vars =>
        [Asks /\ quotaAt' # 0 => forgotten' \/ clock - quotaAt' >= QuotaPause]_vars
  BY <1>3
<1> QED
  BY <1>4, IInvHolds, PTL DEF Spec, ProviderSpared

-----------------------------------------------------------------------------
(* What liveness rests on: whoever waits, waits for a refresh.               *)

\* A refresh under way awaits an answer or a write, and clients wait for no other.
PollsAreUnderWay ==
    /\ \A c \in Clients : phase[c] = "waiting" => refresh.stage # "none"
    /\ refresh.stage = "asking" => refresh.holes # {}

LEMMA StepUnderWay == IInv /\ PollsAreUnderWay /\ [Next]_vars => PollsAreUnderWay'
<1> SUFFICES ASSUME IInv, PollsAreUnderWay, [Next]_vars PROVE PollsAreUnderWay'
  OBVIOUS
<1>1. /\ phase \in [Clients -> {"idle", "resuming", "waiting"}]
      /\ refresh \in HonestRefreshes(clock)
  BY DEF IInv, Carried
<1>2. ASSUME NEW c \in Clients, Poll(c) \/ Show(c) \/ Join(c) PROVE PollsAreUnderWay'
  BY <1>1, <1>2 DEF Poll, Show, Join, memory, PollsAreUnderWay
<1>3. ASSUME NEW c \in Clients, Lead(c) PROVE PollsAreUnderWay'
  BY <1>1, <1>3 DEF Lead, NoRefresh, PollsAreUnderWay
<1>4. ASSUME NEW e, ServeAll(e) PROVE \A c \in Clients : phase'[c] # "waiting"
  BY <1>4 DEF ServeAll, Waiting
<1>5. ASSUME NEW items, NEW now, NEW quota, Conclude(items, now, quota), refresh.stage # "none"
      PROVE  PollsAreUnderWay'
  <2>1. CASE Received(items)
    BY <1>5, <2>1 DEF Conclude, NoRefresh, PollsAreUnderWay
  <2>2. CASE ~Received(items)
    BY <1>4, <1>5, <2>2 DEF Conclude, NoRefresh, PollsAreUnderWay
  <2> QED
    BY <2>1, <2>2
<1>6. ASSUME NEW r, NEW stats, BatchAnswers(r, stats) PROVE PollsAreUnderWay'
  <2> DEFINE items == [n \in Networks |->
                         Obtained(IF n \in DOMAIN stats THEN stats[n] ELSE {}, clock)]
             holes == Networks \ DOMAIN stats
  <2>1. CASE HasStats(r) /\ holes # {}
    <3>1. /\ refresh' = [refresh EXCEPT !.stage = "asking", !.now = clock,
                                        !.items = items, !.holes = holes]
          /\ UNCHANGED phase
      BY <1>6, <2>1 DEF BatchAnswers
    <3> HIDE DEF items, holes
    <3>2. refresh'.stage = "asking" /\ refresh'.holes = holes
      BY <1>1, <3>1 DEF HonestRefreshes
    <3> QED
      BY <2>1, <3>1, <3>2 DEF PollsAreUnderWay
  <2>2. CASE ~(HasStats(r) /\ holes # {})
    BY <1>5, <1>6, <2>2 DEF BatchAnswers
  <2> QED
    BY <2>1, <2>2
<1>7. ASSUME NEW n, NEW r, NEW have, HoleAnswers(n, r, have) PROVE PollsAreUnderWay'
  <2> DEFINE items == [refresh.items EXCEPT ![n] = Obtained(have, refresh.now)]
  <2>1. CASE refresh.holes # {n} /\ ~Limited(r)
    <3>1. /\ refresh' = [refresh EXCEPT !.items = items, !.holes = @ \ {n}]
          /\ UNCHANGED phase /\ refresh.stage = "asking" /\ n \in refresh.holes
      BY <1>7, <2>1 DEF HoleAnswers
    <3> HIDE DEF items
    <3>2. refresh'.stage = "asking" /\ refresh'.holes = refresh.holes \ {n}
      BY <1>1, <3>1 DEF HonestRefreshes
    <3> QED
      BY <2>1, <3>1, <3>2 DEF PollsAreUnderWay
  <2>2. CASE ~(refresh.holes # {n} /\ ~Limited(r))
    BY <1>5, <1>7, <2>2 DEF HoleAnswers
  <2> QED
    BY <2>1, <2>2
<1>8. CASE Saved
  BY <1>4, <1>8 DEF Saved, NoRefresh, PollsAreUnderWay
<1>9. CASE Restart
  BY <1>9 DEF Restart, NoRefresh, PollsAreUnderWay
<1>10. CASE Tick \/ UNCHANGED vars
  BY <1>10 DEF Tick, memory, vars, PollsAreUnderWay
<1> QED
  BY <1>2, <1>3, <1>6, <1>7, <1>8, <1>9, <1>10 DEF Next, ProviderAnswers

\* A client that waits does so for a refresh under way, and a refresh that asks for
\* networks has one left to ask for.
THEOREM PollersAwaitARefresh == Spec => []PollsAreUnderWay
<1>1. Init => PollsAreUnderWay
  BY DEF Init, NoRefresh, PollsAreUnderWay
<1> QED
  BY <1>1, IInvHolds, StepUnderWay, PTL DEF Spec
=============================================================================
