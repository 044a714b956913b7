---------------------------- MODULE SessionProofs ----------------------------
(***************************************************************************)
(* Proofs about SessionLifecycle: no session lives longer than its use has    *)
(* earned or shorter than it deserves, however the reads and writes of        *)
(* requests and of the script interleave.                                     *)
(***************************************************************************)
EXTENDS SessionLifecycle, TLAPS

Settled == {"resolved", "done", "failed"}

\* The instants of the requests, and how long a query may take.
Timed ==
    \A r \in Requests :
        /\ req[r].at <= clock
        /\ Resolving(r) => clock <= req[r].at + Lag

\* A session is known to a request that has settled; none has written before it is sent.
Staged ==
    \A r \in Requests :
        /\ req[r].stage = "idle" => req[r].write = 0
        /\ req[r].session # NoOne => req[r].stage \in Settled

\* The expiry a request is about to write is earned by a use and serves its own.
WritesSoundly(r) ==
    /\ req[r].sent \in Requests /\ req[r].write # 0
    /\ 2 * (req[r].write - req[r].at) >= TTL
    /\ \E q \in Requests : Uses(q, req[r].sent) /\ req[r].write <= req[q].at + TTL
Writing == \A r \in Requests : req[r].stage = "writing" => WritesSoundly(r)

\* The use an expiry serves is one that has settled, and none of a session is later
\* than it by more than a query's time.
Serves(w, s) ==
    /\ Uses(w, s) /\ req[w].stage \in Settled
    /\ 2 * (expiresAt[s] - req[w].at) >= TTL
    /\ \A r \in Requests : req[r].session = s => req[r].at <= req[w].at + Lag
Kept == \A s \in issued : \E w \in Requests : Serves(w, s)

SessionInv == TypeOK /\ Timed /\ Staged /\ Writing /\ LifeEarned /\ Kept

\* What every step leaves true of a request.
Follows(q) ==
    /\ req[q].at <= req'[q].at
    /\ req[q].write # 0 => req'[q].write # 0 /\ req'[q].sent = req[q].sent
    /\ req[q].stage \in Settled => req'[q].stage \in Settled /\ req'[q].at = req[q].at

LEMMA TTLPositive == TTL \in Nat /\ Lag \in Nat /\ TTL > 0 /\ NoOne \notin Requests
  BY SessionAssumption

\* What a request writes leaves it half a life.
LEMMA ExtendedEnough ==
  ASSUME NEW e \in Nat, NEW t \in Nat
  PROVE  /\ Extended(e, t) \in Nat /\ Extended(e, t) # 0
         /\ 2 * (Extended(e, t) - t) >= TTL
         /\ Extended(e, t) = e \/ Extended(e, t) = t + TTL
  BY TTLPositive DEF Extended

LEMMA MonusNat == ASSUME NEW a \in Nat, NEW b \in Nat PROVE Monus(a, b) \in Nat
  BY DEF Monus

\* A use stays one.
LEMMA UsesStay ==
  ASSUME NEW q \in Requests, NEW s, Uses(q, s), Follows(q)
  PROVE  Uses(q, s)'
  BY DEF Uses, Follows

-----------------------------------------------------------------------------
\* The steps in which no expiry is written.
LEMMA QuietStep ==
  ASSUME SessionInv, TypeOK', issued' \subseteq issued, expiresAt' = expiresAt,
         \A q \in Requests : Follows(q) /\ req'[q].session = req[q].session
  PROVE  LifeEarned' /\ Kept'
<1>1. ASSUME NEW s \in issued' PROVE \E r \in Requests : Uses(r, s)' /\ expiresAt'[s] <= req'[r].at + TTL
  <2>1. PICK r \in Requests : Uses(r, s) /\ expiresAt[s] <= req[r].at + TTL
    BY DEF SessionInv, LifeEarned
  <2>2. req[r].at \in Nat /\ req'[r].at \in Nat /\ expiresAt[s] \in Nat
    BY DEF SessionInv, TypeOK
  <2>3. req[r].at <= req'[r].at
    BY DEF Follows
  <2>4. expiresAt'[s] <= req'[r].at + TTL
    BY <2>1, <2>2, <2>3, TTLPositive
  <2> QED
    BY <2>1, <2>4, UsesStay
<1>2. ASSUME NEW s \in issued' PROVE \E w \in Requests : Serves(w, s)'
  <2>1. PICK w \in Requests : Serves(w, s)
    BY DEF SessionInv, Kept
  <2>2. Uses(w, s)' /\ req'[w].stage \in Settled /\ req'[w].at = req[w].at
    BY <2>1, UsesStay DEF Serves, Follows
  <2>3. ASSUME NEW r \in Requests, req'[r].session = s PROVE req'[r].at <= req'[w].at + Lag
    <3>1. s \in Requests /\ s # NoOne
      BY TTLPositive DEF SessionInv, TypeOK
    <3>2. req[r].session = s /\ req[r].stage \in Settled
      BY <2>3, <3>1 DEF SessionInv, Staged
    <3>3. req'[r].at = req[r].at
      BY <3>2 DEF Follows
    <3> QED
      BY <2>1, <2>2, <3>2, <3>3 DEF Serves
  <2>4. 2 * (expiresAt'[s] - req'[w].at) >= TTL
    BY <2>1, <2>2 DEF Serves
  <2> QED
    BY <2>2, <2>3, <2>4 DEF Serves
<1> QED
  BY <1>1, <1>2 DEF LifeEarned, Kept

\* The steps in which p writes the expiry t of s.
LEMMA WriteStep ==
  ASSUME SessionInv, TypeOK', Timed', NEW p \in Requests, NEW s \in Requests, NEW t \in Nat,
         issued' \subseteq issued \cup {s}, expiresAt' = [expiresAt EXCEPT ![s] = t],
         \A q \in Requests : Follows(q),
         \A q \in Requests \ {p} : req'[q].session = req[q].session,
         req'[p].session \in {s, req[p].session},
         clock' <= req'[p].at + Lag, req'[p].stage \in Settled, Uses(p, s)',
         req[p].stage \notin Settled,
         2 * (t - req'[p].at) >= TTL,
         \E q \in Requests : Uses(q, s)' /\ t <= req'[q].at + TTL
  PROVE  LifeEarned' /\ Kept'
<1>1. ASSUME NEW x \in issued' PROVE \E r \in Requests : Uses(r, x)' /\ expiresAt'[x] <= req'[r].at + TTL
  <2>1. CASE x = s
    BY <2>1 DEF SessionInv, TypeOK
  <2>2. CASE x # s
    <3>1. PICK r \in Requests : Uses(r, x) /\ expiresAt[x] <= req[r].at + TTL
      BY <2>2 DEF SessionInv, LifeEarned
    <3>2. req[r].at \in Nat /\ req'[r].at \in Nat /\ expiresAt[x] \in Nat /\ expiresAt'[x] = expiresAt[x]
      BY <2>2 DEF SessionInv, TypeOK
    <3>3. req[r].at <= req'[r].at
      BY DEF Follows
    <3>4. expiresAt'[x] <= req'[r].at + TTL
      BY <3>1, <3>2, <3>3, TTLPositive
    <3> QED
      BY <3>1, <3>4, UsesStay
  <2> QED
    BY <2>1, <2>2
<1>2. ASSUME NEW x \in issued' PROVE \E w \in Requests : Serves(w, x)'
  <2>1. CASE x = s
    <3>1. ASSUME NEW r \in Requests PROVE req'[r].at <= req'[p].at + Lag
      <4>1. req'[r].at <= clock' /\ req'[r].at \in Nat /\ req'[p].at \in Nat /\ clock' \in Nat
        BY DEF Timed, TypeOK
      <4> QED
        BY <4>1, TTLPositive
    <3>2. 2 * (expiresAt'[x] - req'[p].at) >= TTL
      BY <2>1 DEF SessionInv, TypeOK
    <3>3. Serves(p, x)'
      BY <2>1, <3>1, <3>2 DEF Serves
    <3> QED
      BY <3>3
  <2>2. CASE x # s
    <3>1. PICK w \in Requests : Serves(w, x)
      BY <2>2 DEF SessionInv, Kept
    <3>2. Uses(w, x)' /\ req'[w].stage \in Settled /\ req'[w].at = req[w].at
      BY <3>1, UsesStay DEF Serves, Follows
    <3>3. ASSUME NEW r \in Requests, req'[r].session = x PROVE req'[r].at <= req'[w].at + Lag
      <4>1. x \in Requests /\ x # NoOne
        BY TTLPositive DEF TypeOK
      <4>2. req[r].session = x
        BY <2>2, <3>3
      <4>3. req[r].stage \in Settled
        BY <4>1, <4>2 DEF SessionInv, Staged
      <4>4. req'[r].at = req[r].at
        BY <4>3 DEF Follows
      <4> QED
        BY <3>1, <3>2, <4>2, <4>4 DEF Serves
    <3>4. expiresAt'[x] = expiresAt[x]
      BY <2>2, TTLPositive DEF SessionInv, TypeOK
    <3>5. 2 * (expiresAt'[x] - req'[w].at) >= TTL
      BY <3>1, <3>2, <3>4 DEF Serves
    <3> QED
      BY <3>2, <3>3, <3>5 DEF Serves
  <2> QED
    BY <2>1, <2>2
<1> QED
  BY <1>1, <1>2 DEF LifeEarned, Kept

\* A request about to write goes on being so, if it is not its step.
LEMMA WritingStays ==
  ASSUME SessionInv, TypeOK', \A q \in Requests : Follows(q),
         NEW r \in Requests, req'[r] = req[r], req[r].stage = "writing"
  PROVE  WritesSoundly(r)'
<1>1. WritesSoundly(r)
  BY DEF SessionInv, Writing
<1>2. PICK q \in Requests : Uses(q, req[r].sent) /\ req[r].write <= req[q].at + TTL
  BY <1>1 DEF WritesSoundly
<1>3. Uses(q, req[r].sent)'
  BY <1>2 DEF Uses, Follows
<1>4. req[q].at \in Nat /\ req'[q].at \in Nat /\ req[r].write \in Nat /\ req[q].at <= req'[q].at
  BY DEF SessionInv, TypeOK, Follows
<1>5. req'[r].write <= req'[q].at + TTL
  BY <1>2, <1>4, TTLPositive
<1> QED
  BY <1>1, <1>3, <1>5 DEF WritesSoundly

-----------------------------------------------------------------------------
\* The steps of a request that change neither its session nor any expiry nor, once it
\* has settled, its instant.
LEMMA RequestStep ==
  ASSUME SessionInv, NEW p \in Requests, NEW n, req' = [req EXCEPT ![p] = n], clock' = clock,
         n.stage \in Stages, n.sent \in Requests \cup {NoOne}, n.at \in Nat, n.write \in Nat,
         n = [req[p] EXCEPT !.stage = n.stage, !.sent = n.sent, !.at = n.at, !.write = n.write],
         issued' = issued, expiresAt' = expiresAt, sweep' = sweep,
         rows' \subseteq Requests, searchedAt' \in [Requests -> Nat],
         jar' \in [Clients -> [session : Requests \cup {NoOne}, until : Nat]],
         n.at \in {req[p].at, clock}, n.stage # "idle",
         n.stage \in {"validating", "touching", "writing", "creating"} =>
            n.at = clock \/ Resolving(p),
         n.stage \in {"validating", "touching", "writing", "creating"} \/
            (n.at = req[p].at /\ n.stage \in Settled),
         req[p].stage \in Settled => n.stage \in Settled,
         req[p].write # 0 => n.write # 0 /\ n.sent = req[p].sent,
         n.stage = "writing" => WritesSoundly(p)'
  PROVE  SessionInv'
<1>1. req[p] \in [stage : Stages, sent : Requests \cup {NoOne}, at : Nat, write : Nat,
                  session : Requests \cup {NoOne}, maxAge : Nat]
  BY DEF SessionInv, TypeOK
<1>2. n \in [stage : Stages, sent : Requests \cup {NoOne}, at : Nat, write : Nat,
             session : Requests \cup {NoOne}, maxAge : Nat]
  BY <1>1
<1>3. n.session = req[p].session
  BY <1>1
<1>4. \A q \in Requests : req'[q] = IF q = p THEN n ELSE req[q]
  BY DEF SessionInv, TypeOK
<1>5. TypeOK'
  BY <1>2 DEF SessionInv, TypeOK
<1>6. Timed'
  <2> SUFFICES ASSUME NEW r \in Requests
               PROVE  req'[r].at <= clock' /\ (Resolving(r)' => clock' <= req'[r].at + Lag)
    BY DEF Timed
  <2>1. clock \in Nat /\ req[r].at \in Nat /\ n.at \in Nat
    BY <1>2 DEF SessionInv, TypeOK
  <2>2. req[r].at <= clock /\ (Resolving(r) => clock <= req[r].at + Lag)
    BY DEF SessionInv, Timed
  <2>3. CASE r # p
    BY <2>2, <2>3, <1>4 DEF Resolving
  <2>4. CASE r = p
    BY <2>1, <2>2, <2>4, <1>4, TTLPositive DEF Resolving
  <2> QED
    BY <2>3, <2>4
<1>7. Staged'
  BY <1>3, <1>4 DEF SessionInv, Staged, Settled
<1>8. \A q \in Requests : Follows(q) /\ req'[q].session = req[q].session
  <2> SUFFICES ASSUME NEW q \in Requests PROVE Follows(q) /\ req'[q].session = req[q].session
    OBVIOUS
  <2>1. req[q].at \in Nat /\ clock \in Nat /\ req[q].at <= clock
    BY DEF SessionInv, TypeOK, Timed
  <2>2. CASE q # p
    BY <2>1, <2>2, <1>4 DEF Follows
  <2>3. CASE q = p
    <3>1. req[p].at <= n.at
      BY <2>1, <2>3
    <3>2. req[p].stage \in Settled => n.stage \in Settled /\ n.at = req[p].at
      BY DEF Settled
    <3> QED
      BY <2>3, <1>3, <1>4, <3>1, <3>2 DEF Follows
  <2> QED
    BY <2>2, <2>3
<1>9. Writing'
  <2> SUFFICES ASSUME NEW r \in Requests, req'[r].stage = "writing" PROVE WritesSoundly(r)'
    BY DEF Writing
  <2>1. CASE r = p
    BY <2>1, <1>4
  <2>2. CASE r # p
    BY <2>2, <1>4, <1>5, <1>8, WritingStays
  <2> QED
    BY <2>1, <2>2
<1>10. LifeEarned' /\ Kept'
  BY <1>5, <1>8, QuietStep
<1> QED
  BY <1>5, <1>6, <1>7, <1>9, <1>10 DEF SessionInv

LEMMA SendStep == ASSUME SessionInv, NEW r \in Requests, Send(r) PROVE SessionInv'
<1> DEFINE cookie == jar[ClientOf[r]]
           sent == IF clock < cookie.until THEN cookie.session ELSE NoOne
           n == [req[r] EXCEPT !.stage = IF sent = NoOne THEN "creating" ELSE "validating",
                               !.sent = sent, !.at = clock]
<1>1. /\ req[r] \in [stage : Stages, sent : Requests \cup {NoOne}, at : Nat, write : Nat,
                     session : Requests \cup {NoOne}, maxAge : Nat]
      /\ clock \in Nat /\ sent \in Requests \cup {NoOne}
  BY SessionAssumption DEF SessionInv, TypeOK
<1>2. req[r].stage = "idle" /\ req[r].write = 0 /\ req' = [req EXCEPT ![r] = n]
  BY DEF Send, SessionInv, Staged
<1>3. UNCHANGED <<clock, jar, issued, expiresAt, rows, searchedAt, sweep>>
  BY DEF Send, tables
<1> HIDE DEF cookie, sent
<1>4. /\ n.stage \in {"creating", "validating"} /\ n.sent = sent /\ n.at = clock
      /\ n.write = req[r].write
      /\ n = [req[r] EXCEPT !.stage = n.stage, !.sent = n.sent, !.at = n.at, !.write = n.write]
  BY <1>1
<1> HIDE DEF n
<1> QED
  BY <1>1, <1>2, <1>3, <1>4, RequestStep DEF Stages, Settled, SessionInv, TypeOK

LEMMA ValidateStep == ASSUME SessionInv, NEW r \in Requests, Validate(r) PROVE SessionInv'
<1> DEFINE valid == req[r].sent \in issued /\ expiresAt[req[r].sent] > clock
           n == [req[r] EXCEPT !.stage = IF valid THEN "touching" ELSE "creating", !.at = clock]
<1>1. /\ req[r] \in [stage : Stages, sent : Requests \cup {NoOne}, at : Nat, write : Nat,
                     session : Requests \cup {NoOne}, maxAge : Nat]
      /\ clock \in Nat
  BY DEF SessionInv, TypeOK
<1>2. req[r].stage = "validating" /\ req' = [req EXCEPT ![r] = n]
  BY DEF Validate
<1>3. UNCHANGED <<clock, jar, issued, expiresAt, rows, searchedAt, sweep>>
  BY DEF Validate, tables
<1> HIDE DEF valid
<1>4. /\ n.stage \in {"creating", "touching"} /\ n.sent = req[r].sent /\ n.at = clock
      /\ n.write = req[r].write
      /\ n = [req[r] EXCEPT !.stage = n.stage, !.sent = n.sent, !.at = n.at, !.write = n.write]
  BY <1>1
<1> HIDE DEF n
<1> QED
  BY <1>1, <1>2, <1>3, <1>4, RequestStep DEF Stages, Settled, SessionInv, TypeOK

LEMMA TouchReadStep == ASSUME SessionInv, NEW r \in Requests, TouchRead(r) PROVE SessionInv'
<1> DEFINE s == req[r].sent
           w == Extended(expiresAt[s], req[r].at)
<1>1. /\ req[r] \in [stage : Stages, sent : Requests \cup {NoOne}, at : Nat, write : Nat,
                     session : Requests \cup {NoOne}, maxAge : Nat]
      /\ clock \in Nat
  BY DEF SessionInv, TypeOK
<1>2. req[r].stage = "touching"
  BY DEF TouchRead
<1>3. UNCHANGED <<clock, jar, issued, expiresAt, rows, searchedAt, sweep>>
  BY DEF TouchRead, tables
<1>4. CASE s \in issued
  <2> DEFINE n == [req[r] EXCEPT !.stage = "writing", !.write = w]
  <2>1. req' = [req EXCEPT ![r] = n]
    BY <1>4 DEF TouchRead
  <2>2. s \in Requests /\ expiresAt[s] \in Nat
    BY <1>4 DEF SessionInv, TypeOK
  <2>3. /\ w \in Nat /\ w # 0 /\ 2 * (w - req[r].at) >= TTL
        /\ w = expiresAt[s] \/ w = req[r].at + TTL
    BY <1>1, <2>2, ExtendedEnough
  <2> HIDE DEF w
  <2>4. /\ n.stage = "writing" /\ n.sent = s /\ n.at = req[r].at /\ n.write = w
        /\ n = [req[r] EXCEPT !.stage = n.stage, !.sent = n.sent, !.at = n.at, !.write = n.write]
    BY <1>1
  <2> HIDE DEF n
  <2>5. \A q \in Requests : req'[q] = IF q = r THEN n ELSE req[q]
    BY <2>1 DEF SessionInv, TypeOK
  <2>6. \E q \in Requests : Uses(q, s)' /\ w <= req'[q].at + TTL
    <3>1. CASE w = expiresAt[s]
      <4>1. PICK q \in Requests : Uses(q, s) /\ w <= req[q].at + TTL
        BY <1>4, <3>1 DEF SessionInv, LifeEarned
      <4>2. Uses(q, s)' /\ req'[q].at = req[q].at
        BY <4>1, <2>3, <2>4, <2>5 DEF Uses
      <4> QED
        BY <4>1, <4>2
    <3>2. CASE w = req[r].at + TTL
      <4>1. Uses(r, s)' /\ req'[r].at = req[r].at
        BY <2>3, <2>4, <2>5 DEF Uses
      <4> QED
        BY <4>1, <3>2, <1>1, TTLPositive
    <3> QED
      BY <2>3, <3>1, <3>2
  <2>7. WritesSoundly(r)'
    BY <2>2, <2>3, <2>4, <2>5, <2>6 DEF WritesSoundly
  <2>8. Resolving(r)
    BY <1>2 DEF Resolving
  <2>9. n.sent = req[r].sent
    BY <2>4
  <2> HIDE DEF s
  <2> QED
    BY <1>1, <1>2, <1>3, <2>1, <2>2, <2>3, <2>4, <2>7, <2>8, <2>9, RequestStep
       DEF Stages, Settled, SessionInv, TypeOK
<1>5. CASE s \notin issued
  <2> DEFINE n == [req[r] EXCEPT !.stage = "creating", !.at = clock]
  <2>1. req' = [req EXCEPT ![r] = n]
    BY <1>5 DEF TouchRead
  <2>2. /\ n.stage = "creating" /\ n.sent = req[r].sent /\ n.at = clock /\ n.write = req[r].write
        /\ n = [req[r] EXCEPT !.stage = n.stage, !.sent = n.sent, !.at = n.at, !.write = n.write]
    BY <1>1
  <2> HIDE DEF n
  <2> QED
    BY <1>1, <1>2, <1>3, <2>1, <2>2, RequestStep DEF Stages, Settled, SessionInv, TypeOK
<1> QED
  BY <1>4, <1>5

\* Requests that fail, and answers: the step settles the request, or it was.
LEMMA QueryFailsStep == ASSUME SessionInv, NEW r \in Requests, QueryFails(r) PROVE SessionInv'
<1> DEFINE n == [req[r] EXCEPT !.stage = "failed"]
<1>1. req[r] \in [stage : Stages, sent : Requests \cup {NoOne}, at : Nat, write : Nat,
                  session : Requests \cup {NoOne}, maxAge : Nat]
  BY DEF SessionInv, TypeOK
<1>2. req' = [req EXCEPT ![r] = n]
  BY DEF QueryFails, Failed
<1>3. UNCHANGED <<clock, jar, issued, expiresAt, rows, searchedAt, sweep>>
  BY DEF QueryFails, tables
<1>4. /\ n.stage = "failed" /\ n.sent = req[r].sent /\ n.at = req[r].at /\ n.write = req[r].write
      /\ n = [req[r] EXCEPT !.stage = n.stage, !.sent = n.sent, !.at = n.at, !.write = n.write]
  BY <1>1
<1> HIDE DEF n
<1> QED
  BY <1>1, <1>2, <1>3, <1>4, RequestStep DEF Stages, Settled, SessionInv, TypeOK

LEMMA AnswerStep == ASSUME SessionInv, NEW r \in Requests, Answer(r) PROVE SessionInv'
<1> DEFINE n == [req[r] EXCEPT !.stage = "done"]
<1>1. /\ req[r] \in [stage : Stages, sent : Requests \cup {NoOne}, at : Nat, write : Nat,
                     session : Requests \cup {NoOne}, maxAge : Nat]
      /\ clock \in Nat /\ ClientOf[r] \in Clients
  BY SessionAssumption DEF SessionInv, TypeOK
<1>2. req[r].stage = "resolved" /\ req' = [req EXCEPT ![r] = n]
  BY DEF Answer
<1>3. UNCHANGED <<clock, issued, expiresAt, sweep>>
  BY DEF Answer
<1>4. rows' \subseteq Requests /\ searchedAt' \in [Requests -> Nat]
  BY <1>1 DEF Answer, Recorded, Unrecorded, SessionInv, TypeOK
<1>5. jar' \in [Clients -> [session : Requests \cup {NoOne}, until : Nat]]
  <2>1. clock + req[r].maxAge \in Nat
    BY <1>1
  <2> QED
    BY <1>1, <2>1 DEF Answer, Received, Lost, SessionInv, TypeOK
<1>6. /\ n.stage = "done" /\ n.sent = req[r].sent /\ n.at = req[r].at /\ n.write = req[r].write
      /\ n = [req[r] EXCEPT !.stage = n.stage, !.sent = n.sent, !.at = n.at, !.write = n.write]
  BY <1>1
<1> HIDE DEF n
<1> QED
  BY <1>1, <1>2, <1>3, <1>4, <1>5, <1>6, RequestStep DEF Stages, Settled, SessionInv, TypeOK

\* The steps that touch no request but may remove rows, or let time pass.
LEMMA OtherStep ==
  ASSUME SessionInv, TypeOK', req' = req, issued' \subseteq issued, expiresAt' = expiresAt, Timed'
  PROVE  SessionInv'
<1>1. \A q \in Requests : Follows(q) /\ req'[q].session = req[q].session
  BY DEF Follows, SessionInv, TypeOK
<1>2. LifeEarned' /\ Kept'
  BY <1>1, QuietStep
<1>3. Staged' /\ Writing'
  <2>1. Staged'
    BY DEF SessionInv, Staged
  <2>2. Writing'
    BY <1>1, WritingStays DEF Writing
  <2> QED
    BY <2>1, <2>2
<1> QED
  BY <1>2, <1>3 DEF SessionInv

LEMMA SweepStep ==
  ASSUME SessionInv, SweepReadsHistory \/ SweepReadsSessions \/ SweepDeletes \/ SweepFails
  PROVE  SessionInv'
<1>1. req' = req /\ clock' = clock /\ expiresAt' = expiresAt /\ issued' \subseteq issued
  BY DEF SweepReadsHistory, SweepReadsSessions, SweepDeletes, SweepFails, tables, Doomed
<1>2. Timed'
  BY <1>1 DEF SessionInv, Timed, Resolving
<1>3. TypeOK'
  <2>1. CASE SweepReadsHistory
    <3>1. PICK batch \in Oldest(EligibleRows, searchedAt) :
             sweep' = [stage |-> "history", history |-> batch, sessions |-> {}]
      BY <2>1 DEF SweepReadsHistory
    <3>2. batch \subseteq Requests
      BY DEF Oldest, EligibleRows, SessionInv, TypeOK
    <3> QED
      BY <2>1, <3>1, <3>2 DEF SweepReadsHistory, tables, SessionInv, TypeOK
  <2>2. CASE SweepReadsSessions
    <3>1. PICK batch \in Oldest(EligibleSessions, expiresAt) :
             sweep' = [sweep EXCEPT !.stage = "sessions", !.sessions = batch]
      BY <2>2 DEF SweepReadsSessions
    <3>2. batch \subseteq Requests
      BY DEF Oldest, EligibleSessions, SessionInv, TypeOK
    <3> QED
      BY <2>2, <3>1, <3>2 DEF SweepReadsSessions, tables, SessionInv, TypeOK
  <2>3. CASE SweepDeletes \/ SweepFails
    BY <2>3 DEF SweepDeletes, SweepFails, NoSweep, tables, SessionInv, TypeOK
  <2> QED
    BY <2>1, <2>2, <2>3
<1> QED
  BY <1>1, <1>2, <1>3, OtherStep

LEMMA TickStep == ASSUME SessionInv, Tick PROVE SessionInv'
<1>1. clock' = clock + 1 /\ UNCHANGED <<jar, req, issued, expiresAt, rows, searchedAt, sweep>>
  BY DEF Tick, tables
<1>2. TypeOK'
  BY <1>1 DEF SessionInv, TypeOK
<1>3. ASSUME NEW r \in Requests PROVE req[r].at <= clock + 1 /\ (Resolving(r) => clock + 1 <= req[r].at + Lag)
  <2>1. clock \in Nat /\ req[r].at \in Nat /\ req[r].at <= clock
    BY DEF SessionInv, TypeOK, Timed
  <2>2. Resolving(r) => clock < req[r].at + Lag
    BY DEF Tick
  <2> QED
    BY <2>1, <2>2, TTLPositive
<1>4. Timed'
  BY <1>1, <1>3 DEF Timed, Resolving
<1> QED
  BY <1>1, <1>2, <1>4, OtherStep

\* The steps in which r writes the expiry t of session s and settles, knowing s or failed.
LEMMA SettlingStep ==
  ASSUME SessionInv, NEW r \in Requests, NEW s \in Requests, NEW t \in Nat, Resolving(r),
         \/ req' = [req EXCEPT ![r] = Resolved(r, s, t)]
         \/ req' = [req EXCEPT ![r] = Failed(r)],
         issued' \subseteq issued \cup {s}, expiresAt' = [expiresAt EXCEPT ![s] = t],
         UNCHANGED <<clock, jar, rows, searchedAt, sweep>>,
         Uses(r, s), 2 * (t - req[r].at) >= TTL,
         \E q \in Requests : Uses(q, s) /\ t <= req[q].at + TTL
  PROVE  SessionInv'
<1>1. PICK n \in {Resolved(r, s, t), Failed(r)} : req' = [req EXCEPT ![r] = n]
  OBVIOUS
<1>2. /\ req[r] \in [stage : Stages, sent : Requests \cup {NoOne}, at : Nat, write : Nat,
                     session : Requests \cup {NoOne}, maxAge : Nat]
      /\ clock \in Nat /\ req[r].stage \notin Settled /\ req[r].session = NoOne
  BY DEF SessionInv, TypeOK, Staged, Resolving, Settled
<1>3. Monus(t, clock) \in Nat
  BY <1>2, MonusNat
<1>4. /\ n.stage \in {"resolved", "failed"} /\ n.sent = req[r].sent /\ n.at = req[r].at
      /\ n.write = req[r].write /\ n.session \in {s, req[r].session}
      /\ n \in [stage : Stages, sent : Requests \cup {NoOne}, at : Nat, write : Nat,
                session : Requests \cup {NoOne}, maxAge : Nat]
  BY <1>2, <1>3 DEF Resolved, Failed, Stages
<1>5. \A q \in Requests : req'[q] = IF q = r THEN n ELSE req[q]
  BY <1>1 DEF SessionInv, TypeOK
<1>6. TypeOK'
  BY <1>1, <1>4 DEF SessionInv, TypeOK
<1>7. Timed'
  BY <1>4, <1>5 DEF SessionInv, Timed, Resolving
<1>8. Staged'
  BY <1>4, <1>5 DEF SessionInv, Staged, Settled
<1>9. \A q \in Requests : Follows(q)
  BY <1>2, <1>4, <1>5 DEF Follows, SessionInv, TypeOK
<1>10. Writing'
  <2> SUFFICES ASSUME NEW q \in Requests, req'[q].stage = "writing" PROVE WritesSoundly(q)'
    BY DEF Writing
  <2>1. q # r /\ req'[q] = req[q]
    BY <1>4, <1>5
  <2> QED
    BY <2>1, <1>6, <1>9, WritingStays
<1>11. clock' <= req'[r].at + Lag
  BY <1>4, <1>5 DEF SessionInv, Timed
<1>12. \E q \in Requests : Uses(q, s)' /\ t <= req'[q].at + TTL
  <2>1. PICK q \in Requests : Uses(q, s) /\ t <= req[q].at + TTL
    OBVIOUS
  <2>2. req'[q].at = req[q].at
    BY <1>4, <1>5
  <2> QED
    BY <2>1, <2>2, <1>9, UsesStay
<1>13. Uses(r, s)' /\ req'[r].stage \in Settled /\ req'[r].at = req[r].at
       /\ req'[r].session \in {s, req[r].session}
  BY <1>4, <1>5, <1>9, UsesStay DEF Settled
<1>14. \A q \in Requests \ {r} : req'[q].session = req[q].session
  BY <1>5
<1>15. LifeEarned' /\ Kept'
  BY <1>2, <1>6, <1>7, <1>9, <1>11, <1>12, <1>13, <1>14, WriteStep
<1> QED
  BY <1>6, <1>7, <1>8, <1>10, <1>15 DEF SessionInv

LEMMA TouchWriteStep == ASSUME SessionInv, NEW r \in Requests, TouchWrite(r) PROVE SessionInv'
<1> DEFINE s == req[r].sent
           t == req[r].write
<1>1. Resolving(r) /\ WritesSoundly(r) /\ t \in Nat
  BY DEF TouchWrite, Resolving, SessionInv, Writing, TypeOK
<1>2. /\ s \in Requests /\ Uses(r, s) /\ 2 * (t - req[r].at) >= TTL
      /\ \E q \in Requests : Uses(q, s) /\ t <= req[q].at + TTL
  BY <1>1 DEF WritesSoundly, Uses
<1>3. /\ \/ req' = [req EXCEPT ![r] = Resolved(r, s, t)]
         \/ req' = [req EXCEPT ![r] = Failed(r)]
      /\ issued' = issued /\ expiresAt' = [expiresAt EXCEPT ![s] = t]
      /\ UNCHANGED <<clock, jar, rows, searchedAt, sweep>>
  BY DEF TouchWrite
<1> HIDE DEF s, t
<1> QED
  BY <1>1, <1>2, <1>3, SettlingStep

LEMMA CreateStep == ASSUME SessionInv, NEW r \in Requests, Create(r) PROVE SessionInv'
<1> DEFINE t == req[r].at + TTL
<1>1. Resolving(r) /\ req[r].at \in Nat
  BY DEF Create, Resolving, SessionInv, TypeOK
<1>2. t \in Nat /\ 2 * (t - req[r].at) >= TTL /\ Uses(r, r) /\ t <= req[r].at + TTL
  BY <1>1, TTLPositive DEF Uses
<1>3. /\ \/ req' = [req EXCEPT ![r] = Resolved(r, r, t)]
         \/ req' = [req EXCEPT ![r] = Failed(r)]
      /\ issued' = issued \cup {r} /\ expiresAt' = [expiresAt EXCEPT ![r] = t]
      /\ UNCHANGED <<clock, jar, rows, searchedAt, sweep>>
  BY DEF Create
<1> HIDE DEF t
<1> QED
  BY <1>1, <1>2, <1>3, SettlingStep

-----------------------------------------------------------------------------
LEMMA InitSession == Init => SessionInv
<1> SUFFICES ASSUME Init PROVE SessionInv
  OBVIOUS
<1> USE TTLPositive, SessionAssumption
<1>1. TypeOK
  BY DEF Init, TypeOK, Stages, NoSweep
<1>2. /\ \A r \in Requests : /\ req[r].at = 0 /\ req[r].write = 0
                             /\ req[r].stage \in {"idle", "done"}
                             /\ req[r].session # NoOne => req[r].stage = "done"
      /\ \A r \in issued : req[r].stage = "done" /\ expiresAt[r] = TTL
      /\ clock = 0 /\ issued \subseteq Requests
  BY DEF Init
<1>3. Timed /\ Staged /\ Writing
  BY <1>2 DEF Timed, Staged, Writing, Resolving, Settled
<1>4. LifeEarned
  BY <1>2 DEF LifeEarned, Uses
<1>5. \A s \in issued : Serves(s, s)
  BY <1>2 DEF Serves, Uses, Settled
<1>6. Kept
  BY <1>2, <1>5 DEF Kept
<1> QED
  BY <1>1, <1>3, <1>4, <1>6 DEF SessionInv

LEMMA StutterSession == ASSUME SessionInv, UNCHANGED vars PROVE SessionInv'
<1>1. UNCHANGED <<clock, jar, req, issued, expiresAt, rows, searchedAt, sweep>>
  BY DEF vars
<1>2. TypeOK' /\ Timed'
  BY <1>1 DEF SessionInv, TypeOK, Timed, Resolving
<1> QED
  BY <1>1, <1>2, OtherStep

LEMMA NextSession == SessionInv /\ [Next]_vars => SessionInv'
<1> SUFFICES ASSUME SessionInv, [Next]_vars PROVE SessionInv'
  OBVIOUS
<1>1. ASSUME NEW r \in Requests, Send(r) \/ Resolve(r) \/ Answer(r) PROVE SessionInv'
  BY <1>1, SendStep, ValidateStep, TouchReadStep, TouchWriteStep, CreateStep,
     QueryFailsStep, AnswerStep DEF Resolve
<1>2. CASE SweepReadsHistory \/ SweepReadsSessions \/ SweepDeletes \/ SweepFails
  BY <1>2, SweepStep
<1>3. CASE Tick
  BY <1>3, TickStep
<1>4. CASE Finished \/ UNCHANGED vars
  BY <1>4, StutterSession DEF Finished
<1> QED
  BY <1>1, <1>2, <1>3, <1>4 DEF Next

\* The invariant the theorems below follow from.
THEOREM SessionInvHolds == Spec => []SessionInv
  BY InitSession, NextSession, PTL DEF Spec

\* For any requests, browsers, lifetimes and batches the tables, the cookies and the
\* requests have their types.
THEOREM SessionsTyped == Spec => []TypeOK
<1>1. SessionInv => TypeOK
  BY DEF SessionInv
<1> QED
  BY <1>1, SessionInvHolds, PTL

\* The expiry of a session is no later than a lifetime after a use of it: touchSession
\* writes back what it has read, but never more than some use has earned.
THEOREM SessionsEarnTheirLife == Spec => []LifeEarned
<1>1. SessionInv => LifeEarned
  BY DEF SessionInv
<1> QED
  BY <1>1, SessionInvHolds, PTL

\* Concurrent touches may write older expiries over younger ones; half a lifetime after
\* a use less than Lag before the latest is left all the same.
THEOREM SessionsKeptInUse == Spec => []KeptInUse
<1>1. SessionInv => KeptInUse
  <2> SUFFICES ASSUME SessionInv, NEW r \in Requests, req[r].session \in issued
               PROVE  \E q \in Requests :
                         /\ Uses(q, req[r].session) /\ req[q].at + Lag >= req[r].at
                         /\ 2 * (expiresAt[req[r].session] - req[q].at) >= TTL
    BY DEF KeptInUse
  <2>1. PICK w \in Requests : Serves(w, req[r].session)
    BY DEF SessionInv, Kept
  <2>2. req[w].at \in Nat /\ req[r].at \in Nat
    BY DEF SessionInv, TypeOK
  <2>3. req[w].at + Lag >= req[r].at
    BY <2>1, <2>2, TTLPositive DEF Serves
  <2> QED
    BY <2>1, <2>3 DEF Serves
<1> QED
  BY <1>1, SessionInvHolds, PTL

\* The script deletes expired sessions only, and no history but what it has read: a
\* session that has got a new row since is not among them.
THEOREM ScriptSparesTheActive == Spec => OnlyTheExpired
<1> DEFINE Step == /\ \A s \in issued \ issued' : Expired(s)
                   /\ rows \ rows' \subseteq sweep.history
<1>1. SessionInv /\ [Next]_vars => [Step]_vars
  <2> SUFFICES ASSUME SessionInv, Next PROVE Step
    BY DEF vars
  <2>1. ASSUME NEW r \in Requests, Send(r) \/ Resolve(r) \/ Answer(r) PROVE Step
    BY <2>1 DEF Send, Resolve, Validate, TouchRead, TouchWrite, Create, QueryFails, Answer,
               Recorded, Unrecorded, tables
  <2>2. CASE SweepDeletes
    <3>1. issued \ issued' \subseteq Doomed
      BY <2>2 DEF SweepDeletes
    <3>2. ASSUME NEW h \in rows \ sweep.history PROVE req[h].session \notin Doomed
      BY <3>2 DEF Doomed, Children
    <3>3. \A h \in rows \ sweep.history : h \in rows'
      BY <2>2, <3>2 DEF SweepDeletes
    <3> QED
      BY <3>1, <3>3 DEF Doomed
  <2>3. CASE SweepReadsHistory \/ SweepReadsSessions \/ SweepFails \/ Tick \/ Finished
    BY <2>3 DEF SweepReadsHistory, SweepReadsSessions, SweepFails, Tick, Finished, tables, vars
  <2> QED
    BY <2>1, <2>2, <2>3 DEF Next
<1> QED
  BY <1>1, SessionInvHolds, PTL DEF Spec, OnlyTheExpired
=============================================================================
