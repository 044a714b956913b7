-------------------------- MODULE SessionLifecycle --------------------------
(***************************************************************************)
(* Anonymous sessions: the rows of user_sessions and search_histories, the   *)
(* signed cookie in each browser, the requests that resolve a session in the *)
(* middleware and record searches under it, and the retention script that    *)
(* runs beside them.  A session is named by the request it was issued to,    *)
(* and so is the row of history a request writes.                            *)
(***************************************************************************)
EXTENDS Integers, FiniteSets

CONSTANTS
    Requests,   \* the HTTP requests
    Earlier,    \* those answered when the model starts, one to a browser
    Clients,    \* the browsers
    ClientOf,   \* [Requests -> the browser that sends it]
    NoOne,      \* no session
    TTL,        \* life of a session (SESSION_TTL_DAYS)
    Lag,        \* bound on the two queries of touchSession: the pool's timeouts
    Retention,  \* age at which history is removed (30 days in cleanup.cjs)
    Batch,      \* rows of a table one run of the script removes (500)
    MaxClock    \* bound of the clock

ASSUME SessionAssumption ==
    /\ NoOne \notin Requests
    /\ ClientOf \in [Requests -> Clients]
    /\ Earlier \subseteq Requests
    /\ \A q, r \in Earlier : ClientOf[q] = ClientOf[r] => q = r
    /\ TTL \in Nat /\ Lag \in Nat /\ 2 * Lag < TTL
    /\ Retention \in Nat /\ Batch \in Nat \ {0} /\ MaxClock \in Nat

VARIABLES
    clock,       \* Date.now(), of the API, the script and the browsers
    jar,         \* [Clients -> the cookie and when the browser drops it]
    req,         \* [Requests -> where the request is, and its local variables]
    issued,      \* the sessions in the table
    expiresAt,   \* [Requests -> their expiry]
    rows,        \* the requests whose history row is in the table
    searchedAt,  \* [Requests -> when it was written]
    sweep        \* the retention script and what it has read

vars == <<clock, jar, req, issued, expiresAt, rows, searchedAt, sweep>>

Stages == {"idle", "validating", "touching", "writing", "creating",
           "resolved", "done", "failed"}

\* at: the time its expiry is computed from; write: newExpiresAt of touchSession.
TypeOK ==
    /\ clock \in Nat
    /\ jar \in [Clients -> [session : Requests \cup {NoOne}, until : Nat]]
    /\ req \in [Requests -> [stage : Stages, sent : Requests \cup {NoOne}, at : Nat, write : Nat,
                             session : Requests \cup {NoOne}, maxAge : Nat]]
    /\ issued \subseteq Requests
    /\ expiresAt \in [Requests -> Nat]
    /\ rows \subseteq Requests
    /\ searchedAt \in [Requests -> Nat]
    /\ sweep \in [stage : {"idle", "history", "sessions"},
                  history : SUBSET Requests, sessions : SUBSET Requests]

NoSweep == [stage |-> "idle", history |-> {}, sessions |-> {}]

\* A request that has, at clock 0, been issued a session or, otherwise, not been sent.
Init ==
    /\ clock = 0
    /\ issued = Earlier
    /\ expiresAt = [r \in Requests |-> IF r \in Earlier THEN TTL ELSE 0]
    /\ req = [r \in Requests |->
                 [stage |-> IF r \in Earlier THEN "done" ELSE "idle", sent |-> NoOne,
                  at |-> 0, write |-> 0, session |-> IF r \in Earlier THEN r ELSE NoOne,
                  maxAge |-> IF r \in Earlier THEN TTL ELSE 0]]
    /\ jar \in [Clients -> [session : Earlier \cup {NoOne}, until : {0, TTL}]]
    /\ \A c \in Clients :
          /\ jar[c].until = 0 <=> jar[c].session = NoOne
          /\ \A r \in Earlier : jar[c].session = r <=> ClientOf[r] = c
    /\ rows \in SUBSET Earlier
    /\ searchedAt = [r \in Requests |-> 0]
    /\ sweep = NoSweep

tables == <<issued, expiresAt, rows, searchedAt>>

Monus(a, b) == IF b > a THEN 0 ELSE a - b

-----------------------------------------------------------------------------
(* The middleware.                                                           *)

\* The browser sends the cookie it has not dropped yet.
Send(r) ==
    LET cookie == jar[ClientOf[r]]
        sent == IF clock < cookie.until THEN cookie.session ELSE NoOne
    IN  /\ req[r].stage = "idle"
        /\ req' = [req EXCEPT ![r] =
             [@ EXCEPT !.stage = IF sent = NoOne THEN "creating" ELSE "validating",
                       !.sent = sent, !.at = clock]]
        /\ UNCHANGED <<clock, jar, tables, sweep>>

\* validateSession; a valid session is touched, anything else replaced.
Validate(r) ==
    LET valid == req[r].sent \in issued /\ expiresAt[req[r].sent] > clock
    IN  /\ req[r].stage = "validating"
        /\ req' = [req EXCEPT ![r] =
             [@ EXCEPT !.stage = IF valid THEN "touching" ELSE "creating", !.at = clock]]
        /\ UNCHANGED <<clock, jar, tables, sweep>>

\* Mutants: each use adds a lifetime to the expiry; only an expired session is extended.
ExtendedFromExpiry(expiry, now) == IF 2 * (expiry - now) < TTL THEN expiry + TTL ELSE expiry
ExtendedLate(expiry, now) == IF expiry <= now THEN now + TTL ELSE expiry

\* Mutant: an expiry that does not change is written as nothing.
ExtendedOrNothing(expiry, now) == IF 2 * (expiry - now) < TTL THEN now + TTL ELSE NoOne

\* A session with less than half its life left gets a whole one.
Extended(expiry, now) == IF 2 * (expiry - now) < TTL THEN now + TTL ELSE expiry

\* touchSession reads the row again; the expiry it will write is settled here.
TouchRead(r) ==
    LET s == req[r].sent
    IN  /\ req[r].stage = "touching"
        /\ req' = [req EXCEPT ![r] =
             IF s \in issued
             THEN [@ EXCEPT !.stage = "writing", !.write = Extended(expiresAt[s], req[r].at)]
             ELSE [@ EXCEPT !.stage = "creating", !.at = clock]]
        /\ UNCHANGED <<clock, jar, tables, sweep>>

\* The session is known: the cookie is to live as long as the row still does.
Resolved(r, s, expiry) ==
    [req[r] EXCEPT !.stage = "resolved", !.session = s, !.maxAge = Monus(expiry, clock)]

\* Whatever fails in the database before the session is known fails the request.
Failed(r) == [req[r] EXCEPT !.stage = "failed"]

\* The update, whose answer may be lost; the row may be gone, which is an error.
TouchWrite(r) ==
    LET s == req[r].sent
    IN  /\ req[r].stage = "writing" /\ s \in issued
        /\ expiresAt' = [expiresAt EXCEPT ![s] = req[r].write]
        /\ \E outcome \in {Resolved(r, s, req[r].write), Failed(r)} :
              req' = [req EXCEPT ![r] = outcome]
        /\ UNCHANGED <<clock, jar, issued, rows, searchedAt, sweep>>

Create(r) ==
    LET expiry == req[r].at + TTL
    IN  /\ req[r].stage = "creating"
        /\ issued' = issued \cup {r}
        /\ expiresAt' = [expiresAt EXCEPT ![r] = expiry]
        /\ \E outcome \in {Resolved(r, r, expiry), Failed(r)} :
              req' = [req EXCEPT ![r] = outcome]
        /\ UNCHANGED <<clock, jar, rows, searchedAt, sweep>>

Resolving(r) == req[r].stage \in {"validating", "touching", "writing", "creating"}

\* A query fails, or the row to update is not there.
QueryFails(r) ==
    /\ Resolving(r)
    /\ req' = [req EXCEPT ![r] = Failed(r)]
    /\ UNCHANGED <<clock, jar, tables, sweep>>

-----------------------------------------------------------------------------
(* The search, and the answer.                                               *)

\* A lookup records its search before it is answered.  The row refers to its
\* session: without it, as in any other failure, nothing is written and that is no
\* error.  Other requests write nothing.
Recorded(r) ==
    /\ req[r].session \in issued
    /\ rows' = rows \cup {r}
    /\ searchedAt' = [searchedAt EXCEPT ![r] = clock]
Unrecorded == UNCHANGED <<rows, searchedAt>>

\* The browser counts the life of the cookie from when the answer arrives, if it does.
Received(r) ==
    jar' = [jar EXCEPT ![ClientOf[r]] =
              [session |-> req[r].session, until |-> clock + req[r].maxAge]]
Lost == UNCHANGED jar

Answer(r) ==
    /\ req[r].stage = "resolved"
    /\ Recorded(r) \/ Unrecorded
    /\ Received(r) \/ Lost
    /\ req' = [req EXCEPT ![r] = [@ EXCEPT !.stage = "done"]]
    /\ UNCHANGED <<clock, issued, expiresAt, sweep>>

-----------------------------------------------------------------------------
(* cleanup.cjs --execute; a dry run stops after its reads.                   *)

Expired(s)   == expiresAt[s] < clock
Children(s, history) == {h \in history : req[h].session = s}

\* The oldest of a table, at most Batch of them.
Oldest(S, age) ==
    {B \in SUBSET S :
        /\ Cardinality(B) <= Batch
        /\ B # S => Cardinality(B) = Batch
        /\ \A x \in B, y \in S \ B : age[x] <= age[y]}

\* Mutant: the age of a row alone decides.
OldRows == {h \in rows : searchedAt[h] + Retention < clock}

EligibleRows == {h \in rows : searchedAt[h] + Retention < clock \/ Expired(req[h].session)}
EligibleSessions == {s \in issued : Expired(s) /\ Children(s, rows) = {}}

\* A run that begins with nothing to find is left out.
SweepReadsHistory ==
    /\ sweep.stage = "idle"
    /\ EligibleRows # {} \/ EligibleSessions # {}
    /\ \E batch \in Oldest(EligibleRows, searchedAt) :
          sweep' = [stage |-> "history", history |-> batch, sessions |-> {}]
    /\ UNCHANGED <<clock, jar, req, tables>>

SweepReadsSessions ==
    /\ sweep.stage = "history"
    /\ \E batch \in Oldest(EligibleSessions, expiresAt) :
          sweep' = [sweep EXCEPT !.stage = "sessions", !.sessions = batch]
    /\ UNCHANGED <<clock, jar, req, tables>>

\* Mutants: what the reads found is deleted without another look at its expiry, or
\* at its children.
DoomedUnchecked == {s \in sweep.sessions : Children(s, rows \ sweep.history) = {}}
DoomedWithChildren == {s \in sweep.sessions : Expired(s)}

\* The sessions among those read that are still expired and childless.
Doomed == {s \in sweep.sessions : Expired(s) /\ Children(s, rows \ sweep.history) = {}}

\* One transaction; a session takes the history it still has with it.
SweepDeletes ==
    /\ sweep.stage = "sessions"
    /\ issued' = issued \ Doomed
    /\ rows' = {h \in rows \ sweep.history : req[h].session \notin Doomed}
    /\ sweep' = NoSweep
    /\ UNCHANGED <<clock, jar, req, expiresAt, searchedAt>>

SweepFails ==
    /\ sweep.stage # "idle"
    /\ sweep' = NoSweep
    /\ UNCHANGED <<clock, jar, req, tables>>

-----------------------------------------------------------------------------
\* The queries of a request time out within Lag.
Tick ==
    /\ clock < MaxClock
    /\ \A r \in Requests : Resolving(r) => clock < req[r].at + Lag
    /\ clock' = clock + 1
    /\ UNCHANGED <<jar, req, tables, sweep>>

Finished ==
    /\ \A r \in Requests : req[r].stage \in {"done", "failed"}
    /\ UNCHANGED vars

Resolve(r) == Validate(r) \/ TouchRead(r) \/ TouchWrite(r) \/ Create(r) \/ QueryFails(r)

Next ==
    \/ \E r \in Requests : Send(r) \/ Resolve(r) \/ Answer(r)
    \/ SweepReadsHistory \/ SweepReadsSessions \/ SweepDeletes \/ SweepFails
    \/ Tick
    \/ Finished

\* Every query and every lookup is bounded by timers.  The script is repeated until
\* nothing is left for it, as its operator is told to, and does not fail for ever.
Fairness ==
    /\ \A r \in Requests : WF_vars(Resolve(r)) /\ WF_vars(Answer(r))
    /\ WF_vars(SweepReadsHistory) /\ SF_vars(SweepReadsSessions) /\ SF_vars(SweepDeletes)

Spec == Init /\ [][Next]_vars /\ Fairness

-----------------------------------------------------------------------------
(* Properties.                                                               *)

\* DEPLOYMENT.md:114: "Active sessions are not deleted", although a session the
\* script has read as expired may have been renewed since by a request under way, and
\* may have got a row of history, which the session would take with it (cleanup.cjs:
\* "only delete childless sessions").
OnlyTheExpired ==
    [][/\ \A s \in issued \ issued' : Expired(s)
       /\ rows \ rows' \subseteq sweep.history]_vars

\* No session outlives the last use of it by more than a lifetime, whatever the
\* order in which concurrent requests read its expiry and write it back.
Uses(r, s) == r = s \/ (req[r].sent = s /\ req[r].write # 0)
LifeEarned ==
    \A s \in issued : \E r \in Requests : Uses(r, s) /\ expiresAt[s] <= req[r].at + TTL

\* Use keeps a session alive: whatever is written back in whatever order, its expiry
\* leaves at least half a lifetime to a use no more than a query's time (Lag) before
\* the latest one.  (A request may write back an expiry it read before another one
\* extended it.)
KeptInUse ==
    \A r \in Requests : req[r].session \in issued =>
        \E q \in Requests :
            /\ Uses(q, req[r].session) /\ req[q].at + Lag >= req[r].at
            /\ 2 * (expiresAt[req[r].session] - req[q].at) >= TTL

\* Repeated bounded batches remove every session that has expired, the ones whose
\* history must go first included, unless a request under way renews it.
ExpiredRemoved == []<>(\A s \in issued : ~Expired(s))

\* DEPLOYMENT.md:114: "Retain search history and request logs for 30 days; remove
\* history of expired sessions": no row goes that is younger and whose session is active.
HistoryRetained ==
    [][\A h \in rows \ rows' : searchedAt[h] + Retention < clock \/ Expired(req[h].session)]_vars
=============================================================================
