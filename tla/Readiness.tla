------------------------------ MODULE Readiness ------------------------------
(***************************************************************************)
(* The readiness probe, and the connection of the Redis client it rests on:   *)
(* HealthService answers all probes of a time with one check of PostgreSQL    *)
(* and Redis, each bounded by a timer; CacheService keeps a flag beside the   *)
(* state of the ioredis client, which opens a new connection whenever one is  *)
(* lost.  Source: health.service.ts, cache.service.ts, prisma.service.ts.     *)
(***************************************************************************)
EXTENDS Naturals

CONSTANTS
    Probers,     \* monitors that ask /health/ready
    MaxAttempts  \* bound of the count of failed attempts to connect

VARIABLES
    up,        \* the services that are reachable
    link,      \* the connection of the Redis client is to a server that is there
    status,    \* status of the ioredis client
    attempts,  \* failed attempts to connect since the last connection
    flag,      \* isConnected
    check,     \* the check under way (inFlight): what is known of each service
    probing,   \* the monitors that wait for it
    verdict,   \* the last verdict
    reached,   \* history: the services reachable at some time since the check began
    closing    \* what onModuleDestroy has called, if it was called: quit or disconnect

connection == <<link, status, attempts, flag>>
health     == <<check, probing, verdict, reached>>
vars       == <<up, connection, health, closing>>

Services == {"database", "redis"}
NoCheck  == [s \in Services |-> "none"]

\* onModuleInit has called connect.
Init ==
    /\ up \in SUBSET Services
    /\ link = FALSE
    /\ status = "connecting"
    /\ attempts = 0
    /\ flag = FALSE
    /\ check = NoCheck
    /\ probing = {}
    /\ verdict = "none"
    /\ reached = {}
    /\ closing = "none"

-----------------------------------------------------------------------------
(* The services.  A connection to a server that is gone stays open until it   *)
(* is noticed.                                                               *)

GoesDown(s) ==
    /\ s \in up
    /\ up' = up \ {s}
    /\ link' = (link /\ s # "redis")
    /\ UNCHANGED <<status, attempts, flag, health, closing>>

ComesBack(s) ==
    /\ s \notin up
    /\ up' = up \cup {s}
    /\ reached' = reached \cup {s}
    /\ UNCHANGED <<connection, check, probing, verdict, closing>>

-----------------------------------------------------------------------------
(* The Redis client and the handlers of its events.                          *)

\* "connect": the socket is open, the server may still be loading.
Opened ==
    /\ status = "connecting" /\ "redis" \in up
    /\ status' = "connect"
    /\ link' = TRUE
    /\ flag' = FALSE
    /\ UNCHANGED <<up, attempts, health, closing>>

\* "ready".
GetsReady ==
    /\ status = "connect" /\ link
    /\ status' = "ready"
    /\ attempts' = 0
    /\ flag' = TRUE
    /\ UNCHANGED <<up, link, health, closing>>

\* "error" and "close": a connection is lost, or could not be opened.
Closes ==
    /\ \/ status = "connecting" /\ "redis" \notin up
       \/ status \in {"connect", "ready"} /\ ~link
    /\ status' = IF closing = "quit" THEN "end" ELSE "reconnecting"
    /\ attempts' = IF attempts < MaxAttempts THEN attempts + 1 ELSE attempts
    /\ link' = FALSE
    /\ flag' = FALSE
    /\ UNCHANGED <<up, health, closing>>

\* Mutant: three attempts, and no more.
DelayOfThree(times) == IF times <= 3 THEN 500 * times ELSE 0

\* retryStrategy, in milliseconds; 0 would mean to give up.
Delay(times) ==
    LET doublings == IF times - 1 < 6 THEN times - 1 ELSE 6
    IN  IF 500 * 2^doublings < 30000 THEN 500 * 2^doublings ELSE 30000

Retries ==
    /\ status = "reconnecting"
    /\ Delay(attempts) > 0
    /\ status' = "connecting"
    /\ UNCHANGED <<up, link, attempts, flag, health, closing>>

\* Mutant: nothing is done about a client that is not connected.
ShutdownOfConnected ==
    /\ closing = "none"
    /\ closing' = IF flag THEN "quit" ELSE "disconnect"
    /\ UNCHANGED <<up, connection, health>>

\* onModuleDestroy: disconnect, or quit ...
Shutdown ==
    /\ closing = "none"
    /\ closing' = IF flag THEN "quit" ELSE "disconnect"
    /\ IF flag THEN UNCHANGED connection
       ELSE status' = "end" /\ link' = FALSE /\ UNCHANGED <<attempts, flag>>
    /\ UNCHANGED <<up, health>>

\* ... which the server answers, or which fails and is followed by disconnect.
Quits ==
    /\ closing = "quit" /\ status = "ready"
    /\ status' = "end"
    /\ link' = FALSE
    /\ flag' = FALSE
    /\ UNCHANGED <<up, attempts, health, closing>>

-----------------------------------------------------------------------------
(* The probe.                                                                *)

\* Mutant: the flag is taken for an answer.
PingOfFlag == IF flag THEN "up" ELSE "down"

\* ping answers at once when the client is not ready.
Ping == IF flag /\ status = "ready" THEN "asked" ELSE "down"

\* A probe joins the check under way, or starts one.
Probe(p) ==
    /\ p \notin probing
    /\ probing' = probing \cup {p}
    /\ IF check = NoCheck
       THEN /\ check' = [NoCheck EXCEPT !["database"] = "asked", !["redis"] = Ping]
            /\ reached' = up
            /\ verdict' = "none"
       ELSE UNCHANGED <<check, reached, verdict>>
    /\ UNCHANGED <<up, connection, closing>>

\* The service answers.
Answers(s) ==
    /\ check[s] = "asked" /\ s \in up
    /\ s = "redis" => status = "ready" /\ link
    /\ check' = [check EXCEPT ![s] = "up"]
    /\ UNCHANGED <<up, connection, probing, verdict, reached, closing>>

\* Mutant: only an error of the service ends the wait.
FailsIfGone(s) ==
    /\ check[s] = "asked" /\ s \notin up
    /\ check' = [check EXCEPT ![s] = "down"]
    /\ UNCHANGED <<up, connection, probing, verdict, reached, closing>>

\* Its timer fires, or the query or command fails.
Fails(s) ==
    /\ check[s] = "asked"
    /\ check' = [check EXCEPT ![s] = "down"]
    /\ UNCHANGED <<up, connection, probing, verdict, reached, closing>>

\* Both are known: everybody who waits gets the verdict, and the next probe starts
\* another check.
Concludes ==
    /\ \A s \in Services : check[s] \in {"up", "down"}
    /\ verdict' = IF check["database"] = "down" THEN "unavailable"
                  ELSE IF check["redis"] = "up" THEN "ready" ELSE "degraded"
    /\ check' = NoCheck
    /\ probing' = {}
    /\ UNCHANGED <<up, connection, reached, closing>>

-----------------------------------------------------------------------------
Client == Opened \/ GetsReady \/ Closes \/ Retries \/ Quits

Next ==
    \/ \E s \in Services : GoesDown(s) \/ ComesBack(s) \/ Answers(s) \/ Fails(s)
    \/ \E p \in Probers : Probe(p)
    \/ Client
    \/ Shutdown
    \/ Concludes

\* The client's own timers, the loss of a connection that is noticed in the end, and
\* the timers of a check.  No service is assumed to answer.
Fairness ==
    /\ WF_vars(Client)
    /\ \A s \in Services : WF_vars(Fails(s))
    /\ WF_vars(Concludes)

Spec == Init /\ [][Next]_vars /\ Fairness

-----------------------------------------------------------------------------
(* Properties.                                                               *)

\* DEPLOYMENT.md:89: "200 ready when both checks succeed", "200 degraded when only Redis
\* fails".  A service that was out of reach from the beginning of the check to its
\* end is never called ready, whatever the client's status and flag still say of it.
VerdictEarned ==
    /\ verdict = "ready" => reached = Services
    /\ verdict = "degraded" => "database" \in reached

\* Every probe is answered although a service may never answer.
EveryProbeAnswered == \A p \in Probers : p \in probing ~> p \notin probing

\* VERIFICATION.md:9: Redis is used again after any sequence of losses once it stays
\* reachable, however many attempts have failed by then.
RedisUsedAgain == <>[]("redis" \in up /\ closing = "none") => <>[](flag /\ status = "ready")

\* DEPLOYMENT.md:89: "API shutdown hooks close Prisma and Redis on SIGTERM", in whatever
\* state the connection is: nothing reconnects afterwards.
ShutdownEnds == closing # "none" ~> [](status = "end")
=============================================================================
