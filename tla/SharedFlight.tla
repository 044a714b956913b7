---------------------------- MODULE SharedFlight ----------------------------
(***************************************************************************)
(* What callers that share asynchronous work are promised.  Work for a key   *)
(* is a flight led by the caller that started it; a caller that comes while  *)
(* it is under way joins it; when it lands everyone who joined is served its *)
(* result.  inFlightLookups of TransactionsService is such a map.            *)
(***************************************************************************)
CONSTANTS Callers, Keys, NoOne, Results, NoResult

VARIABLES
    asked,     \* [Callers -> the key the caller asks for]
    standing,  \* [Callers -> where the caller is]
    flight,    \* [Keys -> leader of the flight under way, or NoOne]
    awaits,    \* [Callers -> leader of the flight the caller is on]
    landed,    \* [Callers -> result of the flight this caller led]
    got        \* [Callers -> what the caller was served]

flightVars == <<asked, standing, flight, awaits, landed, got>>

Standings == {"new", "waiting", "served", "refused", "lost"}

TypeOK ==
    /\ asked \in [Callers -> Keys]
    /\ standing \in [Callers -> Standings]
    /\ flight \in [Keys -> Callers \cup {NoOne}]
    /\ awaits \in [Callers -> Callers \cup {NoOne}]
    /\ landed \in [Callers -> Results \cup {NoResult}]
    /\ got \in [Callers -> Results \cup {NoResult}]

Init ==
    /\ asked \in [Callers -> Keys]
    /\ standing = [c \in Callers |-> "new"]
    /\ flight = [k \in Keys |-> NoOne]
    /\ awaits = [c \in Callers |-> NoOne]
    /\ landed = [c \in Callers |-> NoResult]
    /\ got = [c \in Callers |-> NoResult]

\* Board the flight under way, or start one.
Board(c) ==
    LET k == asked[c]
        l == IF flight[k] = NoOne THEN c ELSE flight[k]
    IN  /\ standing[c] = "new"
        /\ flight' = [flight EXCEPT ![k] = l]
        /\ awaits' = [awaits EXCEPT ![c] = l]
        /\ standing' = [standing EXCEPT ![c] = "waiting"]
        /\ UNCHANGED <<asked, landed, got>>

\* A caller that would have to start a flight may be turned away.
TurnAway(c) ==
    /\ standing[c] = "new"
    /\ flight[asked[c]] = NoOne
    /\ standing' = [standing EXCEPT ![c] = "refused"]
    /\ UNCHANGED <<asked, flight, awaits, landed, got>>

\* The flight for k lands, and the next caller will start another.
Land(k) ==
    /\ flight[k] # NoOne
    /\ landed' \in [Callers -> Results \cup {NoResult}]
    /\ landed'[flight[k]] \in Results
    /\ \A c \in Callers \ {flight[k]} : landed'[c] = landed[c]
    /\ flight' = [flight EXCEPT ![k] = NoOne]
    /\ UNCHANGED <<asked, standing, awaits, got>>

Serve(c) ==
    /\ standing[c] = "waiting"
    /\ landed[awaits[c]] # NoResult
    /\ got' = [got EXCEPT ![c] = landed[awaits[c]]]
    /\ standing' = [standing EXCEPT ![c] = "served"]
    /\ UNCHANGED <<asked, flight, awaits, landed>>

\* Everything in memory is lost, the callers still there with it.
Crash ==
    /\ flight' = [k \in Keys |-> NoOne]
    /\ landed' = [c \in Callers |-> NoResult]
    /\ \E gone \in SUBSET {c \in Callers : standing[c] \in {"served", "refused"}} :
         standing' = [c \in Callers |->
                        IF standing[c] = "waiting" \/ c \in gone THEN "lost" ELSE standing[c]]
    /\ UNCHANGED <<asked, awaits, got>>

Next ==
    \/ \E c \in Callers : Board(c) \/ TurnAway(c) \/ Serve(c)
    \/ \E k \in Keys : Land(k)
    \/ Crash

Spec == Init /\ [][Next]_flightVars

-----------------------------------------------------------------------------
\* A caller is served exactly what the flight it boarded landed with, and that
\* flight was for its key (one result per flight, shared by everyone on it).
ServedOwnFlight ==
    \A c \in Callers : standing[c] = "served" =>
        /\ got[c] \in Results
        /\ asked[awaits[c]] = asked[c]
        /\ landed[awaits[c]] \in {got[c], NoResult}

\* Nobody boards a flight that has landed: its result would be older than the call.
NobodyBoardsLanded ==
    [][\A c \in Callers :
          standing[c] = "new" /\ standing'[c] = "waiting" =>
              landed[awaits'[c]] = NoResult]_flightVars
=============================================================================
