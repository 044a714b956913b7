------------------------- MODULE SharedFlightProofs -------------------------
(***************************************************************************)
(* What SharedFlight promises to its callers follows from its actions, for    *)
(* any callers, keys and results, and however often everything is lost.       *)
(***************************************************************************)
EXTENDS SharedFlight, TLAPS

\* A flight under way is led by a caller for its key who waits for it, and has not
\* landed.
FlightsLed ==
    \A k \in Keys : flight[k] # NoOne =>
        /\ asked[flight[k]] = k
        /\ standing[flight[k]] = "waiting" /\ awaits[flight[k]] = flight[k]
        /\ landed[flight[k]] = NoResult

\* Whoever boarded did so for its key, and a leader is never a newcomer again.
Boarded ==
    \A c \in Callers : standing[c] \in {"waiting", "served"} =>
        /\ awaits[c] \in Callers
        /\ asked[awaits[c]] = asked[c]
        /\ standing[awaits[c]] # "new"

NewHasNotLed == \A c \in Callers : standing[c] = "new" => landed[c] = NoResult

\* The flight a caller was served by is over for good.
ServedIsOver ==
    \A c \in Callers : standing[c] = "served" =>
        /\ \A k \in Keys : flight[k] # awaits[c]
        /\ got[c] \in Results
        /\ landed[awaits[c]] \in {got[c], NoResult}

FlightInv == TypeOK /\ FlightsLed /\ Boarded /\ NewHasNotLed /\ ServedIsOver

LEMMA InitFlight ==
    ASSUME NoOne \notin Callers, NoResult \notin Results, Init PROVE FlightInv
<1>1. TypeOK
  BY DEF Init, TypeOK, Standings
<1>2. FlightsLed /\ Boarded /\ NewHasNotLed /\ ServedIsOver
  BY DEF Init, FlightsLed, Boarded, NewHasNotLed, ServedIsOver
<1> QED
  BY <1>1, <1>2 DEF FlightInv

\* Boarding starts a flight led by a caller that never led one, or joins one that is
\* under way.
LEMMA BoardFlight ==
    ASSUME NoOne \notin Callers, NoResult \notin Results, FlightInv,
           NEW c \in Callers, Board(c)
    PROVE  FlightInv' /\ landed[awaits'[c]] = NoResult
<1> DEFINE k == asked[c]
           l == IF flight[k] = NoOne THEN c ELSE flight[k]
<1>1. /\ standing[c] = "new"
      /\ flight' = [flight EXCEPT ![k] = l]
      /\ awaits' = [awaits EXCEPT ![c] = l]
      /\ standing' = [standing EXCEPT ![c] = "waiting"]
  BY DEF Board
<1>2. asked' = asked /\ landed' = landed /\ got' = got
  BY DEF Board
<1>3. TypeOK /\ FlightsLed /\ Boarded /\ NewHasNotLed /\ ServedIsOver
  BY DEF FlightInv
<1>4. k \in Keys /\ l \in Callers /\ asked[l] = k /\ landed[l] = NoResult
  BY <1>1, <1>3 DEF TypeOK, FlightsLed, NewHasNotLed
<1>5. standing'[l] = "waiting" /\ awaits'[l] = l
  BY <1>1, <1>3, <1>4 DEF TypeOK, FlightsLed
<1> HIDE DEF k, l
<1>6. TypeOK'
  BY <1>1, <1>2, <1>3, <1>4 DEF TypeOK, Standings
<1>7. FlightsLed'
  BY <1>1, <1>2, <1>3, <1>4, <1>5 DEF FlightsLed, TypeOK
<1>8. Boarded' /\ NewHasNotLed'
  BY <1>1, <1>2, <1>3, <1>4, <1>5 DEF Boarded, NewHasNotLed, TypeOK, k
<1>9. ServedIsOver'
  <2> SUFFICES ASSUME NEW d \in Callers, standing'[d] = "served"
               PROVE  /\ \A q \in Keys : flight'[q] # awaits'[d]
                      /\ got'[d] \in Results
                      /\ landed'[awaits'[d]] \in {got'[d], NoResult}
    BY DEF ServedIsOver
  <2>1. d # c /\ standing[d] = "served" /\ awaits'[d] = awaits[d]
    BY <1>1, <1>3 DEF TypeOK
  <2>2. l # awaits[d]
    BY <2>1, <1>1, <1>3, <1>4 DEF ServedIsOver, Boarded, l
  <2> QED
    BY <2>1, <2>2, <1>1, <1>2, <1>3, <1>4 DEF ServedIsOver, TypeOK
<1>10. awaits'[c] = l
  BY <1>1, <1>3 DEF TypeOK
<1> QED
  BY <1>4, <1>6, <1>7, <1>8, <1>9, <1>10 DEF FlightInv

LEMMA TurnAwayFlight ==
    ASSUME NoOne \notin Callers, NoResult \notin Results, FlightInv,
           NEW c \in Callers, TurnAway(c)
    PROVE  FlightInv'
<1>1. /\ standing[c] = "new"
      /\ standing' = [standing EXCEPT ![c] = "refused"]
      /\ UNCHANGED <<asked, flight, awaits, landed, got>>
  BY DEF TurnAway
<1>2. TypeOK /\ FlightsLed /\ Boarded /\ NewHasNotLed /\ ServedIsOver
  BY DEF FlightInv
<1>3. TypeOK'
  BY <1>1, <1>2 DEF TypeOK, Standings
<1>4. FlightsLed' /\ Boarded' /\ NewHasNotLed' /\ ServedIsOver'
  BY <1>1, <1>2 DEF FlightsLed, Boarded, NewHasNotLed, ServedIsOver, TypeOK
<1> QED
  BY <1>3, <1>4 DEF FlightInv

\* A flight that lands was nobody's who has been served.
LEMMA LandFlight ==
    ASSUME NoOne \notin Callers, NoResult \notin Results, FlightInv,
           NEW k \in Keys, Land(k)
    PROVE  FlightInv'
<1>1. /\ flight[k] # NoOne
      /\ landed' \in [Callers -> Results \cup {NoResult}]
      /\ \A c \in Callers \ {flight[k]} : landed'[c] = landed[c]
      /\ flight' = [flight EXCEPT ![k] = NoOne]
      /\ UNCHANGED <<asked, standing, awaits, got>>
  BY DEF Land
<1>2. TypeOK /\ FlightsLed /\ Boarded /\ NewHasNotLed /\ ServedIsOver
  BY DEF FlightInv
<1>3. flight[k] \in Callers /\ asked[flight[k]] = k /\ standing[flight[k]] = "waiting"
  BY <1>1, <1>2 DEF TypeOK, FlightsLed
<1>4. TypeOK'
  BY <1>1, <1>2 DEF TypeOK
<1>5. FlightsLed' /\ Boarded' /\ NewHasNotLed'
  BY <1>1, <1>2, <1>3 DEF FlightsLed, Boarded, NewHasNotLed, TypeOK
<1>6. ServedIsOver'
  BY <1>1, <1>2, <1>3 DEF ServedIsOver, Boarded, TypeOK
<1> QED
  BY <1>4, <1>5, <1>6 DEF FlightInv

LEMMA ServeFlight ==
    ASSUME NoOne \notin Callers, NoResult \notin Results, FlightInv,
           NEW c \in Callers, Serve(c)
    PROVE  FlightInv'
<1>1. /\ standing[c] = "waiting" /\ landed[awaits[c]] # NoResult
      /\ got' = [got EXCEPT ![c] = landed[awaits[c]]]
      /\ standing' = [standing EXCEPT ![c] = "served"]
      /\ UNCHANGED <<asked, flight, awaits, landed>>
  BY DEF Serve
<1>2. TypeOK /\ FlightsLed /\ Boarded /\ NewHasNotLed /\ ServedIsOver
  BY DEF FlightInv
<1>3. awaits[c] \in Callers /\ landed[awaits[c]] \in Results
  BY <1>1, <1>2 DEF TypeOK, Boarded
<1>4. \A k \in Keys : flight[k] # awaits[c]
  BY <1>1, <1>2, <1>3 DEF FlightsLed
<1>5. TypeOK'
  BY <1>1, <1>2, <1>3 DEF TypeOK, Standings
<1>6. FlightsLed'
  <2>1. \A k \in Keys : flight[k] # NoOne => flight[k] # c
    BY <1>1, <1>2, <1>4 DEF FlightsLed
  <2> QED
    BY <2>1, <1>1, <1>2 DEF FlightsLed, TypeOK
<1>7. Boarded' /\ NewHasNotLed'
  BY <1>1, <1>2 DEF Boarded, NewHasNotLed, TypeOK
<1>8. ServedIsOver'
  BY <1>1, <1>2, <1>3, <1>4 DEF ServedIsOver, TypeOK
<1> QED
  BY <1>5, <1>6, <1>7, <1>8 DEF FlightInv

LEMMA CrashFlight ==
    ASSUME NoOne \notin Callers, NoResult \notin Results, FlightInv, Crash
    PROVE  FlightInv'
<1>1. PICK gone \in SUBSET {c \in Callers : standing[c] \in {"served", "refused"}} :
        standing' = [c \in Callers |->
                       IF standing[c] = "waiting" \/ c \in gone THEN "lost" ELSE standing[c]]
  BY DEF Crash
<1>2. /\ flight' = [k \in Keys |-> NoOne]
      /\ landed' = [c \in Callers |-> NoResult]
      /\ UNCHANGED <<asked, awaits, got>>
  BY DEF Crash
<1>3. TypeOK /\ FlightsLed /\ Boarded /\ NewHasNotLed /\ ServedIsOver
  BY DEF FlightInv
<1>4. TypeOK'
  BY <1>1, <1>2, <1>3 DEF TypeOK, Standings
<1>5. FlightsLed' /\ Boarded' /\ NewHasNotLed'
  BY <1>1, <1>2, <1>3 DEF FlightsLed, Boarded, NewHasNotLed, TypeOK
<1>6. ServedIsOver'
  BY <1>1, <1>2, <1>3 DEF ServedIsOver, Boarded, TypeOK
<1> QED
  BY <1>4, <1>5, <1>6 DEF FlightInv

LEMMA NextFlight ==
    ASSUME NoOne \notin Callers, NoResult \notin Results, FlightInv, [Next]_flightVars
    PROVE  FlightInv'
<1>1. CASE UNCHANGED flightVars
  BY <1>1 DEF flightVars, FlightInv, TypeOK, FlightsLed, Boarded, NewHasNotLed, ServedIsOver
<1>2. ASSUME NEW c \in Callers, Board(c) \/ TurnAway(c) \/ Serve(c) PROVE FlightInv'
  BY <1>2, BoardFlight, TurnAwayFlight, ServeFlight
<1>3. ASSUME NEW k \in Keys, Land(k) PROVE FlightInv'
  BY <1>3, LandFlight
<1>4. CASE Crash
  BY <1>4, CrashFlight
<1> QED
  BY <1>1, <1>2, <1>3, <1>4 DEF Next

-----------------------------------------------------------------------------
\* Whoever is served gets exactly what the flight it boarded, for its own key, landed
\* with: the result of one execution is shared by all who waited for it
\* (lookupTransaction, deduplicate).
THEOREM ServedByOwnFlight ==
    ASSUME NoOne \notin Callers, NoResult \notin Results
    PROVE  Spec => []ServedOwnFlight
<1>1. Init => FlightInv
  BY InitFlight
<1>2. FlightInv /\ [Next]_flightVars => FlightInv'
  BY NextFlight
<1>3. FlightInv => ServedOwnFlight
  BY DEF FlightInv, ServedOwnFlight, ServedIsOver, Boarded
<1> QED
  BY <1>1, <1>2, <1>3, PTL DEF Spec

\* Nobody boards a flight that has landed: an answer is never older than the call
\* (the map entry is removed in the step that settles the promise).
THEOREM BoardedInTime ==
    ASSUME NoOne \notin Callers, NoResult \notin Results
    PROVE  Spec => NobodyBoardsLanded
<1> DEFINE InTime == \A c \in Callers :
             standing[c] = "new" /\ standing'[c] = "waiting" => landed[awaits'[c]] = NoResult
<1>1. Init => FlightInv
  BY InitFlight
<1>2. FlightInv /\ [Next]_flightVars => FlightInv'
  BY NextFlight
<1>3. FlightInv /\ [Next]_flightVars => [InTime]_flightVars
  <2> SUFFICES ASSUME FlightInv, Next, NEW c \in Callers,
                      standing[c] = "new", standing'[c] = "waiting"
               PROVE  landed[awaits'[c]] = NoResult
    OBVIOUS
  <2>1. ASSUME NEW d \in Callers, Board(d) PROVE d = c
    BY <2>1 DEF Board, FlightInv, TypeOK
  <2>2. ASSUME NEW d \in Callers, TurnAway(d) \/ Serve(d) PROVE FALSE
    BY <2>2 DEF TurnAway, Serve, FlightInv, TypeOK
  <2>3. ASSUME NEW k \in Keys, Land(k) PROVE FALSE
    BY <2>3 DEF Land
  <2>4. ASSUME Crash PROVE FALSE
    BY <2>4 DEF Crash, FlightInv, TypeOK
  <2>5. Board(c)
    BY <2>1, <2>2, <2>3, <2>4 DEF Next
  <2> QED
    BY <2>5, BoardFlight
<1> QED
  BY <1>1, <1>2, <1>3, PTL DEF Spec, NobodyBoardsLanded
=============================================================================
