--------------------------- MODULE ReadinessProofs ---------------------------
(***************************************************************************)
(* Proofs about Readiness: no verdict is better than what the services gave   *)
(* reason for since the check began, whatever the Redis client goes through.  *)
(***************************************************************************)
EXTENDS Readiness, TLAPS

\* A service that is up, or has answered, was within reach since the check began.
Justified ==
    /\ check \in [Services -> {"none", "asked", "up", "down"}]
    /\ up \subseteq Services /\ reached \subseteq Services
    /\ check # NoCheck => up \subseteq reached /\ verdict = "none"
    /\ \A s \in Services : check[s] = "up" => s \in reached
    /\ VerdictEarned

LEMMA InitJustified == Init => Justified
  BY DEF Init, Justified, NoCheck, Services, VerdictEarned

LEMMA StepJustified == Justified /\ [Next]_vars => Justified'
<1> SUFFICES ASSUME Justified, [Next]_vars PROVE Justified'
  OBVIOUS
<1>1. ASSUME NEW s \in Services, GoesDown(s) PROVE Justified'
  BY <1>1 DEF Justified, GoesDown, health, VerdictEarned
<1>2. ASSUME NEW s \in Services, ComesBack(s) PROVE Justified'
  BY <1>2 DEF Justified, ComesBack, VerdictEarned
<1>3. ASSUME NEW s \in Services, Answers(s) PROVE Justified'
  <2>1. check # NoCheck
    BY <1>3 DEF Answers, NoCheck
  <2>2. s \in reached /\ verdict = "none"
    BY <1>3, <2>1 DEF Justified, Answers
  <2> QED
    BY <1>3, <2>1, <2>2 DEF Justified, Answers, VerdictEarned
<1>4. ASSUME NEW s \in Services, Fails(s) PROVE Justified'
  <2>1. check # NoCheck
    BY <1>4 DEF Fails, NoCheck
  <2>2. verdict = "none"
    BY <2>1 DEF Justified
  <2> QED
    BY <1>4, <2>1, <2>2 DEF Justified, Fails, VerdictEarned
<1>5. ASSUME NEW p \in Probers, Probe(p) PROVE Justified'
  <2>1. CASE check = NoCheck
    <3>1. Ping \in {"asked", "down"}
      BY DEF Ping
    <3>2. /\ check' = [NoCheck EXCEPT !["database"] = "asked", !["redis"] = Ping]
          /\ reached' = up /\ verdict' = "none" /\ up' = up
      BY <1>5, <2>1 DEF Probe
    <3>3. check' \in [Services -> {"none", "asked", "up", "down"}]
      BY <3>1, <3>2 DEF NoCheck, Services
    <3>4. \A s \in Services : check'[s] # "up"
      BY <3>1, <3>2 DEF NoCheck, Services
    <3> QED
      BY <3>2, <3>3, <3>4 DEF Justified, VerdictEarned
  <2>2. CASE check # NoCheck
    BY <1>5, <2>2 DEF Justified, Probe, VerdictEarned
  <2> QED
    BY <2>1, <2>2
<1>6. ASSUME Concludes PROVE Justified'
  <2>1. check' = NoCheck /\ UNCHANGED <<up, reached>>
    BY <1>6 DEF Concludes
  <2>2. verdict' = "ready" => reached = Services
    BY <1>6 DEF Justified, Concludes, Services
  <2>3. verdict' = "degraded" => "database" \in reached
    BY <1>6 DEF Justified, Concludes, Services
  <2> QED
    BY <2>1, <2>2, <2>3 DEF Justified, NoCheck, VerdictEarned
<1>7. ASSUME Client \/ Shutdown PROVE UNCHANGED <<up, check, verdict, reached>>
  BY <1>7 DEF Client, Opened, GetsReady, Closes, Retries, Quits, Shutdown, health
<1>8. ASSUME UNCHANGED <<up, check, verdict, reached>> PROVE Justified'
  BY <1>8 DEF Justified, VerdictEarned
<1> QED
  BY <1>1, <1>2, <1>3, <1>4, <1>5, <1>6, <1>7, <1>8 DEF Next, vars, health

\* For any number of monitors: "ready" and "degraded" are only said of services that were
\* within reach at some time since the check began.
THEOREM VerdictsEarned == Spec => []VerdictEarned
<1>1. Justified => VerdictEarned
  BY DEF Justified
<1> QED
  BY <1>1, InitJustified, StepJustified, PTL DEF Spec

-----------------------------------------------------------------------------
(* What liveness rests on: a probe waits for a check, and a shutdown lasts.   *)

ProbesAreUnderWay == probing # {} => \A s \in Services : check[s] # "none"

CheckKnown ==
    /\ check \in [Services -> {"none", "asked", "up", "down"}]
    /\ check = NoCheck \/ \A s \in Services : check[s] # "none"
    /\ probing # {} => check # NoCheck

LEMMA StepCheckKnown == CheckKnown /\ [Next]_vars => CheckKnown'
<1> SUFFICES ASSUME CheckKnown, [Next]_vars PROVE CheckKnown'
  OBVIOUS
<1>1. ASSUME NEW s \in Services, Answers(s) \/ Fails(s) PROVE CheckKnown'
  <2>1. check[s] = "asked" /\ probing' = probing
    BY <1>1 DEF Answers, Fails
  <2>2. PICK v \in {"up", "down"} : check' = [check EXCEPT ![s] = v]
    BY <1>1 DEF Answers, Fails
  <2>3. \A x \in Services : check[x] # "none"
    BY <2>1 DEF CheckKnown, NoCheck
  <2>4. /\ check' \in [Services -> {"none", "asked", "up", "down"}]
        /\ \A x \in Services : check'[x] # "none"
    BY <2>2, <2>3 DEF CheckKnown
  <2>5. check' # NoCheck
    BY <2>4 DEF NoCheck
  <2> QED
    BY <2>4, <2>5 DEF CheckKnown
<1>2. ASSUME NEW p \in Probers, Probe(p) PROVE CheckKnown'
  <2>1. CASE check = NoCheck
    <3>1. check' = [NoCheck EXCEPT !["database"] = "asked", !["redis"] = Ping]
      BY <1>2, <2>1 DEF Probe
    <3>2. Ping \in {"asked", "down"}
      BY DEF Ping
    <3>3. /\ check' \in [Services -> {"none", "asked", "up", "down"}]
          /\ \A x \in Services : check'[x] # "none"
      BY <3>1, <3>2 DEF NoCheck, Services
    <3>4. check' # NoCheck
      BY <3>3 DEF NoCheck, Services
    <3> QED
      BY <3>3, <3>4 DEF CheckKnown
  <2>2. CASE check # NoCheck
    BY <1>2, <2>2 DEF Probe, CheckKnown
  <2> QED
    BY <2>1, <2>2
<1>3. CASE Concludes
  BY <1>3 DEF Concludes, CheckKnown, NoCheck
<1>4. ASSUME Client \/ Shutdown \/ (\E s \in Services : GoesDown(s) \/ ComesBack(s))
      PROVE  UNCHANGED <<check, probing>>
  BY <1>4 DEF Client, Opened, GetsReady, Closes, Retries, Quits, Shutdown, GoesDown, ComesBack,
              health
<1>5. ASSUME UNCHANGED <<check, probing>> PROVE CheckKnown'
  BY <1>5 DEF CheckKnown
<1> QED
  BY <1>1, <1>2, <1>3, <1>4, <1>5 DEF Next, vars, health

\* A monitor that waits does so for a check in which each service has been asked, so
\* the two timers are all it takes for the check to conclude.
THEOREM ProbersAwaitACheck == Spec => []ProbesAreUnderWay
<1>1. Init => CheckKnown
  BY DEF Init, CheckKnown, NoCheck
<1>2. CheckKnown => ProbesAreUnderWay
  BY DEF CheckKnown, ProbesAreUnderWay
<1> QED
  BY <1>1, <1>2, StepCheckKnown, PTL DEF Spec

\* After onModuleDestroy the client is ready, until quit is answered, or at its end: it
\* never connects again, and its end is final.
NothingReconnects ==
    /\ closing # "none" => status \in {"ready", "end"}
    /\ closing = "disconnect" => status = "end"
EndIsFinal == [][status = "end" => status' = "end"]_vars

FlagIsReady ==
    /\ flag = (status = "ready")
    /\ closing \in {"none", "quit", "disconnect"}
    /\ status = "end" => closing # "none"
    /\ NothingReconnects

LEMMA StepFlagIsReady == FlagIsReady /\ [Next]_vars => FlagIsReady'
<1> SUFFICES ASSUME FlagIsReady, [Next]_vars PROVE FlagIsReady'
  OBVIOUS
<1>1. CASE Client
  BY <1>1 DEF Client, Opened, GetsReady, Closes, Retries, Quits, FlagIsReady, NothingReconnects
<1>2. CASE Shutdown
  BY <1>2 DEF Shutdown, connection, FlagIsReady, NothingReconnects
<1>3. ASSUME ~Client, ~Shutdown PROVE UNCHANGED <<status, flag, closing>>
  BY <1>3 DEF Next, GoesDown, ComesBack, Answers, Fails, Probe, Concludes, connection, vars
<1> QED
  BY <1>1, <1>2, <1>3 DEF FlagIsReady, NothingReconnects

\* What DEPLOYMENT.md:89 says of the shutdown of Redis, apart from its coming to an end.
THEOREM ShutdownLasts == Spec => []NothingReconnects /\ EndIsFinal
<1>1. Init => FlagIsReady
  BY DEF Init, FlagIsReady, NothingReconnects
<1>2. FlagIsReady => NothingReconnects
  BY DEF FlagIsReady
<1>3. FlagIsReady /\ [Next]_vars => [status = "end" => status' = "end"]_vars
  <2> SUFFICES ASSUME FlagIsReady, Next, status = "end" PROVE status' = "end"
    OBVIOUS
  <2>1. closing # "none"
    BY DEF FlagIsReady
  <2> QED
    BY <2>1 DEF Next, Client, Opened, GetsReady, Closes, Retries, Quits, Shutdown, GoesDown,
                ComesBack, Answers, Fails, Probe, Concludes, connection
<1> QED
  BY <1>1, <1>2, <1>3, StepFlagIsReady, PTL DEF Spec, EndIsFinal
=============================================================================
