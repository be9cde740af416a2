------------------------ MODULE CircuitBreakerProofs ------------------------
(***************************************************************************)
(* The invariants of the circuit breaker for any set of callers, any       *)
(* threshold and any timeout.                                              *)
(***************************************************************************)
EXTENDS CircuitBreaker, TLAPS

LEMMA IncrementedRange ==
    ASSUME NEW n \in 0..MaxCount
    PROVE  /\ Incremented(n) \in 0..MaxCount
           /\ n >= failureThreshold => Incremented(n) >= failureThreshold
BY BreakerAssumption DEF Incremented

LEMMA BreakerInit == Init => BreakerInv
BY BreakerAssumption
   DEF Init, BreakerInv, TypeOK, CountMatchesState, ProbeInFlight, CircuitState, Outcomes

\* What a settling call makes of a circuit that is not closed.
LEMMA SettleDecides ==
    ASSUME BreakerInv, NEW c \in Callers, Succeed(c) \/ Fail(c)
    PROVE  /\ state' # "HALF_OPEN"
           /\ state = "HALF_OPEN" => state' = IF call'[c] = "ok" THEN "CLOSED" ELSE "OPEN"
<1>1. call'[c] = IF Succeed(c) THEN "ok" ELSE "failed"
  BY DEF BreakerInv, TypeOK, Succeed, Fail
<1>2. CASE Succeed(c)
  BY <1>1, <1>2 DEF Succeed
<1>3. CASE Fail(c)
  <2>1. ~Succeed(c)
    BY <1>3 DEF Succeed, Fail, BreakerInv, TypeOK
  <2>2. state # "CLOSED" => failureCount >= failureThreshold
    BY BreakerAssumption DEF BreakerInv, TypeOK, CountMatchesState
  <2>3. state # "CLOSED" => failureCount' >= failureThreshold
    BY <1>3, <2>2, IncrementedRange DEF Fail, BreakerInv, TypeOK
  <2> QED BY <1>1, <1>3, <2>1, <2>3 DEF Fail, BreakerInv, TypeOK, CircuitState
<1> QED BY <1>2, <1>3

LEMMA BreakerStep == BreakerInv /\ [Next]_vars => BreakerInv'
<1> SUFFICES ASSUME BreakerInv, [Next]_vars PROVE BreakerInv'
  OBVIOUS
<1> USE BreakerAssumption
<1>1. CASE Tick
  BY <1>1 DEF Tick, BreakerInv, TypeOK, CountMatchesState, ProbeInFlight, Running
<1>2. CASE Reset
  BY <1>2 DEF Reset, BreakerInv, TypeOK, CountMatchesState, ProbeInFlight, CircuitState
<1>3. ASSUME NEW c \in Callers, Admit(c) PROVE BreakerInv'
  <2>1. TypeOK'
    BY <1>3 DEF Admit, BreakerInv, TypeOK, CircuitState
  <2>2. CountMatchesState'
    BY <1>3 DEF Admit, BreakerInv, TypeOK, CountMatchesState, CircuitState
  <2>3. ProbeInFlight'
    BY <1>3 DEF Admit, BreakerInv, TypeOK, ProbeInFlight, Running
  <2> QED BY <2>1, <2>2, <2>3 DEF BreakerInv
<1>4. ASSUME NEW c \in Callers, Reject(c) PROVE BreakerInv'
  BY <1>4 DEF Reject, BreakerInv, TypeOK, CountMatchesState, ProbeInFlight, Outcomes
<1>5. ASSUME NEW c \in Callers, Succeed(c) PROVE BreakerInv'
  BY <1>5 DEF Succeed, BreakerInv, TypeOK, CountMatchesState, ProbeInFlight, CircuitState,
              Outcomes
<1>6. ASSUME NEW c \in Callers, Fail(c) PROVE BreakerInv'
  <2>1. failureCount' = Incremented(failureCount) /\ failureCount' \in 0..MaxCount
        /\ (failureCount >= failureThreshold => failureCount' >= failureThreshold)
    BY <1>6, IncrementedRange DEF Fail, BreakerInv, TypeOK
  <2>2. TypeOK'
    BY <1>6, <2>1 DEF Fail, BreakerInv, TypeOK, CircuitState, Outcomes
  <2>3. CountMatchesState'
    BY <1>6, <2>1 DEF Fail, BreakerInv, TypeOK, CountMatchesState
  <2>4. ProbeInFlight'
    BY <1>6, SettleDecides DEF ProbeInFlight
  <2> QED BY <2>2, <2>3, <2>4 DEF BreakerInv
<1>7. CASE UNCHANGED vars
  BY <1>7 DEF vars, BreakerInv, TypeOK, CountMatchesState, ProbeInFlight, Running
<1> QED BY <1>1, <1>2, <1>3, <1>4, <1>5, <1>6, <1>7 DEF Next, CallStep

LEMMA BreakerInvariant == Spec => []BreakerInv
BY BreakerInit, BreakerStep, PTL DEF Spec

\* Every variable keeps its type, for any callers, threshold and timeout.
THEOREM BreakerTypes == Spec => []TypeOK
<1>1. BreakerInv => TypeOK
  BY DEF BreakerInv
<1> QED BY <1>1, BreakerInvariant, PTL

\* The circuit is closed exactly while fewer than failureThreshold failures
\* were recorded since the last success.
THEOREM CountMatchesStateAlways == Spec => []CountMatchesState
<1>1. BreakerInv => CountMatchesState
  BY DEF BreakerInv
<1> QED BY <1>1, BreakerInvariant, PTL

\* A half-open circuit always has a call in flight that will decide about it.
THEOREM ProbeInFlightAlways == Spec => []ProbeInFlight
<1>1. BreakerInv => ProbeInFlight
  BY DEF BreakerInv
<1> QED BY <1>1, BreakerInvariant, PTL

\* Whichever call settles in a half-open circuit closes or opens it.
THEOREM ProbeAlwaysDecides == Spec => ProbeDecides
<1> DEFINE Decides(c) ==
        state = "HALF_OPEN" /\ Running(c) /\ call'[c] # "running" =>
            state' = IF call'[c] = "ok" THEN "CLOSED" ELSE "OPEN"
<1>1. ASSUME BreakerInv, [Next]_vars, NEW c \in Callers PROVE Decides(c)
  <2>1. ASSUME Running(c), call'[c] # "running" PROVE Succeed(c) \/ Fail(c)
    BY <1>1, <2>1 DEF Next, CallStep, vars, Tick, Reset, Admit, Reject, Succeed, Fail,
                      Running, BreakerInv, TypeOK
  <2> QED BY <1>1, <2>1, SettleDecides
<1>2. BreakerInv /\ [Next]_vars => [\A c \in Callers : Decides(c)]_vars
  BY <1>1
<1> QED BY <1>2, BreakerInvariant, PTL DEF Spec, ProbeDecides
=============================================================================
