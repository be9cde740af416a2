--------------------------- MODULE CircuitBreaker ---------------------------
(***************************************************************************)
(* The circuit breaker the Kafka producer of every service sends through.  *)
(* fire checks the state, awaits the call, and records how it ended: what  *)
(* it records is applied to whatever state the other calls have left by    *)
(* then.  Any number of calls may be in flight, and none of them remembers *)
(* in which state it was let through.                                      *)
(***************************************************************************)
EXTENDS Naturals, FiniteSets

CONSTANTS
    Callers,           \* the concurrent users of the breaker
    failureThreshold,  \* failures that open the circuit (5 by default)
    resetTimeout,      \* clock ticks it stays open (30000 ms by default)
    MaxCount           \* where failureCount++ stops growing: 2^53 for a JS number

ASSUME BreakerAssumption ==
    /\ failureThreshold \in Nat \ {0}
    /\ resetTimeout \in Nat
    /\ MaxCount \in Nat /\ failureThreshold <= MaxCount

VARIABLES
    state,         \* the CircuitState
    failureCount,  \* failures since the last success or reset
    lockout,       \* ticks until Date.now() > nextAttempt; 0 when it is so
    call           \* call[c]: the last call of c, running or how it ended

vars == <<state, failureCount, lockout, call>>
-----------------------------------------------------------------------------
CircuitState == {"CLOSED", "OPEN", "HALF_OPEN"}
Outcomes == {"none", "ok", "failed", "rejected"}

Running(c) == call[c] = "running"
Incremented(n) == IF n < MaxCount THEN n + 1 ELSE n

Init ==
    /\ state = "CLOSED"
    /\ failureCount = 0
    /\ lockout = 1           \* nextAttempt = Date.now()
    /\ call = [c \in Callers |-> "none"]

Tick == lockout > 0 /\ lockout' = lockout - 1 /\ UNCHANGED <<state, failureCount, call>>

\* fire lets the call through, up to its await.  Mutant: the failure count
\* starts anew when the circuit half-opens.
AdmitForgets(c) ==
    /\ ~Running(c)
    /\ state = "OPEN" => lockout = 0
    /\ state' = IF state = "OPEN" THEN "HALF_OPEN" ELSE state
    /\ failureCount' = IF state = "OPEN" THEN 0 ELSE failureCount
    /\ call' = [call EXCEPT ![c] = "running"]
    /\ UNCHANGED lockout
Admit(c) ==
    /\ ~Running(c)
    /\ state = "OPEN" => lockout = 0
    /\ state' = IF state = "OPEN" THEN "HALF_OPEN" ELSE state
    /\ call' = [call EXCEPT ![c] = "running"]
    /\ UNCHANGED <<failureCount, lockout>>

\* fire throws 'Circuit breaker is open'.  Mutant: the throw moved into the
\* try block, whose catch counts it as a failure.
RejectCounts(c) ==
    /\ ~Running(c)
    /\ state = "OPEN" /\ lockout > 0
    /\ failureCount' = Incremented(failureCount)
    /\ lockout' = resetTimeout + 1
    /\ call' = [call EXCEPT ![c] = "rejected"]
    /\ UNCHANGED state
Reject(c) ==
    /\ ~Running(c)
    /\ state = "OPEN" /\ lockout > 0
    /\ call' = [call EXCEPT ![c] = "rejected"]
    /\ UNCHANGED <<state, failureCount, lockout>>

\* The awaited call ends well: success().
Succeed(c) ==
    /\ Running(c)
    /\ failureCount' = 0
    /\ state' = "CLOSED"
    /\ call' = [call EXCEPT ![c] = "ok"]
    /\ UNCHANGED lockout

\* The awaited call throws: failure().  Mutant: nextAttempt += resetTimeout.
FailExtends(c) ==
    /\ Running(c)
    /\ failureCount' = Incremented(failureCount)
    /\ IF failureCount' >= failureThreshold
       THEN state' = "OPEN" /\ lockout' = lockout + resetTimeout
       ELSE UNCHANGED <<state, lockout>>
    /\ call' = [call EXCEPT ![c] = "failed"]
Fail(c) ==
    /\ Running(c)
    /\ failureCount' = Incremented(failureCount)
    /\ IF failureCount' >= failureThreshold
       THEN state' = "OPEN" /\ lockout' = resetTimeout + 1
       ELSE UNCHANGED <<state, lockout>>
    /\ call' = [call EXCEPT ![c] = "failed"]

\* reset().
Reset == failureCount' = 0 /\ state' = "CLOSED" /\ UNCHANGED <<lockout, call>>

CallStep(c) == Admit(c) \/ Reject(c) \/ Succeed(c) \/ Fail(c)
Next == Tick \/ Reset \/ \E c \in Callers : CallStep(c)

Spec == Init /\ [][Next]_vars

\* The clock runs and an awaited send settles; nobody owes the breaker a call.
FairSpec ==
    /\ Spec
    /\ WF_vars(Tick)
    /\ \A c \in Callers : WF_vars(Succeed(c) \/ Fail(c))
-----------------------------------------------------------------------------
\* Every variable keeps its type.
TypeOK ==
    /\ state \in CircuitState
    /\ failureCount \in 0..MaxCount
    /\ lockout \in 0..(resetTimeout + 1)
    /\ call \in [Callers -> {"running"} \cup Outcomes]

\* The state and the count agree: the circuit is closed exactly as long as
\* fewer than failureThreshold failures were recorded since the last success,
\* although calls settle in any order and in any state.
CountMatchesState == state = "CLOSED" <=> failureCount < failureThreshold

\* A half-open circuit has a call in flight that will decide about it: it is
\* never stuck between open and closed with nobody testing the service.
ProbeInFlight == state = "HALF_OPEN" => \E c \in Callers : Running(c)

BreakerInv == TypeOK /\ CountMatchesState /\ ProbeInFlight

\* Any call that settles in a half-open circuit decides about it: it closes
\* or opens, and does not stay half-open.
ProbeDecides ==
    [][\A c \in Callers : state = "HALF_OPEN" /\ Running(c) /\ call'[c] # "running" =>
           state' = IF call'[c] = "ok" THEN "CLOSED" ELSE "OPEN"]_vars

\* An open circuit becomes ready for a probe (or closes): late failures of the
\* calls in flight push nextAttempt back, but not for ever.
LockoutEnds == state = "OPEN" ~> state # "OPEN" \/ lockout = 0

\* A half-open circuit does not stay so.
HalfOpenEnds == state = "HALF_OPEN" ~> state # "HALF_OPEN"

\* No order in which the calls settle leaves the circuit stuck away from
\* CLOSED: neither locked out for ever nor half-open with nobody deciding.
NeverStuck == LockoutEnds /\ HalfOpenEnds
=============================================================================
