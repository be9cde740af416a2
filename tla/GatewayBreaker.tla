--------------------------- MODULE GatewayBreaker ---------------------------
(***************************************************************************)
(* The circuit breaker plugin of the API gateway, for one service.  Its    *)
(* state is a hash in Redis that all workers of Kong share.  The access    *)
(* phase of a request reads it; the log phase, after the response has been *)
(* sent, counts the result on what was read then, and writes it all back.  *)
(* successes is left out: it is counted and never read.                    *)
(*                                                                         *)
(* The next-state relation is that of OfflineSync, which says where        *)
(* requests come from.                                                     *)
(***************************************************************************)
EXTENDS Naturals

CONSTANTS
    Connections,   \* the requests that may be in the gateway at the same time
    threshold,     \* error_threshold, in percent
    minCalls,      \* min_calls
    MaxTotal       \* bound: requests are checked while fewer have been counted

ASSUME GatewayAssumption == threshold \in 0 .. 100 /\ minCalls \in Nat /\ MaxTotal \in Nat

VARIABLES
    circuit,    \* the hash of the service in Redis
    exchange,   \* exchange[c]: the request on the connection c
    errors      \* history: answers of the service with a status >= 500, up to MaxTotal

gatewayVars == <<circuit, exchange, errors>>
-----------------------------------------------------------------------------
\* An open circuit has lapsed once last_failure_time is open_circuit_timeout
\* ago: only a failure opens it, and it stamps that time.
Circuit == [state : {"closed", "open", "lapsed", "half-open"}, failures : Nat, total : Nat]
Fresh == [state |-> "closed", failures |-> 0, total |-> 0]

\* checked: kong.ctx.shared holds the state seen in the access phase.
Exchange == [stage : {"idle", "upstream", "log"}, checked : BOOLEAN, seen : Circuit, failed : BOOLEAN]
Quiet == [stage |-> "idle", checked |-> FALSE, seen |-> Fresh, failed |-> FALSE]

GatewayInit ==
    /\ circuit = Fresh
    /\ exchange = [c \in Connections |-> Quiet]
    /\ errors = 0
-----------------------------------------------------------------------------
(* The access phase.                                                        *)

\* kong.response.exit(503): nothing is kept for the log phase.
Refuse == circuit.state = "open" /\ UNCHANGED gatewayVars

Pass(c) ==
    /\ exchange[c] = Quiet
    /\ circuit.state # "open" /\ circuit.total < MaxTotal
    /\ exchange' = [exchange EXCEPT ![c] =
           [Quiet EXCEPT !.stage = "upstream", !.checked = TRUE,
                         !.seen = [circuit EXCEPT !.state = IF @ = "lapsed" THEN "half-open" ELSE @]]]
    /\ UNCHANGED <<circuit, errors>>

\* Redis cannot be reached.
PassUnchecked(c) ==
    /\ exchange[c] = Quiet
    /\ exchange' = [exchange EXCEPT ![c].stage = "upstream"]
    /\ UNCHANGED <<circuit, errors>>

Respond(c, failed) ==
    /\ exchange[c].stage = "upstream"
    /\ exchange' = [exchange EXCEPT ![c] =
           IF exchange[c].checked THEN [exchange[c] EXCEPT !.stage = "log", !.failed = failed] ELSE Quiet]
    /\ errors' = IF failed /\ errors < MaxTotal THEN errors + 1 ELSE errors
    /\ UNCHANGED circuit
-----------------------------------------------------------------------------
(* The log phase.                                                           *)

Logged(c, s) ==
    /\ exchange[c].stage = "log"
    /\ circuit' = s
    /\ exchange' = [exchange EXCEPT ![c] = Quiet]
    /\ UNCHANGED errors

RecordSuccess(c) ==
    LET s == exchange[c].seen IN
    /\ ~exchange[c].failed
    /\ Logged(c, IF s.state = "half-open"
                 THEN [state |-> "closed", failures |-> 0, total |-> s.total + 1]
                 ELSE [s EXCEPT !.total = @ + 1])

\* Mutant: the rate is taken before min_calls is looked at.
OpensEarly(s) == s.state = "closed" /\ threshold * s.total <= 100 * s.failures
Opens(s) == s.state = "closed" /\ minCalls <= s.total /\ threshold * s.total <= 100 * s.failures

RecordFailure(c) ==
    LET s == [exchange[c].seen EXCEPT !.failures = @ + 1, !.total = @ + 1] IN
    /\ exchange[c].failed
    /\ Logged(c, IF Opens(s) THEN [s EXCEPT !.state = "open"] ELSE s)

\* Redis cannot be reached.
RecordNothing(c) == Logged(c, circuit)

\* open_circuit_timeout passes since last_failure_time.
Lapse ==
    /\ circuit.state = "open"
    /\ circuit' = [circuit EXCEPT !.state = "lapsed"]
    /\ UNCHANGED <<exchange, errors>>

\* The key expires 24 hours after it was written.
Expire ==
    /\ circuit' = Fresh
    /\ UNCHANGED <<exchange, errors>>
-----------------------------------------------------------------------------
\* The types of the hash and of the requests.
GatewayTypeOK ==
    /\ circuit \in Circuit
    /\ exchange \in [Connections -> Exchange]
    /\ errors \in Nat

Earned(s) ==
    /\ s.failures <= errors
    /\ s.state # "closed" => minCalls <= s.total /\ threshold * s.total <= 100 * s.failures

\* The circuit is not closed only if at least minCalls requests were counted
\* and threshold percent of them failed, in the service and not in the
\* breaker: requests that write back what they read long ago lose counts of
\* each other, but do not make up failures, and what the breaker refuses
\* does not keep it open.
EarnedOpen == Earned(circuit)
=============================================================================
