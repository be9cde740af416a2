----------------------------- MODULE OfflineSync -----------------------------
(***************************************************************************)
(* The outbox of the web client and the circuit breaker of the gateway:    *)
(* what the runs send goes through the gateway to a service that accepts   *)
(* it, rejects it (4xx) or fails (5xx).  A refusal of the breaker looks    *)
(* like a failure to the outbox, and the response may get lost on its way. *)
(***************************************************************************)
EXTENDS GatewayBreaker, Outbox

CONSTANT Null   \* nobody

VARIABLE letter   \* letter[c]: the item on the connection c, and the run that waits for it

vars == <<circuit, exchange, errors, outbox, run, fails, accepted, faults, letter>>

Letter == [run : Runs \cup {Null}, item : Items \cup {Null}]
NoLetter == [run |-> Null, item |-> Null]

Init == GatewayInit /\ OutboxInit /\ letter = [c \in Connections |-> NoLetter]
-----------------------------------------------------------------------------
(* fetch, in processOutbox.                                                 *)

SendThrough(r, i, c) ==
    /\ Send(r, i) /\ (Pass(c) \/ PassUnchecked(c))
    /\ letter' = [letter EXCEPT ![c] = [run |-> r, item |-> i]]
\* 503 from the breaker.
SendRefused(r, i) ==
    /\ Fail(r, i, "next", FALSE) /\ Refuse
    /\ UNCHANGED <<accepted, letter>>
\* The browser is offline again, or the gateway cannot be reached.
SendNowhere(r, i) ==
    /\ Fail(r, i, "next", TRUE)
    /\ UNCHANGED <<gatewayVars, accepted, letter>>

\* The service accepts what the connection c carries, or does not.
Accept(c) ==
    /\ Respond(c, FALSE) /\ accepted' = accepted \cup {letter[c].item}
    /\ \/ letter[c].run # Null /\ Succeed(letter[c].run, letter[c].item)
       \/ letter[c].run = Null /\ UNCHANGED <<outbox, run, fails, faults>>
    /\ letter' = [letter EXCEPT ![c] = NoLetter]
Reject(c, failed) ==
    /\ Respond(c, failed) /\ UNCHANGED accepted
    /\ \/ letter[c].run # Null /\ Fail(letter[c].run, letter[c].item, "wait", FALSE)
       \/ letter[c].run = Null /\ UNCHANGED <<outbox, run, fails, faults>>
    /\ letter' = [letter EXCEPT ![c] = NoLetter]

\* fetch throws while the request goes on.
Lose(c) ==
    /\ letter[c].run # Null /\ Fail(letter[c].run, letter[c].item, "wait", TRUE)
    /\ letter' = [letter EXCEPT ![c].run = Null]
    /\ UNCHANGED <<gatewayVars, accepted>>

\* A closed tab waits for nothing.
CloseTab(r) ==
    /\ Close(r)
    /\ letter' = [c \in Connections |-> IF letter[c].run = r THEN [letter[c] EXCEPT !.run = Null] ELSE letter[c]]
    /\ UNCHANGED gatewayVars
-----------------------------------------------------------------------------
RunStep(r) ==
    \E i \in Items :
        \/ (Delete(r, i) \/ Put(r, i) \/ StorageFails(r, i)) /\ UNCHANGED <<gatewayVars, letter>>
        \/ SendRefused(r, i) \/ SendNowhere(r, i)
        \/ \E c \in Connections : SendThrough(r, i, c)
Answer(c) == Accept(c) \/ \E failed \in BOOLEAN : Reject(c, failed)
LogPhase(c) ==
    (RecordSuccess(c) \/ RecordFailure(c) \/ RecordNothing(c)) /\ UNCHANGED <<outboxVars, letter>>
Start == \E r \in Runs : ProcessOutbox(r) /\ UNCHANGED <<gatewayVars, letter>>

Next ==
    \/ \E r \in Runs : RunStep(r) \/ CloseTab(r)
    \/ \E c \in Connections : Answer(c) \/ Lose(c) \/ LogPhase(c)
    \/ Start
    \/ \E i \in Items : AddToOutbox(i) /\ UNCHANGED <<gatewayVars, letter>>
    \/ (Lapse \/ Expire) /\ UNCHANGED <<outboxVars, letter>>

\* A run goes on, the gateway waits for a service no longer than its timeout,
\* and the user comes back online.
Fairness ==
    /\ \A r \in Runs : WF_vars(RunStep(r))
    /\ \A c \in Connections : WF_vars(Answer(c)) /\ WF_vars(LogPhase(c))
    /\ WF_vars(Start)

Spec == Init /\ [][Next]_vars /\ Fairness
-----------------------------------------------------------------------------
\* The types of both parts; a letter that is waited for belongs to the run.
TypeOK ==
    /\ GatewayTypeOK /\ OutboxTypeOK
    /\ letter \in [Connections -> Letter]

\* Every item leaves the outbox for good, whatever the service answers and
\* however runs overlap: lost attempts do not let an item circulate for ever.
OutboxEmpties == <>[](Queued = {})
=============================================================================
