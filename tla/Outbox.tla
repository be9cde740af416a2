------------------------------- MODULE Outbox -------------------------------
(***************************************************************************)
(* The outbox of the web client: requests that could not be sent offline   *)
(* are stored in IndexedDB, which all tabs share.  Every mounted hook, in  *)
(* every tab, starts a run over the outbox when the browser is online.  A  *)
(* run loads all items, then sends them one after the other, and writes    *)
(* its copy of an item back, or deletes the item.                          *)
(*                                                                         *)
(* The next-state relation is that of OfflineSync, which says what becomes *)
(* of the requests.                                                        *)
(***************************************************************************)
EXTENDS Naturals

CONSTANTS
    Items,         \* keys of the object store, in the order they are given out
    Runs,          \* the runs at the same time
    maxAttempts,   \* 5 in the code
    MaxFaults      \* bound: errors of IndexedDB and closed tabs

ASSUME OutboxAssumption == Items \subseteq Nat /\ maxAttempts \in Nat /\ MaxFaults \in Nat

VARIABLES
    outbox,     \* the object store
    run,        \* run[r]: the run r of processOutbox
    fails,      \* history: fails[i] times the item i was sent in vain, up to maxAttempts + 1
    accepted,   \* history: the items a service has accepted
    faults

outboxVars == <<outbox, run, fails, accepted, faults>>
-----------------------------------------------------------------------------
Item == [state : {"unused", "queued", "gone"}, attempts : Nat]

\* copy[i] is the attempts of the item i in the array getAll gave the run;
\* caught: the run is in the catch block.
Run == [stage : {"idle", "next", "wait", "delete", "put"}, todo : SUBSET Items,
        copy : [Items -> Nat], caught : BOOLEAN]
Idle == [stage |-> "idle", todo |-> {}, copy |-> [i \in Items |-> 0], caught |-> FALSE]

OutboxInit ==
    /\ outbox = [i \in Items |-> [state |-> "unused", attempts |-> 0]]
    /\ run = [r \in Runs |-> Idle]
    /\ fails = [i \in Items |-> 0]
    /\ accepted = {}
    /\ faults = 0

Queued == {i \in Items : outbox[i].state = "queued"}

\* The run r is at the item i: for ... of goes by keys.
At(r, i) == i \in run[r].todo /\ \A j \in run[r].todo : i <= j
\* Mutant: the run does not end with its last item.
DoneNever(r, i) ==
    run' = [run EXCEPT ![r].stage = "next", ![r].todo = @ \ {i}, ![r].copy[i] = 0, ![r].caught = FALSE]
Done(r, i) ==
    run' = [run EXCEPT ![r] =
        IF run[r].todo = {i} THEN Idle
        ELSE [run[r] EXCEPT !.stage = "next", !.todo = @ \ {i}, !.copy[i] = 0, !.caught = FALSE]]
-----------------------------------------------------------------------------
\* useOfflineFetch: a request while the browser is offline.
AddToOutbox(i) ==
    /\ outbox[i].state = "unused" /\ \A j \in Items : j < i => outbox[j].state # "unused"
    /\ outbox' = [outbox EXCEPT ![i].state = "queued"]
    /\ UNCHANGED <<run, fails, accepted, faults>>

ProcessOutbox(r) ==
    /\ run[r] = Idle /\ Queued # {}
    /\ run' = [run EXCEPT ![r] =
           [Idle EXCEPT !.stage = "next", !.todo = Queued,
                        !.copy = [i \in Items |-> IF i \in Queued THEN outbox[i].attempts ELSE 0]]]
    /\ UNCHANGED <<outbox, fails, accepted, faults>>

Send(r, i) ==
    /\ run[r].stage = "next" /\ At(r, i)
    /\ run' = [run EXCEPT ![r].stage = "wait"]
    /\ UNCHANGED <<outbox, fails, accepted, faults>>

Succeed(r, i) ==
    /\ run[r].stage = "wait" /\ At(r, i)
    /\ run' = [run EXCEPT ![r].stage = "delete"]
    /\ UNCHANGED <<outbox, fails, faults>>

\* attempts += 1, in the try block or in the catch block.
\* Mutant: maxAttempts of them are enough.
CountEarly(r, i, caught) ==
    run' = [run EXCEPT ![r].copy[i] = @ + 1, ![r].caught = caught,
                       ![r].stage = IF run[r].copy[i] + 1 >= maxAttempts THEN "delete" ELSE "put"]
Count(r, i, caught) ==
    run' = [run EXCEPT ![r].copy[i] = @ + 1, ![r].caught = caught,
                       ![r].stage = IF run[r].copy[i] + 1 > maxAttempts THEN "delete" ELSE "put"]

\* A response that is not ok, or no response; from the stage the run is at.
Fail(r, i, stage, caught) ==
    /\ run[r].stage = stage /\ At(r, i)
    /\ Count(r, i, caught)
    /\ fails' = [fails EXCEPT ![i] = IF @ <= maxAttempts THEN @ + 1 ELSE @]
    /\ UNCHANGED <<outbox, faults>>

Delete(r, i) ==
    /\ run[r].stage = "delete" /\ At(r, i)
    /\ outbox' = [outbox EXCEPT ![i] = [state |-> "gone", attempts |-> 0]]
    /\ Done(r, i)
    /\ UNCHANGED <<fails, accepted, faults>>

\* put inserts the item again if another run has deleted it.
\* Mutant: the attempts are left as they are in the store.
PutUncounted(r, i) ==
    /\ run[r].stage = "put" /\ At(r, i)
    /\ outbox' = [outbox EXCEPT ![i].state = "queued"]
    /\ Done(r, i)
    /\ UNCHANGED <<fails, accepted, faults>>
Put(r, i) ==
    /\ run[r].stage = "put" /\ At(r, i)
    /\ outbox' = [outbox EXCEPT ![i] = [state |-> "queued", attempts |-> run[r].copy[i]]]
    /\ Done(r, i)
    /\ UNCHANGED <<fails, accepted, faults>>

\* An error of IndexedDB: in the try block it is one more attempt, in the
\* catch block it ends the run.
StorageFails(r, i) ==
    /\ run[r].stage \in {"delete", "put"} /\ At(r, i) /\ faults < MaxFaults
    /\ IF run[r].caught THEN run' = [run EXCEPT ![r] = Idle] ELSE Count(r, i, TRUE)
    /\ faults' = faults + 1
    /\ UNCHANGED <<outbox, fails, accepted>>

\* The tab is closed.
Close(r) ==
    /\ run[r] # Idle /\ faults < MaxFaults
    /\ run' = [run EXCEPT ![r] = Idle]
    /\ faults' = faults + 1
    /\ UNCHANGED <<outbox, fails, accepted>>
-----------------------------------------------------------------------------
\* The types of the object store and of the runs.
OutboxTypeOK ==
    /\ outbox \in [Items -> Item]
    /\ run \in [Runs -> Run] /\ \A r \in Runs : run[r].stage = "idle" <=> run[r].todo = {}
    /\ fails \in [Items -> Nat]
    /\ accepted \subseteq Items /\ faults \in Nat

\* An item leaves the outbox only after a service has accepted it, or after
\* more than maxAttempts sends in vain (errors of IndexedDB count as sends),
\* although runs overwrite each other's attempts, and delete and put back
\* what others work on.
NothingLost ==
    \A i \in Items : outbox[i].state = "gone" => i \in accepted \/ fails[i] + faults > maxAttempts
=============================================================================
