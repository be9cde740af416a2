------------------------ MODULE NotificationDelivery ------------------------
(***************************************************************************)
(* The delivery pipeline of notification-service for ONE notification: its *)
(* row in the notifications table, the channel sends that run in parallel  *)
(* for it, the retry timers, the cron runs that dispatch it when it was    *)
(* scheduled, and the REST requests that cancel it or mark it as read.     *)
(* Rows never refer to one another, so the other notifications show up     *)
(* only where a cron run loops over them (SaveThrows).                     *)
(*                                                                         *)
(* Every handler is "findOne, change the entity in memory, save", with an  *)
(* await between the steps.  repository.save re-reads the row, computes    *)
(* the columns in which the entity differs from it, and updates exactly    *)
(* those columns.  A handler is therefore three steps here: a load, Diff   *)
(* (the re-read) and a commit (the UPDATE), and it may overwrite what      *)
(* others wrote in between with the values of its stale copy.              *)
(***************************************************************************)
EXTENDS Naturals, FiniteSets

CONSTANTS
    Channels,    \* the channels the notification is addressed to
    Scans,       \* cron runs (overlapping runs, or replicas) of the scheduler
    Requests,    \* REST requests (cancel, mark as read) issued by users
    MaxRetries,  \* the constant maxRetries of markAsFailed (3 in the code)
    MaxRounds,   \* bound: rounds of sending explored
    MaxFaults    \* bound: crashes and database errors explored

Rounds == 1..MaxRounds
Keys == Rounds \X Channels               \* the send of round r to channel c
Handlers == Keys \cup Scans \cup Requests

ASSUME DeliveryAssumption ==
    /\ MaxRetries \in Nat \ {0} /\ MaxRounds \in Nat /\ MaxFaults \in Nat
    /\ Keys \cap Scans = {} /\ Keys \cap Requests = {} /\ Scans \cap Requests = {}

VARIABLES
    row,         \* the notification's row in the database
    rounds,      \* rounds of sending started so far
    op,          \* op[h]: what the asynchronous handler h is doing
    timers,      \* the failed sends whose setTimeout will emit notification.retry
    due,         \* scheduledFor has passed
    faults,      \* crashes and database errors so far
    retried,     \* history: the failed sends whose timer has fired
    dispatches,  \* history: notification.created events emitted
    failures,    \* history: the sends for which markAsFailed ran
    reached      \* history: the sends the channel accepted

history == <<retried, dispatches, failures, reached>>
vars == <<row, rounds, op, timers, due, faults, history>>
-----------------------------------------------------------------------------
\* The values of NotificationStatus a row can hold; ABSENT: not inserted yet.
\* PROCESSING is only ever set on an in-memory entity (see StartRound).
Status == {"ABSENT", "SCHEDULED", "PENDING", "DELIVERED", "FAILED", "READ", "CANCELED"}

\* An entry of deliveryAttempts; the key stands for its channel and timestamp.
Attempt == [key : Keys, success : BOOLEAN]

\* The columns the handlers write; the two timestamps by whether they are set.
Row == [status : Status, deliveryAttempts : SUBSET Attempt, retryCount : Nat,
        deliveredAt : BOOLEAN, readAt : BOOLEAN]
Columns == {"status", "deliveryAttempts", "retryCount", "deliveredAt", "readAt"}
BlankRow == [status |-> "ABSENT", deliveryAttempts |-> {}, retryCount |-> 0,
             deliveredAt |-> FALSE, readAt |-> FALSE]

\* A handler: its kind, how far it got, the entity it holds, and the columns
\* its UPDATE is going to write.
Kinds == {"none", "send", "delivered", "failed", "dispatch", "cancel", "read"}
Stages == {"idle", "sending", "catching", "loaded", "diffed", "done"}
Op == [kind : Kinds, stage : Stages, copy : Row, dirty : SUBSET Columns]

At(kind, stage) == [kind |-> kind, stage |-> stage, copy |-> BlankRow, dirty |-> {}]
Idle == At("none", "idle")
Done == At("none", "done")
Loaded(kind, entity) == [kind |-> kind, stage |-> "loaded", copy |-> entity, dirty |-> {}]
InFlight(h) == op[h].stage \notin {"idle", "done"}

\* repository.save, first half: the columns in which the entity differs.
\* Mutant: the change detection misses a JSON column changed in place.
DiffedMissesJson(o) ==
    [o EXCEPT !.stage = "diffed",
              !.dirty = {f \in Columns \ {"deliveryAttempts"} : o.copy[f] # row[f]}]
Diffed(o) == [o EXCEPT !.stage = "diffed", !.dirty = {f \in Columns : o.copy[f] # row[f]}]

\* repository.save, second half: the row after the UPDATE of those columns.
Saved(o) ==
    LET Pick(f, new, old) == IF f \in o.dirty THEN new ELSE old
    IN [status |-> Pick("status", o.copy.status, row.status),
        deliveryAttempts |-> Pick("deliveryAttempts", o.copy.deliveryAttempts,
                                  row.deliveryAttempts),
        retryCount |-> Pick("retryCount", o.copy.retryCount, row.retryCount),
        deliveredAt |-> Pick("deliveredAt", o.copy.deliveredAt, row.deliveredAt),
        readAt |-> Pick("readAt", o.copy.readAt, row.readAt)]

\* The entity as markAsDelivered, markAsFailed, markAsRead and cancel leave it.
Attempted(k, success) ==
    [row EXCEPT !.deliveryAttempts = @ \cup {[key |-> k, success |-> success]}]

DeliveredCopy(k) ==
    [Attempted(k, TRUE) EXCEPT !.status = "DELIVERED", !.deliveredAt = TRUE]

\* Whether markAsFailed gives up or retries, when n failures are counted.
AfterFailure(n) == IF n >= MaxRetries THEN "FAILED" ELSE "PENDING"

\* Mutants: the budget compared one too early, a deliveredAt stamped on a
\* failure, a failure logged as a success, a failure that is not counted.
FailedCopyOneEarly(k) ==
    [Attempted(k, FALSE) EXCEPT !.retryCount = @ + 1, !.status = AfterFailure(row.retryCount + 2)]
FailedCopyStamped(k) ==
    [Attempted(k, FALSE) EXCEPT !.retryCount = @ + 1, !.deliveredAt = TRUE,
                                !.status = AfterFailure(row.retryCount + 1)]
FailedCopySuccess(k) ==
    [Attempted(k, TRUE) EXCEPT !.retryCount = @ + 1, !.status = AfterFailure(row.retryCount + 1)]
FailedCopyUncounted(k) ==
    [Attempted(k, FALSE) EXCEPT !.status = AfterFailure(row.retryCount + 1)]
FailedCopy(k) ==
    [Attempted(k, FALSE) EXCEPT !.retryCount = @ + 1, !.status = AfterFailure(row.retryCount + 1)]

ReadCopy == [row EXCEPT !.status = "READ", !.readAt = TRUE]

\* Mutant: a status the enum does not have.
CanceledCopyMisspelt == [row EXCEPT !.status = "CANCELLED"]
CanceledCopy == [row EXCEPT !.status = "CANCELED"]
-----------------------------------------------------------------------------
Init ==
    /\ row = BlankRow
    /\ rounds = 0
    /\ op = [h \in Handlers |-> Idle]
    /\ timers = {}
    /\ due = FALSE
    /\ faults = 0
    /\ retried = {} /\ dispatches = 0 /\ failures = {} /\ reached = {}

\* handleNotificationCreated: sendToChannel for every channel, in parallel; a
\* is op as the handler that emitted the event leaves it.  The handler sets
\* notification.status = PROCESSING on the entity of the event, which nobody
\* saves: the row is left alone.
StartRound(a) ==
    /\ rounds < MaxRounds
    /\ rounds' = rounds + 1
    /\ op' = [h \in Handlers |->
                 IF h \in {rounds + 1} \X Channels THEN At("send", "sending") ELSE a[h]]

\* NotificationsService.create once the template checks have passed.
CreateImmediate ==
    /\ row.status = "ABSENT"
    /\ row' = [row EXCEPT !.status = "PENDING"]
    /\ dispatches' = dispatches + 1
    /\ StartRound(op)
    /\ UNCHANGED <<timers, due, faults, retried, failures, reached>>

CreateScheduled ==
    /\ row.status = "ABSENT"
    /\ row' = [row EXCEPT !.status = "SCHEDULED"]
    /\ UNCHANGED <<rounds, op, timers, due, faults, history>>

\* Time passes scheduledFor.
BecomeDue ==
    /\ row.status = "SCHEDULED" /\ ~due
    /\ due' = TRUE
    /\ UNCHANGED <<row, rounds, op, timers, faults, history>>

\* The channel accepts the message: markAsDelivered loads the row.
SendAccepted(k) ==
    /\ op[k].stage = "sending"
    /\ reached' = reached \cup {k}
    /\ op' = [op EXCEPT ![k] = Loaded("delivered", DeliveredCopy(k))]
    /\ UNCHANGED <<row, rounds, timers, due, faults, retried, dispatches, failures>>

\* The channel rejects it, the recipient's address is missing, or
\* markAsDelivered threw: the catch block calls markAsFailed.
SendFailed(k) ==
    /\ op[k].stage \in {"sending", "catching"}
    /\ failures' = failures \cup {k}
    /\ op' = [op EXCEPT ![k] = Loaded("failed", FailedCopy(k))]
    /\ UNCHANGED <<row, rounds, timers, due, faults, retried, dispatches, reached>>

\* save re-reads the row.
Diff(h) ==
    /\ op[h].stage = "loaded"
    /\ op' = [op EXCEPT ![h] = Diffed(op[h])]
    /\ UNCHANGED <<row, rounds, timers, due, faults, history>>

\* save of markAsDelivered, markAsRead and cancel.
Commit(h) ==
    /\ op[h].stage = "diffed" /\ op[h].kind \in {"delivered", "read", "cancel"}
    /\ row' = Saved(op[h])
    /\ op' = [op EXCEPT ![h] = Done]
    /\ UNCHANGED <<rounds, timers, due, faults, history>>

\* save of markAsFailed.  Whether to retry is decided on the saved entity, not
\* on what the row holds.  Mutant: the last retry of the budget is not armed.
CommitFailedArmsFewer(k) ==
    /\ op[k].stage = "diffed" /\ op[k].kind = "failed"
    /\ row' = Saved(op[k])
    /\ op' = [op EXCEPT ![k] = Done]
    /\ timers' = IF op[k].copy.retryCount + 1 < MaxRetries THEN timers \cup {k} ELSE timers
    /\ UNCHANGED <<rounds, due, faults, history>>
CommitFailed(k) ==
    /\ op[k].stage = "diffed" /\ op[k].kind = "failed"
    /\ row' = Saved(op[k])
    /\ op' = [op EXCEPT ![k] = Done]
    /\ timers' = IF op[k].copy.status = "PENDING" THEN timers \cup {k} ELSE timers
    /\ UNCHANGED <<rounds, due, faults, history>>

\* handleNotificationRetry: the whole notification is sent again, to all of
\* its channels, whatever its row says by now.  Mutant: setInterval in the
\* place of setTimeout.
RetryFiresForever(k) ==
    /\ k \in timers
    /\ retried' = retried \cup {k}
    /\ StartRound(op)
    /\ UNCHANGED <<row, timers, due, faults, dispatches, failures, reached>>
RetryFires(k) ==
    /\ k \in timers
    /\ timers' = timers \ {k}
    /\ retried' = retried \cup {k}
    /\ StartRound(op)
    /\ UNCHANGED <<row, due, faults, dispatches, failures, reached>>

\* processScheduledNotifications: find, then for this row save and emit.
\* Mutants: the query without its status, or with LessThan turned around.
ScanFindAny(s) ==
    /\ op[s].stage = "idle" /\ row.status # "ABSENT" /\ due
    /\ op' = [op EXCEPT ![s] = Loaded("dispatch", [row EXCEPT !.status = "PENDING"])]
    /\ UNCHANGED <<row, rounds, timers, due, faults, history>>
ScanFindEarly(s) ==
    /\ op[s].stage = "idle" /\ row.status = "SCHEDULED" /\ ~due
    /\ op' = [op EXCEPT ![s] = Loaded("dispatch", [row EXCEPT !.status = "PENDING"])]
    /\ UNCHANGED <<row, rounds, timers, due, faults, history>>
ScanFind(s) ==
    /\ op[s].stage = "idle" /\ row.status = "SCHEDULED" /\ due
    /\ op' = [op EXCEPT ![s] = Loaded("dispatch", [row EXCEPT !.status = "PENDING"])]
    /\ UNCHANGED <<row, rounds, timers, due, faults, history>>

ScanCommit(s) ==
    /\ op[s].stage = "diffed"
    /\ row' = Saved(op[s])
    /\ dispatches' = dispatches + 1
    /\ StartRound([op EXCEPT ![s] = Idle])
    /\ UNCHANGED <<timers, due, faults, retried, failures, reached>>

\* cancel checks the status of the entity it loaded; markAsRead checks nothing.
CancelLoads(q) ==
    /\ op[q].stage = "idle" /\ row.status \in {"PENDING", "SCHEDULED"}
    /\ op' = [op EXCEPT ![q] = Loaded("cancel", CanceledCopy)]
    /\ UNCHANGED <<row, rounds, timers, due, faults, history>>

ReadLoads(q) ==
    /\ op[q].stage = "idle" /\ row.status # "ABSENT"
    /\ op' = [op EXCEPT ![q] = Loaded("read", ReadCopy)]
    /\ UNCHANGED <<row, rounds, timers, due, faults, history>>
-----------------------------------------------------------------------------
\* A save throws; if that was the acknowledgement of its UPDATE, the row has
\* changed all the same.  markAsDelivered throws inside the try block of
\* sendToChannel, whose catch block runs markAsFailed; markAsFailed throws out
\* of Promise.all, and the error is logged; a cron run ends at the first save
\* that throws, of this row or of one its loop visits before; a request ends.
SaveThrows(h) ==
    /\ faults < MaxFaults
    /\ \/ op[h].stage \in {"loaded", "diffed"} /\ row' = row
       \/ op[h].stage = "diffed" /\ row' = Saved(op[h])
    /\ faults' = faults + 1
    /\ op' = [op EXCEPT ![h] = IF op[h].kind = "delivered" THEN At("failed", "catching")
                               ELSE IF h \in Scans THEN Idle ELSE Done]
    /\ UNCHANGED <<rounds, timers, due, history>>

\* The process dies and restarts: sends, timers and requests exist only in its
\* memory, and no code looks for rows left PENDING when it starts.
Crash ==
    /\ faults < MaxFaults
    /\ faults' = faults + 1
    /\ timers' = {}
    /\ op' = [h \in Handlers |->
                 IF ~InFlight(h) THEN op[h] ELSE IF h \in Scans THEN Idle ELSE Done]
    /\ UNCHANGED <<row, rounds, due, history>>
-----------------------------------------------------------------------------
SendStep(k) == SendAccepted(k) \/ SendFailed(k) \/ CommitFailed(k) \/ RetryFires(k)
ScanStep(s) == ScanFind(s) \/ ScanCommit(s)
RequestStep(q) == CancelLoads(q) \/ ReadLoads(q)

Next ==
    \/ CreateImmediate \/ CreateScheduled \/ BecomeDue \/ Crash
    \/ \E k \in Keys : SendStep(k)
    \/ \E s \in Scans : ScanStep(s)
    \/ \E q \in Requests : RequestStep(q)
    \/ \E h \in Handlers : Diff(h) \/ Commit(h) \/ SaveThrows(h)

Spec == Init /\ [][Next]_vars

\* What the scheduling of the code justifies: a promise settles, an armed timer
\* fires, a cron job runs every minute, the clock advances.  Users owe nothing,
\* and nothing makes a database error or a crash happen.
FairSpec ==
    /\ Spec
    /\ WF_vars(BecomeDue)
    /\ \A k \in Keys : /\ WF_vars(SendAccepted(k) \/ SendFailed(k) \/ Diff(k)
                                  \/ Commit(k) \/ CommitFailed(k))
                       /\ WF_vars(RetryFires(k))
    /\ \A s \in Scans : WF_vars(ScanFind(s) \/ Diff(s) \/ ScanCommit(s))
-----------------------------------------------------------------------------
(* Properties of every instance, with all races and faults.                *)

\* Every variable keeps its type.
TypeOK ==
    /\ row \in Row /\ op \in [Handlers -> Op]
    /\ rounds \in 0..MaxRounds /\ faults \in 0..MaxFaults
    /\ due \in BOOLEAN /\ dispatches \in Nat
    /\ timers \subseteq Keys /\ retried \subseteq Keys
    /\ failures \subseteq Keys /\ reached \subseteq Keys

\* However handlers overwrite each other's columns, retryCount never exceeds
\* the number of sends that failed, and the row says FAILED only when at least
\* MaxRetries sends did: stale saves lose failures but never invent one.
FailedIsEarned ==
    /\ row.retryCount <= Cardinality(failures)
    /\ row.status = "FAILED" => Cardinality(failures) >= MaxRetries

\* The row says DELIVERED, or carries a deliveredAt, only when some channel
\* did accept the message.
DeliveredIsReal ==
    row.status = "DELIVERED" \/ row.deliveredAt => reached # {}

\* Each entry of deliveryAttempts reports a send that ended the way it says
\* (an accepted send whose markAsDelivered threw counts as failed as well).
LogIsSound ==
    \A a \in row.deliveryAttempts : a.key \in IF a.success THEN reached ELSE failures

\* Nothing is sent without a cause: each round of sending goes back to one
\* notification.created or to one failed send of its own, and each failed send
\* causes at most one retry (its timer is armed once and fires once).
RoundsAreCaused ==
    /\ rounds = dispatches + Cardinality(retried)
    /\ retried \subseteq failures /\ timers \subseteq failures
    /\ timers \cap retried = {}

\* The inductive invariant behind the three of them: what they say of the row
\* holds of every entity a handler still holds, and a send has been counted in
\* failures exactly when its markAsFailed has run, before it can arm its timer.
Honest(r, failed, accepted) ==
    /\ r.retryCount <= Cardinality(failed)
    /\ r.status = "FAILED" => Cardinality(failed) >= MaxRetries
    /\ r.status = "DELIVERED" \/ r.deliveredAt => accepted # {}
    /\ \A a \in r.deliveryAttempts : a.key \in IF a.success THEN accepted ELSE failed

SendInv(k) ==
    /\ k[1] > rounds => op[k] = Idle /\ k \notin failures
    /\ op[k].stage \in {"sending", "catching"} \/ op[k].kind = "delivered" => k \notin failures
    /\ op[k].stage \in {"loaded", "diffed"} /\ op[k].kind = "failed" =>
           k \in failures \ (timers \cup retried)

DeliveryInv ==
    /\ TypeOK
    /\ IsFiniteSet(failures) /\ IsFiniteSet(retried)
    /\ Honest(row, failures, reached)
    /\ \A h \in Handlers : Honest(op[h].copy, failures, reached)
    /\ RoundsAreCaused
    /\ \A k \in Keys : SendInv(k)

\* With a single cron run at a time, a scheduled notification is dispatched at
\* most once, whatever cancels, reads, errors and crashes come in between.
DispatchedOnce == Cardinality(Scans) <= 1 => dispatches <= 1

\* Nothing is running, armed or scheduled for the notification.
Dormant ==
    /\ row.status \notin {"ABSENT", "SCHEDULED"}
    /\ timers = {}
    /\ \A h \in Keys \cup Scans : ~InFlight(h)

\* A notification that came to rest stays at rest: a late request may rewrite
\* its status, but neither a request nor a cron run nor a restart makes the
\* service send it again.
DormantStaysDormant == [][Dormant => Dormant']_vars

\* A due notification does not stay in the schedule: it is picked up, or a
\* request takes it out.
DueLeavesSchedule == (row.status = "SCHEDULED" /\ due) ~> row.status # "SCHEDULED"
-----------------------------------------------------------------------------
(* Of a service that suffers no crash and no database error.               *)

\* A send that will still write the status, or arm a timer when it commits.
WillAct(o) ==
    \/ o.stage \in {"sending", "catching", "loaded"}
    \/ o.stage = "diffed" /\ ("status" \in o.dirty \/ o.copy.status = "PENDING")

\* A PENDING row is never stranded: a send that will settle it is in flight or
\* a retry is armed, even when saves of several channels overlap.
PendingIsAlive ==
    row.status = "PENDING" => timers # {} \/ \E k \in Keys : WillAct(op[k])
-----------------------------------------------------------------------------
(* Of the sequential case: one channel, one cron run, no user request, no  *)
(* fault.  The pipeline then works as it was meant to.                     *)

\* The outcome of every finished send is in deliveryAttempts.
LogIsComplete ==
    \A k \in Keys : op[k].stage = "done" => \E a \in row.deliveryAttempts : a.key = k

Outcome == CASE row.status = "ABSENT" -> "new"
             [] row.status = "DELIVERED" -> "delivered"
             [] row.status = "FAILED" -> "failed"
             [] OTHER -> "open"

Contract == INSTANCE DeliveryContract WITH used <- row.retryCount, outcome <- Outcome

\* The pipeline implements its contract: it tries until a try succeeds or
\* MaxRetries of them failed, then stops for good, and it does get there.
ContractSpec == Contract!Spec
=============================================================================
