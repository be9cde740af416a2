---------------------------- MODULE KafkaConsumer ----------------------------
(***************************************************************************)
(* KafkaService.subscribe: the consumer group of a service on one          *)
(* partition of a topic.  eachMessage parses the message, runs the handler *)
(* up to maxRetries + 1 times with a backoff in between, sends what still  *)
(* fails to the dead letter queue, and returns, whatever happened.         *)
(*                                                                         *)
(* The Kafka client and broker are external: messages are delivered in     *)
(* order, the offset of a returned message is committed some time later,   *)
(* and when the partition moves to another member of the group that one    *)
(* starts from the committed offset.  As long as there is none it starts   *)
(* where fromBeginning says: unless the subscriber asks for the beginning, *)
(* at the end the topic has at that moment.  A member that lost the        *)
(* partition learns of it only at a later heartbeat and works on until     *)
(* then.                                                                   *)
(***************************************************************************)
EXTENDS Integers, FiniteSets

CONSTANTS
    Consumers,    \* the instances of the service, all in one consumer group
    Last,         \* bound: the messages of the partition are 1..Last
    Unparseable,  \* those whose value is not JSON
    fromBeginning,\* options.fromBeginning || false
    maxRetries,   \* 3 in the code
    sendRetries,  \* options.retry.retries of the producer
    MaxFaults     \* bound: crashes, rebalances, failed sends, reconfigurations

Messages == 1..Last

ASSUME ConsumerAssumption ==
    /\ Last \in Nat /\ maxRetries \in Nat /\ sendRetries \in Nat /\ MaxFaults \in Nat
    /\ fromBeginning \in BOOLEAN
    /\ Unparseable \subseteq Messages /\ IsFiniteSet(Consumers)

\* The group has not committed any offset yet.
NoOffset == -1

VARIABLES
    end,         \* the last message produced so far
    owner,       \* the consumer the broker has assigned the partition to
    committed,   \* the group's committed offset, or NoOffset
    base,        \* where the group began to read: the position of its last start
                 \* without a committed offset
    session,     \* session[c]: c believes the partition is its own
    resolved,    \* resolved[c]: the last offset c has finished or skipped over
    task,        \* task[c]: the eachMessage that c is running
    dlq,         \* dlq[m]: copies of m in the dead letter queue
    dlqEnabled,
    faults,
    delivered,   \* history: how often m was handed to eachMessage
    completed,   \* history: how often a handler returned for m
    failed,      \* history: how often a handler threw for m
    sent,        \* history: sends of m that got into the dead letter queue
    dropped      \* history: messages given up while dlqEnabled was false,
                 \* or whose send to the dead letter queue failed

group == <<end, owner, committed, base, session>>
history == <<delivered, completed, failed, sent, dropped>>
vars == <<group, resolved, task, dlq, dlqEnabled, faults, history>>
-----------------------------------------------------------------------------
Stages == {"idle", "handling", "backoff", "sending", "sent"}
Task == [stage : Stages, offset : 0..Last, retryCount : 0..(maxRetries + 1),
         resends : 0..sendRetries]
NoTask == [stage |-> "idle", offset |-> 0, retryCount |-> 0, resends |-> 0]

Busy(c, stage) == task[c].stage = stage
Counted(history_, m) == [history_ EXCEPT ![m] = @ + 1]

\* eachMessage returns for the offset m, and the client marks it as resolved.
Return(c, m) ==
    /\ task' = [task EXCEPT ![c] = NoTask]
    /\ resolved' = [resolved EXCEPT ![c] = m]

\* Where a member starts as long as the group has no committed offset.
StartPosition == IF fromBeginning THEN 0 ELSE end

Init ==
    /\ end \in 0..Last
    /\ owner \in Consumers
    /\ committed = NoOffset
    /\ base = StartPosition
    /\ session = [c \in Consumers |-> c = owner]
    /\ resolved = [c \in Consumers |-> IF c = owner THEN StartPosition ELSE 0]
    /\ task = [c \in Consumers |-> NoTask]
    /\ dlq = [m \in Messages |-> 0]
    /\ dlqEnabled = TRUE
    /\ faults = 0
    /\ delivered = [m \in Messages |-> 0]
    /\ completed = [m \in Messages |-> 0]
    /\ failed = [m \in Messages |-> 0]
    /\ sent = [m \in Messages |-> 0]
    /\ dropped = {}
-----------------------------------------------------------------------------
\* The client hands the next message to eachMessage.
Fetched(c, m) == session[c] /\ Busy(c, "idle") /\ m = resolved[c] + 1 /\ m \in 1..end

Deliver(c, m) ==
    /\ Fetched(c, m) /\ m \notin Unparseable
    /\ task' = [task EXCEPT ![c] =
                   [stage |-> "handling", offset |-> m, retryCount |-> 0, resends |-> 0]]
    /\ delivered' = Counted(delivered, m)
    /\ UNCHANGED <<group, resolved, dlq, dlqEnabled, faults, completed, failed, sent, dropped>>

\* The parse error branch: sendToDlq parses message.value once more, so that
\* it throws before it gets to the send, and its own catch block swallows it.
\* Without a dead letter queue it returns at once: the same to the message.
DeliverUnparseable(c, m) ==
    /\ Fetched(c, m) /\ m \in Unparseable
    /\ Return(c, m)
    /\ delivered' = Counted(delivered, m)
    /\ UNCHANGED <<group, dlq, dlqEnabled, faults, completed, failed, sent, dropped>>

HandlerSucceeds(c) ==
    /\ Busy(c, "handling")
    /\ completed' = Counted(completed, task[c].offset)
    /\ Return(c, task[c].offset)
    /\ UNCHANGED <<group, dlq, dlqEnabled, faults, delivered, failed, sent, dropped>>

\* The handler throws and retries are left.  Mutants: retryCount declared inside
\* the loop (without the history, which would grow for ever); one retry too many.
HandlerFailsForever(c) ==
    /\ Busy(c, "handling") /\ task[c].retryCount + 1 <= maxRetries
    /\ task' = [task EXCEPT ![c].stage = "backoff"]
    /\ UNCHANGED <<group, resolved, dlq, dlqEnabled, faults, history>>
HandlerFailsOnceMore(c) ==
    /\ Busy(c, "handling") /\ task[c].retryCount <= maxRetries
    /\ failed' = Counted(failed, task[c].offset)
    /\ task' = [task EXCEPT ![c].stage = "backoff", ![c].retryCount = @ + 1]
    /\ UNCHANGED <<group, resolved, dlq, dlqEnabled, faults, delivered, completed, sent, dropped>>
HandlerFails(c) ==
    /\ Busy(c, "handling") /\ task[c].retryCount + 1 <= maxRetries
    /\ failed' = Counted(failed, task[c].offset)
    /\ task' = [task EXCEPT ![c].stage = "backoff", ![c].retryCount = @ + 1]
    /\ UNCHANGED <<group, resolved, dlq, dlqEnabled, faults, delivered, completed, sent, dropped>>

BackoffEnds(c) ==
    /\ Busy(c, "backoff")
    /\ task' = [task EXCEPT ![c].stage = "handling"]
    /\ UNCHANGED <<group, resolved, dlq, dlqEnabled, faults, history>>

\* It throws for the last time.  sendToDlq looks at dlqEnabled and starts its
\* send in the same step.
HandlerGivesUp(c) ==
    /\ Busy(c, "handling") /\ task[c].retryCount + 1 > maxRetries
    /\ failed' = Counted(failed, task[c].offset)
    /\ IF dlqEnabled
       THEN /\ task' = [task EXCEPT ![c].stage = "sending", ![c].retryCount = @ + 1]
            /\ UNCHANGED <<resolved, dropped>>
       ELSE Return(c, task[c].offset) /\ dropped' = dropped \cup {task[c].offset}
    /\ UNCHANGED <<group, dlq, dlqEnabled, faults, delivered, completed, sent>>

\* The broker appends the message to the dead letter topic ...
DlqAppends(c) ==
    /\ Busy(c, "sending")
    /\ dlq' = Counted(dlq, task[c].offset)
    /\ sent' = Counted(sent, task[c].offset)
    /\ task' = [task EXCEPT ![c].stage = "sent", ![c].resends = sendRetries]
    /\ UNCHANGED <<group, resolved, dlqEnabled, faults, delivered, completed, failed, dropped>>

\* ... and does so once more when its acknowledgement is lost: the producer has
\* retries and is not idempotent ...
DlqAppendsAgain(c) ==
    /\ Busy(c, "sent") /\ task[c].resends > 0
    /\ dlq' = Counted(dlq, task[c].offset)
    /\ task' = [task EXCEPT ![c].resends = @ - 1]
    /\ UNCHANGED <<group, resolved, dlqEnabled, faults, history>>

\* ... until producer.send resolves.  Mutants: the send is not awaited, so that it
\* may never get there; no break behind it.
DlqAcknowledgedLoops(c) ==
    /\ Busy(c, "sent")
    /\ task' = [task EXCEPT ![c].stage = "handling"]
    /\ UNCHANGED <<group, resolved, dlq, dlqEnabled, faults, history>>
DlqAcknowledgedEarly(c) ==
    /\ task[c].stage \in {"sending", "sent"}
    /\ Return(c, task[c].offset)
    /\ UNCHANGED <<group, dlq, dlqEnabled, faults, history>>
DlqAcknowledged(c) ==
    /\ Busy(c, "sent")
    /\ Return(c, task[c].offset)
    /\ UNCHANGED <<group, dlq, dlqEnabled, faults, history>>

\* producer.send rejects, with or without the message in the topic (the topic
\* may not exist: allowAutoTopicCreation is off).  The error is logged, and
\* eachMessage returns as if all were well.
DlqFails(c) ==
    /\ task[c].stage \in {"sending", "sent"} /\ faults < MaxFaults
    /\ faults' = faults + 1
    /\ dropped' = dropped \cup {task[c].offset}
    /\ Return(c, task[c].offset)
    /\ UNCHANGED <<group, dlq, dlqEnabled, delivered, completed, failed, sent>>

SetDlqEnabled ==
    /\ faults < MaxFaults
    /\ faults' = faults + 1
    /\ dlqEnabled' = ~dlqEnabled
    /\ UNCHANGED <<group, resolved, task, dlq, history>>
-----------------------------------------------------------------------------
(* The client library, the broker and the producers of the topic.          *)

Produce ==
    /\ end < Last
    /\ end' = end + 1
    /\ UNCHANGED <<owner, committed, base, session, resolved, task, dlq, dlqEnabled, faults, history>>

\* The automatic commit of what was resolved since the start; the broker refuses
\* it from a former owner.
Commit(c) ==
    /\ owner = c /\ session[c] /\ resolved[c] > base /\ resolved[c] # committed
    /\ committed' = resolved[c]
    /\ UNCHANGED <<end, owner, base, session, resolved, task, dlq, dlqEnabled, faults, history>>

\* c gets the partition and starts from the committed offset, and without one
\* from the StartPosition.
Assign(c) ==
    /\ ~session[c]
    /\ owner' = c
    /\ session' = [session EXCEPT ![c] = TRUE]
    /\ base' = IF committed = NoOffset THEN StartPosition ELSE base
    /\ resolved' = [resolved EXCEPT ![c] = IF committed = NoOffset THEN StartPosition ELSE committed]
    /\ UNCHANGED <<end, committed, task, dlq, dlqEnabled, history>>

\* The partition moves because its owner has left, or to balance the load, or
\* because a handler and its backoffs outlasted the sessionTimeout.
Reassign(c) == ~session[owner] /\ Assign(c) /\ UNCHANGED faults
Rebalance(c) ==
    /\ session[owner] /\ faults < MaxFaults
    /\ faults' = faults + 1
    /\ Assign(c)

\* A former owner learns that it is one.
Notice(c) ==
    /\ session[c] /\ owner # c /\ Busy(c, "idle")
    /\ session' = [session EXCEPT ![c] = FALSE]
    /\ UNCHANGED <<end, owner, committed, base, resolved, task, dlq, dlqEnabled, faults, history>>

\* The function subscribe returns, and disconnect: stop waits for eachMessage.
Stop(c) ==
    /\ session[c] /\ Busy(c, "idle") /\ faults < MaxFaults
    /\ faults' = faults + 1
    /\ session' = [session EXCEPT ![c] = FALSE]
    /\ UNCHANGED <<end, owner, committed, base, resolved, task, dlq, dlqEnabled, history>>

Crash(c) ==
    /\ session[c] /\ faults < MaxFaults
    /\ faults' = faults + 1
    /\ session' = [session EXCEPT ![c] = FALSE]
    /\ task' = [task EXCEPT ![c] = NoTask]
    /\ UNCHANGED <<end, owner, committed, base, resolved, dlq, dlqEnabled, history>>
-----------------------------------------------------------------------------
WorkStep(c) ==
    \/ \E m \in Messages : Deliver(c, m) \/ DeliverUnparseable(c, m)
    \/ HandlerSucceeds(c) \/ HandlerFails(c) \/ BackoffEnds(c) \/ HandlerGivesUp(c)
    \/ DlqAppends(c) \/ DlqAppendsAgain(c) \/ DlqAcknowledged(c) \/ DlqFails(c)

GroupStep(c) ==
    Commit(c) \/ Reassign(c) \/ Rebalance(c) \/ Notice(c) \/ Stop(c) \/ Crash(c)

Next == SetDlqEnabled \/ Produce \/ \E c \in Consumers : WorkStep(c) \/ GroupStep(c)

Spec == Init /\ [][Next]_vars

\* Handlers and sends settle, timers fire, the client goes on fetching and
\* committing, and the broker reassigns a partition whose owner has left.
FairSpec ==
    /\ Spec
    /\ \A c \in Consumers : WF_vars(WorkStep(c)) /\ WF_vars(Commit(c)) /\ WF_vars(Notice(c))
    /\ WF_vars(\E c \in Consumers : Reassign(c))
-----------------------------------------------------------------------------
\* Every variable keeps its type.
TypeOK ==
    /\ end \in 0..Last /\ owner \in Consumers /\ committed \in -1..Last /\ base \in 0..Last
    /\ session \in [Consumers -> BOOLEAN] /\ resolved \in [Consumers -> 0..Last]
    /\ task \in [Consumers -> Task]
    /\ dlq \in [Messages -> Nat] /\ dlqEnabled \in BOOLEAN /\ faults \in 0..MaxFaults
    /\ delivered \in [Messages -> Nat] /\ completed \in [Messages -> Nat]
    /\ failed \in [Messages -> Nat] /\ sent \in [Messages -> Nat] /\ dropped \subseteq Messages

\* What became of a message is known: a handler returned for it, or it is in
\* the dead letter queue, or it is one of those the code gives up on.
Accounted(m) ==
    \/ completed[m] > 0 \/ dlq[m] > 0 \/ m \in dropped
    \/ m \in Unparseable /\ delivered[m] > 0

\* At least once, and in order, from where the group began to read: crashes,
\* rebalances and members that do not know that they lost the partition may
\* repeat messages, but behind base nobody skips one.  The committed offset
\* never passes an unaccounted message, and no message is handed out before
\* those in front of it are accounted for.  With fromBeginning base is 0.
\* Without it base moves on as long as nothing is committed: a crash or a
\* rebalance then does skip what came in meanwhile, delivered or not.
NothingSkipped ==
    /\ fromBeginning => base = 0
    /\ \A m \in (base + 1)..committed : Accounted(m)
    /\ \A m \in Messages : delivered[m] > 0 => \A k \in (base + 1)..(m - 1) : Accounted(k)

\* One delivery has one outcome and one retry budget: a message is completed
\* twice, or both completed and dead-lettered, only if it was also delivered
\* twice; a delivery runs the handler at most maxRetries + 1 times; every send
\* to the dead letter queue stands for maxRetries + 1 failures; and one send
\* leaves more than one copy only by the retries of the producer.
OutcomePerDelivery ==
    \A m \in Messages :
        /\ completed[m] + sent[m] <= delivered[m]
        /\ failed[m] <= (maxRetries + 1) * delivered[m]
        /\ (maxRetries + 1) * sent[m] <= failed[m]
        /\ dlq[m] <= (sendRetries + 1) * sent[m]

\* The committed offset never moves back, whoever commits it.
CommitsAdvance == [][committed' >= committed]_vars

\* The inductive invariant behind NothingSkipped and CommitsAdvance.
Working(c) == ~Busy(c, "idle")

MemberInv(c) ==
    /\ resolved[c] <= end
    /\ \A m \in (base + 1)..resolved[c] : Accounted(m)
    /\ Working(c) => /\ session[c]
                     /\ task[c].offset = resolved[c] + 1 /\ task[c].offset <= end
                     /\ task[c].offset \in Messages \ Unparseable
    /\ task[c].stage \in {"handling", "backoff"} => task[c].retryCount <= maxRetries
    /\ Busy(c, "sent") => dlq[task[c].offset] > 0

ProducedInv == \A m \in Messages : delivered[m] > 0 \/ Accounted(m) => m <= end

GroupInv ==
    /\ base <= end
    /\ committed # NoOffset => base < committed
    /\ session[owner] => base <= resolved[owner] /\ committed <= resolved[owner]

ConsumerInv ==
    /\ TypeOK
    /\ NothingSkipped
    /\ \A c \in Consumers : MemberInv(c)
    /\ ProducedInv
    /\ GroupInv

\* Of the messages behind base those up to some offset are accounted for.
Frontier == CHOOSE n \in base..Last : {m \in Messages : m > base /\ Accounted(m)} = (base + 1)..n

Contract == INSTANCE TopicContract WITH frontier <- Frontier

\* The group keeps the contract of the topic: from where it began to read it
\* finishes the messages one after the other, commits only what is finished, and
\* a message no handler can process does not keep it from reaching the end.
ContractSpec == Contract!Spec
-----------------------------------------------------------------------------
(* What a comment of the code says, and the code does not do (violated in a *)
(* run of its own).                                                         *)

\* subscribe: "Send unparseable message to DLQ".
UnparseableReachesDlq == \A m \in (base + 1)..committed : m \in Unparseable => dlq[m] > 0
=============================================================================
