------------------------- MODULE KafkaConsumerProofs -------------------------
(***************************************************************************)
(* What holds of a consumer group for any number of members, messages,     *)
(* retries and faults.                                                     *)
(***************************************************************************)
EXTENDS KafkaConsumer, FiniteSetTheorems, TLAPS

LEMMA NoTaskType == NoTask \in Task
BY ConsumerAssumption DEF NoTask, Task, Stages

LEMMA SendingType ==
    ASSUME NEW t \in Task, t.retryCount <= maxRetries
    PROVE  [t EXCEPT !.stage = "sending", !.retryCount = t.retryCount + 1] \in Task
<1> USE ConsumerAssumption
<1>1. t.retryCount + 1 \in 0..(maxRetries + 1)
  BY DEF Task
<1>2. PICK n \in 0..(maxRetries + 1) : n = t.retryCount + 1
  BY <1>1
<1> QED BY <1>2 DEF Task, Stages

LEMMA HandlingType ==
    ASSUME NEW m \in Messages
    PROVE  [stage |-> "handling", offset |-> m, retryCount |-> 0, resends |-> 0] \in Task
BY ConsumerAssumption DEF Task, Stages, Messages

LEMMA CountedType ==
    ASSUME NEW f \in [Messages -> Nat], NEW m \in Messages
    PROVE  /\ Counted(f, m) \in [Messages -> Nat]
           /\ Counted(f, m)[m] > 0
           /\ \A n \in Messages : f[n] > 0 => Counted(f, m)[n] > 0
           /\ \A n \in Messages \ {m} : Counted(f, m)[n] = f[n]
BY DEF Counted

LEMMA ReturnType ==
    ASSUME TypeOK, NEW c \in Consumers, NEW m \in Messages, Return(c, m)
    PROVE  /\ task' \in [Consumers -> Task] /\ resolved' \in [Consumers -> 0..Last]
           /\ task'[c] = NoTask /\ resolved'[c] = m
           /\ \A x \in Consumers \ {c} : task'[x] = task[x] /\ resolved'[x] = resolved[x]
BY NoTaskType, ConsumerAssumption DEF Return, TypeOK, Messages

\* A step that takes nothing back keeps the accounts of all messages.
LEMMA AccountedMonotone ==
    ASSUME TypeOK, NEW m \in Messages, Accounted(m),
           completed[m] > 0 => completed'[m] > 0,
           dlq[m] > 0 => dlq'[m] > 0,
           delivered[m] > 0 => delivered'[m] > 0,
           dropped \subseteq dropped'
    PROVE  Accounted(m)'
BY DEF Accounted

LEMMA ConsumerInit == Init => ConsumerInv
<1> SUFFICES ASSUME Init PROVE ConsumerInv
  OBVIOUS
<1>1. TypeOK
  <2>1. StartPosition \in 0..Last
    BY ConsumerAssumption DEF Init, StartPosition
  <2> QED BY <2>1, NoTaskType, ConsumerAssumption DEF Init, TypeOK, NoOffset
<1>2. /\ committed = -1 /\ (fromBeginning => base = 0) /\ 0 <= base /\ base <= end /\ base \in Nat
      /\ resolved[owner] = base
      /\ \A c \in Consumers : resolved[c] \in Nat /\ resolved[c] <= base
  BY <1>1, ConsumerAssumption DEF Init, StartPosition, TypeOK, NoOffset
<1>3. NothingSkipped
  BY <1>1, <1>2, ConsumerAssumption DEF Init, NothingSkipped, TypeOK
<1>4. \A c \in Consumers : MemberInv(c)
  BY <1>1, <1>2, ConsumerAssumption DEF Init, MemberInv, Working, Busy, NoTask, TypeOK
<1>5. ProducedInv
  BY DEF Init, ProducedInv, Accounted
<1>6. GroupInv
  BY <1>1, <1>2 DEF GroupInv, NoOffset, TypeOK
<1> QED BY <1>1, <1>3, <1>4, <1>5, <1>6 DEF Init, ConsumerInv
-----------------------------------------------------------------------------
(* Types and accounts are kept by every step.                              *)

LEMMA TypeStep == ConsumerInv /\ [Next]_vars => TypeOK'
<1> SUFFICES ASSUME ConsumerInv, [Next]_vars PROVE TypeOK'
  OBVIOUS
<1> USE ConsumerAssumption
<1>t. TypeOK /\ \A c \in Consumers : MemberInv(c)
  BY DEF ConsumerInv
<1>o. \A c \in Consumers : Working(c) => task[c].offset \in Messages
  BY <1>t DEF MemberInv
<1>1. CASE SetDlqEnabled
  BY <1>1, <1>t DEF SetDlqEnabled, TypeOK, group, history
<1>2. ASSUME NEW c \in Consumers, NEW m \in Messages, Deliver(c, m) PROVE TypeOK'
  <2> QED BY <1>2, <1>t, HandlingType, CountedType DEF Deliver, TypeOK, group
<1>3. ASSUME NEW c \in Consumers, NEW m \in Messages, DeliverUnparseable(c, m) PROVE TypeOK'
  BY <1>3, <1>t, ReturnType, CountedType DEF DeliverUnparseable, TypeOK, group
<1>4. ASSUME NEW c \in Consumers, HandlerSucceeds(c) PROVE TypeOK'
  <2>1. task[c].offset \in Messages
    BY <1>4, <1>o DEF HandlerSucceeds, Working, Busy
  <2> QED BY <1>4, <1>t, <2>1, ReturnType, CountedType DEF HandlerSucceeds, TypeOK, group
<1>5. ASSUME NEW c \in Consumers, HandlerFails(c) PROVE TypeOK'
  <2>1. task[c].offset \in Messages
    BY <1>5, <1>o DEF HandlerFails, Working, Busy
  <2>2. task' \in [Consumers -> Task]
    BY <1>5, <1>t DEF HandlerFails, TypeOK, Task, Stages
  <2> QED BY <1>5, <1>t, <2>1, <2>2, CountedType DEF HandlerFails, TypeOK, group
<1>6. ASSUME NEW c \in Consumers, BackoffEnds(c) PROVE TypeOK'
  <2>2. task' \in [Consumers -> Task]
    BY <1>6, <1>t DEF BackoffEnds, TypeOK, Task, Stages
  <2> QED BY <1>6, <1>t, <2>2 DEF BackoffEnds, TypeOK, group, history
<1>7. ASSUME NEW c \in Consumers, HandlerGivesUp(c) PROVE TypeOK'
  <2>1. task[c].offset \in Messages
    BY <1>7, <1>o DEF HandlerGivesUp, Working, Busy
  <2>2. Counted(failed, task[c].offset) \in [Messages -> Nat]
    BY <1>t, <2>1, CountedType DEF TypeOK
  <2>3. CASE dlqEnabled
    <3>1. task[c] \in Task /\ task[c].retryCount <= maxRetries
      BY <1>7, <1>t DEF TypeOK, MemberInv, HandlerGivesUp, Busy
    <3>2. [task[c] EXCEPT !.stage = "sending", !.retryCount = task[c].retryCount + 1] \in Task
      BY <3>1, SendingType
    <3>3. task' = [task EXCEPT ![c] = [task[c] EXCEPT !.stage = "sending",
                                                      !.retryCount = task[c].retryCount + 1]]
      BY <1>7, <1>t, <2>3 DEF HandlerGivesUp, TypeOK
    <3>4. task' \in [Consumers -> Task]
      BY <1>t, <3>2, <3>3 DEF TypeOK
    <3> QED BY <1>7, <1>t, <2>2, <2>3, <3>4 DEF HandlerGivesUp, TypeOK, group
  <2>4. CASE ~dlqEnabled
    BY <1>7, <1>t, <2>1, <2>2, <2>4, ReturnType DEF HandlerGivesUp, TypeOK, group
  <2> QED BY <2>3, <2>4
<1>8. ASSUME NEW c \in Consumers, DlqAppends(c) PROVE TypeOK'
  <2>1. task[c].offset \in Messages
    BY <1>8, <1>o DEF DlqAppends, Working, Busy
  <2>2. task' \in [Consumers -> Task]
    <3>1. task[c] \in Task /\ sendRetries \in 0..sendRetries
      BY <1>t DEF TypeOK
    <3>2. [task[c] EXCEPT !.stage = "sent", !.resends = sendRetries] \in Task
      BY <3>1 DEF Task, Stages
    <3>3. task' = [task EXCEPT ![c] = [task[c] EXCEPT !.stage = "sent", !.resends = sendRetries]]
      BY <1>8 DEF DlqAppends
    <3> QED BY <1>t, <3>2, <3>3 DEF TypeOK
  <2> QED BY <1>8, <1>t, <2>1, <2>2, CountedType DEF DlqAppends, TypeOK, group, history
<1>8a. ASSUME NEW c \in Consumers, DlqAppendsAgain(c) PROVE TypeOK'
  <2>1. task[c].offset \in Messages
    BY <1>8a, <1>o DEF DlqAppendsAgain, Working, Busy
  <2>2. task' \in [Consumers -> Task]
    BY <1>8a, <1>t DEF DlqAppendsAgain, TypeOK, Task, Stages
  <2> QED BY <1>8a, <1>t, <2>1, <2>2, CountedType DEF DlqAppendsAgain, TypeOK, group, history
<1>9. ASSUME NEW c \in Consumers, DlqAcknowledged(c) PROVE TypeOK'
  <2>1. task[c].offset \in Messages
    BY <1>9, <1>o DEF DlqAcknowledged, Working, Busy
  <2> QED BY <1>9, <1>t, <2>1, ReturnType DEF DlqAcknowledged, TypeOK, group, history
<1>10. ASSUME NEW c \in Consumers, DlqFails(c) PROVE TypeOK'
  <2>1. task[c].offset \in Messages
    BY <1>10, <1>o DEF DlqFails, Working, Busy
  <2> QED BY <1>10, <1>t, <2>1, ReturnType DEF DlqFails, TypeOK, group
<1>11. ASSUME NEW c \in Consumers, Commit(c) PROVE TypeOK'
  BY <1>11, <1>t DEF Commit, TypeOK, history
<1>11a. CASE Produce
  <2>1. end' \in 0..Last
    BY <1>11a, <1>t DEF Produce, TypeOK
  <2> QED BY <1>11a, <1>t, <2>1 DEF Produce, TypeOK, history
<1>12. ASSUME NEW c \in Consumers, Reassign(c) \/ Rebalance(c) PROVE TypeOK'
  <2>1. Assign(c) /\ faults' \in 0..MaxFaults
    BY <1>12, <1>t DEF Reassign, Rebalance, TypeOK
  <2>0. StartPosition \in 0..Last /\ (committed # NoOffset => committed \in 0..Last)
    BY <1>t DEF StartPosition, TypeOK, NoOffset
  <2>2. owner' \in Consumers /\ session' \in [Consumers -> BOOLEAN]
        /\ resolved' \in [Consumers -> 0..Last] /\ base' \in 0..Last
    BY <1>t, <2>0, <2>1 DEF Assign, TypeOK
  <2>3. UNCHANGED <<end, committed, task, dlq, dlqEnabled, delivered, completed, failed, sent, dropped>>
    BY <2>1 DEF Assign, history
  <2> QED BY <1>t, <2>1, <2>2, <2>3 DEF TypeOK
<1>13. ASSUME NEW c \in Consumers, Notice(c) \/ Stop(c) PROVE TypeOK'
  <2>0. session' = [session EXCEPT ![c] = FALSE]
    BY <1>13 DEF Notice, Stop
  <2>a. faults' = faults \/ (faults < MaxFaults /\ faults' = faults + 1)
    BY <1>13 DEF Notice, Stop
  <2>1. faults' \in 0..MaxFaults /\ session' \in [Consumers -> BOOLEAN]
    BY <1>t, <2>0, <2>a DEF TypeOK
  <2>2. UNCHANGED <<end, owner, committed, base, resolved, task, dlq, dlqEnabled, delivered,
                    completed, failed, sent, dropped>>
    BY <1>13 DEF Notice, Stop, history
  <2> QED BY <1>t, <2>1, <2>2 DEF TypeOK
<1>14. ASSUME NEW c \in Consumers, Crash(c) PROVE TypeOK'
  BY <1>14, <1>t, NoTaskType DEF Crash, TypeOK, history
<1>15. CASE UNCHANGED vars
  BY <1>15, <1>t DEF vars, group, history, TypeOK
<1> QED
  BY <1>1, <1>2, <1>3, <1>4, <1>5, <1>6, <1>7, <1>8, <1>8a, <1>9, <1>10, <1>11, <1>11a, <1>12,
     <1>13, <1>14, <1>15 DEF Next, WorkStep, GroupStep

\* What is accounted for stays so.
LEMMA AccountsStep ==
    ASSUME ConsumerInv, [Next]_vars
    PROVE  /\ \A m \in Messages : Accounted(m) => Accounted(m)'
           /\ \A m \in Messages : dlq[m] > 0 => dlq'[m] > 0
           /\ end \in Nat /\ end' \in Nat /\ end <= end'
<1> USE ConsumerAssumption
<1>t. TypeOK /\ \A c \in Consumers : MemberInv(c)
  BY DEF ConsumerInv
<1>o. \A c \in Consumers : Working(c) => task[c].offset \in Messages
  BY <1>t DEF MemberInv
<1>f. /\ completed \in [Messages -> Nat] /\ dlq \in [Messages -> Nat]
      /\ delivered \in [Messages -> Nat]
  BY <1>t DEF TypeOK
<1>e. end \in Nat /\ end' \in Nat /\ end <= end'
  <2>1. end \in 0..Last
    BY <1>t DEF TypeOK
  <2>2. end' = end \/ Produce
    BY DEF Next, vars, SetDlqEnabled, WorkStep, GroupStep, Deliver, DeliverUnparseable,
           HandlerSucceeds, HandlerFails, BackoffEnds, HandlerGivesUp, DlqAppends, DlqAppendsAgain,
           DlqAcknowledged, DlqFails, Commit, Reassign, Rebalance, Assign, Notice, Stop, Crash, group
  <2> QED BY <2>1, <2>2 DEF Produce
<1> SUFFICES ASSUME NEW m \in Messages
             PROVE  /\ completed[m] > 0 => completed'[m] > 0
                    /\ dlq[m] > 0 => dlq'[m] > 0
                    /\ delivered[m] > 0 => delivered'[m] > 0
                    /\ dropped \subseteq dropped'
  BY <1>t, <1>e, AccountedMonotone
<1> DEFINE Kept == /\ completed[m] > 0 => completed'[m] > 0
                   /\ dlq[m] > 0 => dlq'[m] > 0
                   /\ delivered[m] > 0 => delivered'[m] > 0
                   /\ dropped \subseteq dropped'
<1>1. UNCHANGED <<completed, dlq, delivered, dropped>> => Kept
  OBVIOUS
<1>2. ASSUME NEW c \in Consumers, NEW n \in Messages, Deliver(c, n) \/ DeliverUnparseable(c, n)
      PROVE  Kept
  <2>1. UNCHANGED <<completed, dlq, dropped>> /\ delivered' = Counted(delivered, n)
    BY <1>2 DEF Deliver, DeliverUnparseable
  <2> QED
    BY <2>1, <1>f, CountedType
<1>3. ASSUME NEW c \in Consumers, HandlerSucceeds(c)
      PROVE  Kept
  <2>1. /\ UNCHANGED <<delivered, dlq, dropped>> /\ task[c].offset \in Messages
        /\ completed' = Counted(completed, task[c].offset)
    BY <1>3, <1>o DEF HandlerSucceeds, Working, Busy
  <2> QED
    BY <2>1, <1>f, CountedType
<1>4. ASSUME NEW c \in Consumers, DlqAppends(c) \/ DlqAppendsAgain(c)
      PROVE  Kept
  <2>1. /\ UNCHANGED <<delivered, completed, dropped>> /\ task[c].offset \in Messages
        /\ dlq' = Counted(dlq, task[c].offset)
    BY <1>4, <1>o DEF DlqAppends, DlqAppendsAgain, Working, Busy, history
  <2> QED
    BY <2>1, <1>f, CountedType
<1>5. ASSUME NEW c \in Consumers, HandlerGivesUp(c) \/ DlqFails(c)
      PROVE  Kept
  BY <1>5 DEF HandlerGivesUp, DlqFails
<1>6. ASSUME NEW c \in Consumers,
             HandlerFails(c) \/ BackoffEnds(c) \/ DlqAcknowledged(c) \/ GroupStep(c)
      PROVE  Kept
  BY <1>1, <1>6 DEF HandlerFails, BackoffEnds, DlqAcknowledged, GroupStep, Commit, Reassign,
                    Rebalance, Assign, Notice, Stop, Crash, history
<1>7. ASSUME SetDlqEnabled \/ Produce \/ UNCHANGED vars
      PROVE  Kept
  BY <1>1, <1>7 DEF SetDlqEnabled, Produce, vars, history
<1> HIDE DEF Kept
<1>8. ASSUME NEW c \in Consumers, WorkStep(c)
      PROVE  Kept
  BY <1>2, <1>3, <1>4, <1>5, <1>6, <1>8 DEF WorkStep
<1>9. Next => Kept
  BY <1>6, <1>7, <1>8 DEF Next
<1> QED
  BY <1>7, <1>9 DEF Kept
-----------------------------------------------------------------------------
(* The inductive invariant.                                                *)

\* Only the message behind those a member has done becomes accounted for.
LEMMA NewlyAccounted ==
    ASSUME ConsumerInv, [Next]_vars, NEW n \in Messages, ~Accounted(n), Accounted(n)'
    PROVE  \E c \in Consumers : n = resolved[c] + 1 /\ n <= end
<1>w. \A c \in Consumers : Working(c) =>
          /\ task[c].offset = resolved[c] + 1 /\ task[c].offset <= end
          /\ task[c].offset \in Messages
  BY DEF ConsumerInv, MemberInv
<1>e. end \in Nat
  BY ConsumerAssumption DEF ConsumerInv, TypeOK
<1>f. /\ completed \in [Messages -> Nat] /\ dlq \in [Messages -> Nat]
      /\ delivered \in [Messages -> Nat]
  BY DEF ConsumerInv, TypeOK
<1>1. ASSUME NEW c \in Consumers, NEW m \in Messages, Deliver(c, m) \/ DeliverUnparseable(c, m)
      PROVE  n = resolved[c] + 1 /\ n <= end
  <2>1. /\ UNCHANGED <<completed, dlq, dropped>> /\ delivered' = Counted(delivered, m)
        /\ m = resolved[c] + 1 /\ m <= end
    BY <1>1, <1>e DEF Deliver, DeliverUnparseable, Fetched
  <2> QED BY <1>f, <2>1, CountedType DEF Accounted
<1>2. ASSUME NEW c \in Consumers, HandlerSucceeds(c) PROVE n = resolved[c] + 1 /\ n <= end
  <2>1. Working(c) /\ UNCHANGED <<delivered, dlq, dropped>>
        /\ completed' = Counted(completed, task[c].offset)
    BY <1>2 DEF HandlerSucceeds, Working, Busy
  <2> QED BY <1>f, <1>w, <2>1, CountedType DEF Accounted
<1>3. ASSUME NEW c \in Consumers, DlqAppends(c) \/ DlqAppendsAgain(c) PROVE n = resolved[c] + 1 /\ n <= end
  <2>1. Working(c) /\ UNCHANGED <<delivered, completed, dropped>>
        /\ dlq' = Counted(dlq, task[c].offset)
    BY <1>3 DEF DlqAppends, DlqAppendsAgain, Working, Busy, history
  <2> QED BY <1>f, <1>w, <2>1, CountedType DEF Accounted
<1>4. ASSUME NEW c \in Consumers, HandlerGivesUp(c) \/ DlqFails(c) PROVE n = resolved[c] + 1 /\ n <= end
  <2>1. Working(c) /\ UNCHANGED <<delivered, completed, dlq>>
        /\ dropped' \subseteq dropped \cup {task[c].offset}
    BY <1>4 DEF HandlerGivesUp, DlqFails, Working, Busy
  <2> QED BY <1>w, <2>1 DEF Accounted
<1>5. ASSUME NEW c \in Consumers,
             HandlerFails(c) \/ BackoffEnds(c) \/ DlqAcknowledged(c) \/ GroupStep(c)
      PROVE  FALSE
  <2>1. UNCHANGED <<completed, dlq, delivered, dropped>>
    BY <1>5 DEF HandlerFails, BackoffEnds, DlqAcknowledged, GroupStep, Commit, Reassign,
                Rebalance, Assign, Notice, Stop, Crash, history
  <2> QED BY <2>1 DEF Accounted
<1>6. CASE SetDlqEnabled \/ Produce \/ UNCHANGED vars
  BY <1>6 DEF SetDlqEnabled, Produce, vars, history, Accounted
<1> QED BY <1>1, <1>2, <1>3, <1>4, <1>5, <1>6 DEF Next, WorkStep

\* Only messages that were produced are delivered.
LEMMA NewlyDelivered ==
    ASSUME ConsumerInv, [Next]_vars, NEW n \in Messages, ~(delivered[n] > 0), delivered'[n] > 0
    PROVE  n <= end
<1>f. delivered \in [Messages -> Nat] /\ end \in Nat
  BY ConsumerAssumption DEF ConsumerInv, TypeOK
<1>1. ASSUME NEW c \in Consumers, NEW m \in Messages, Deliver(c, m) \/ DeliverUnparseable(c, m)
      PROVE  n <= end
  <2>1. delivered' = Counted(delivered, m) /\ m <= end
    BY <1>1, <1>f DEF Deliver, DeliverUnparseable, Fetched
  <2> QED BY <1>f, <2>1, CountedType
<1>2. ASSUME \A c \in Consumers, m \in Messages : ~Deliver(c, m) /\ ~DeliverUnparseable(c, m)
      PROVE  FALSE
  <2>1. UNCHANGED delivered
    BY <1>2 DEF Next, vars, SetDlqEnabled, Produce, WorkStep, GroupStep, HandlerSucceeds,
                HandlerFails, BackoffEnds, HandlerGivesUp, DlqAppends, DlqAppendsAgain,
                DlqAcknowledged, DlqFails, Commit, Reassign, Rebalance, Assign, Notice, Stop,
                Crash, history
  <2> QED BY <2>1
<1> QED BY <1>1, <1>2

LEMMA ProducedStep ==
    ASSUME ConsumerInv, [Next]_vars
    PROVE  ProducedInv'
<1> SUFFICES ASSUME NEW m \in Messages, delivered'[m] > 0 \/ Accounted(m)' PROVE m <= end'
  BY DEF ProducedInv
<1>1. end <= end' /\ end \in Nat /\ end' \in Nat /\ m \in Nat
  BY AccountsStep, ConsumerAssumption DEF Messages
<1>2. m <= end
  <2>1. CASE delivered[m] > 0 \/ Accounted(m)
    BY <2>1 DEF ConsumerInv, ProducedInv
  <2>2. CASE ~(delivered[m] > 0) /\ ~Accounted(m)
    BY <2>2, NewlyAccounted, NewlyDelivered
  <2> QED BY <2>1, <2>2
<1> QED BY <1>1, <1>2

\* The group begins anew only while nothing is committed, and then at the end.
LEMMA BaseStep ==
    ASSUME ConsumerInv, [Next]_vars
    PROVE  /\ base \in Nat /\ base' \in Nat
           /\ fromBeginning => base' = 0
           /\ base' <= end'
           /\ \/ UNCHANGED base
              \/ base' = end /\ committed = NoOffset /\ UNCHANGED committed
<1> USE ConsumerAssumption
<1>1. base \in Nat /\ end \in Nat /\ end' \in Nat /\ end <= end' /\ base <= end
  BY AccountsStep DEF ConsumerInv, TypeOK, GroupInv
<1>2. fromBeginning => base = 0
  BY DEF ConsumerInv, NothingSkipped
<1>3. ASSUME NEW c \in Consumers, Assign(c)
      PROVE  \/ UNCHANGED base
             \/ ~fromBeginning /\ base' = end /\ committed = NoOffset /\ UNCHANGED committed
  BY <1>2, <1>3 DEF Assign, StartPosition
<1>4. UNCHANGED base \/ \E c \in Consumers : Assign(c)
  BY DEF Next, vars, SetDlqEnabled, Produce, WorkStep, GroupStep, Deliver, DeliverUnparseable,
         HandlerSucceeds, HandlerFails, BackoffEnds, HandlerGivesUp, DlqAppends, DlqAppendsAgain,
         DlqAcknowledged, DlqFails, Commit, Reassign, Rebalance, Notice, Stop, Crash, group
<1> QED BY <1>1, <1>2, <1>3, <1>4

\* What is accounted for from base up to n stays so, wherever base goes.
LEMMA RangeKept ==
    ASSUME ConsumerInv, [Next]_vars, NEW n \in 0..Last, n <= end,
           \A m \in (base + 1)..n : Accounted(m)
    PROVE  \A m \in (base' + 1)..n : Accounted(m)'
<1>1. /\ base \in Nat /\ base' \in Nat /\ end \in Nat
      /\ base' = base \/ base' = end
  BY AccountsStep, BaseStep
<1>2. CASE base' = base
  BY <1>1, <1>2, AccountsStep, ConsumerAssumption DEF Messages
<1>3. CASE base' = end
  BY <1>1, <1>3, ConsumerAssumption
<1> QED BY <1>1, <1>2, <1>3

\* A member that a step leaves alone.
LEMMA MemberKept ==
    ASSUME ConsumerInv, [Next]_vars, NEW x \in Consumers, task'[x] = task[x],
           resolved'[x] = resolved[x], Working(x) => session'[x]
    PROVE  MemberInv(x)'
<1>1. MemberInv(x) /\ resolved[x] \in 0..Last /\ end \in Nat /\ end' \in Nat /\ end <= end'
  BY AccountsStep DEF ConsumerInv, TypeOK
<1>2. \A m \in (base' + 1)..resolved[x] : Accounted(m)'
  BY <1>1, RangeKept DEF MemberInv
<1>3. Busy(x, "sent") => dlq'[task[x].offset] > 0
  BY <1>1, AccountsStep DEF MemberInv, Working, Busy
<1>4. resolved[x] <= end'
  BY <1>1, ConsumerAssumption DEF MemberInv
<1>5. Working(x) => task[x].offset <= end'
  BY <1>1, ConsumerAssumption DEF MemberInv
<1> QED BY <1>1, <1>2, <1>3, <1>4, <1>5 DEF MemberInv, Working, Busy

\* A member whose eachMessage returns for the message behind those it has done.
LEMMA MemberReturned ==
    ASSUME ConsumerInv, [Next]_vars, UNCHANGED <<base, end>>, NEW x \in Consumers,
           NEW m \in Messages, Return(x, m), m = resolved[x] + 1, m <= end, Accounted(m)'
    PROVE  MemberInv(x)'
<1>1. MemberInv(x) /\ resolved[x] \in 0..Last /\ TypeOK /\ base \in Nat
  BY ConsumerAssumption DEF ConsumerInv, TypeOK
<1>2. task'[x] = NoTask /\ resolved'[x] = resolved[x] + 1
  BY <1>1, ReturnType
<1>3. \A n \in (base + 1)..resolved'[x] : n \in (base + 1)..resolved[x] \/ n = m
  BY <1>1, <1>2, ConsumerAssumption
<1>4. \A n \in (base' + 1)..resolved'[x] : Accounted(n)'
  BY <1>1, <1>3, AccountsStep, ConsumerAssumption DEF MemberInv, Messages
<1> QED BY <1>2, <1>4 DEF MemberInv, Working, Busy, NoTask

LEMMA Ranges ==
    ASSUME NEW b \in Nat
    PROVE  /\ (b + 1)..NoOffset = {}
           /\ \A n \in Messages : \A k \in (b + 1)..(n - 1) : k \in Messages /\ b < k /\ k < n
BY ConsumerAssumption DEF NoOffset, Messages

\* No step but a commit can skip a message.
LEMMA SkippedKept ==
    ASSUME ConsumerInv, [Next]_vars, UNCHANGED <<committed, delivered>>
    PROVE  NothingSkipped'
<1> USE ConsumerAssumption
<1>1. /\ NothingSkipped /\ committed \in -1..Last /\ base \in Nat /\ base' \in Nat /\ end \in Nat
      /\ fromBeginning => base' = 0
      /\ base' = base \/ (base' = end /\ committed = NoOffset)
  BY AccountsStep, BaseStep DEF ConsumerInv, TypeOK
<1>2. \A m \in (base' + 1)..committed : Accounted(m)'
  <2>1. CASE base' = base
    BY <1>1, <2>1, AccountsStep DEF NothingSkipped, Messages
  <2>2. CASE committed = NoOffset
    BY <1>1, <2>2, Ranges
  <2> QED BY <1>1, <2>1, <2>2
<1>3. ASSUME NEW n \in Messages, delivered[n] > 0, NEW k, k \in (base' + 1)..(n - 1)
      PROVE  Accounted(k)'
  <2>0. k \in Messages /\ base' < k /\ k < n
    BY <1>1, <1>3, Ranges
  <2>1. k \in Messages /\ n \in Nat /\ k \in Nat /\ base' < k /\ k < n
    BY <2>0 DEF Messages
  <2>2. CASE base' = base
    BY <1>1, <1>3, <2>1, <2>2, AccountsStep DEF NothingSkipped
  <2>3. CASE base' = end
    <3>1. n <= end
      BY <1>3 DEF ConsumerInv, ProducedInv
    <3> QED BY <1>1, <1>3, <2>1, <2>3, <3>1
  <2> QED BY <1>1, <2>2, <2>3
<1> QED BY <1>1, <1>2, <1>3 DEF NothingSkipped

LEMMA SkippedDelivered ==
    ASSUME ConsumerInv, [Next]_vars, UNCHANGED <<committed, base>>, NEW c \in Consumers,
           NEW m \in Messages, m = resolved[c] + 1, delivered' = Counted(delivered, m)
    PROVE  NothingSkipped'
<1>1. /\ NothingSkipped /\ committed \in -1..Last /\ MemberInv(c) /\ resolved[c] \in 0..Last
      /\ delivered \in [Messages -> Nat] /\ base \in Nat
  BY ConsumerAssumption DEF ConsumerInv, TypeOK
<1>2. \A n \in (base' + 1)..committed' : Accounted(n)'
  BY <1>1, AccountsStep, ConsumerAssumption DEF NothingSkipped, Messages
<1>3. ASSUME NEW n \in Messages, delivered'[n] > 0, NEW k \in (base + 1)..(n - 1)
      PROVE  Accounted(k)'
  <2>1. k \in Messages
    BY <1>1, <1>3, ConsumerAssumption DEF Messages
  <2>2. CASE n = m
    BY <1>1, <2>1, <2>2, AccountsStep DEF MemberInv
  <2>3. CASE n # m
    <3>1. delivered[n] > 0
      BY <1>1, <1>3, <2>3, CountedType
    <3> QED BY <1>1, <1>3, <2>1, <3>1, AccountsStep DEF NothingSkipped
  <2> QED BY <2>2, <2>3
<1> QED BY <1>1, <1>2, <1>3 DEF NothingSkipped

\* The owner does not fall behind what the group has committed.
LEMMA OwnerKept ==
    ASSUME ConsumerInv, [Next]_vars, UNCHANGED <<owner, committed, base, session>>, TypeOK',
           resolved'[owner] = resolved[owner] \/ resolved'[owner] = resolved[owner] + 1
    PROVE  GroupInv'
<1>1. GroupInv /\ base' <= end'
  BY BaseStep DEF ConsumerInv
<1>2. committed \in Int /\ resolved[owner] \in Nat /\ base \in Nat
  BY ConsumerAssumption DEF ConsumerInv, TypeOK
<1> QED BY <1>1, <1>2 DEF GroupInv

\* eachMessage returns for a message that was in progress, and is accounted for.
LEMMA ReturnStep ==
    ASSUME ConsumerInv, [Next]_vars, NEW c \in Consumers, NEW m \in Messages, Return(c, m),
           m = resolved[c] + 1, m <= end, Accounted(m)', UNCHANGED group,
           delivered' = delivered \/ delivered' = Counted(delivered, m)
    PROVE  ConsumerInv'
<1>1. TypeOK /\ TypeOK'
  BY TypeStep DEF ConsumerInv
<1>2. MemberInv(c)'
  BY MemberReturned DEF group
<1>3. \A x \in Consumers \ {c} : MemberInv(x)'
  <2>1. ASSUME NEW x \in Consumers \ {c} PROVE MemberInv(x)'
    <3>1. task'[x] = task[x] /\ resolved'[x] = resolved[x]
      BY <1>1, ReturnType
    <3>2. Working(x) => session'[x]
      BY DEF ConsumerInv, MemberInv, group
    <3> QED BY <3>1, <3>2, MemberKept
  <2> QED BY <2>1
<1>4. NothingSkipped'
  BY SkippedKept, SkippedDelivered DEF group
<1>5. resolved'[owner] = resolved[owner] \/ resolved'[owner] = resolved[owner] + 1
  BY <1>1, ReturnType DEF TypeOK
<1>6. GroupInv'
  BY <1>1, <1>5, OwnerKept DEF group
<1> QED BY <1>1, <1>2, <1>3, <1>4, <1>6, ProducedStep DEF ConsumerInv

\* A step inside the eachMessage of c, which goes on.
LEMMA InsideStep ==
    ASSUME ConsumerInv, [Next]_vars, NEW c \in Consumers,
           UNCHANGED <<owner, committed, base, session, resolved>>, MemberInv(c)',
           \A x \in Consumers \ {c} : task'[x] = task[x], NothingSkipped'
    PROVE  ConsumerInv'
<1>1. TypeOK /\ TypeOK'
  BY TypeStep DEF ConsumerInv
<1>2. ASSUME NEW x \in Consumers \ {c} PROVE MemberInv(x)'
  <2>1. Working(x) => session'[x]
    BY DEF ConsumerInv, MemberInv
  <2> QED BY <2>1, MemberKept
<1>3. GroupInv'
  BY <1>1, OwnerKept
<1> QED BY <1>1, <1>2, <1>3, ProducedStep DEF ConsumerInv

LEMMA ConsumerStep == ConsumerInv /\ [Next]_vars => ConsumerInv'
<1> SUFFICES ASSUME ConsumerInv, [Next]_vars PROVE ConsumerInv'
  OBVIOUS
<1> USE ConsumerAssumption
<1>t. TypeOK /\ TypeOK' /\ NothingSkipped /\ \A c \in Consumers : MemberInv(c)
  BY TypeStep DEF ConsumerInv
<1>w. \A c \in Consumers : Working(c) =>
          /\ session[c] /\ task[c].offset = resolved[c] + 1 /\ task[c].offset <= end
          /\ task[c].offset \in Messages /\ task[c].offset \in Messages \ Unparseable
  BY <1>t DEF MemberInv
<1>f. /\ completed \in [Messages -> Nat] /\ dlq \in [Messages -> Nat]
      /\ delivered \in [Messages -> Nat] /\ task \in [Consumers -> Task]
      /\ resolved \in [Consumers -> 0..Last] /\ session \in [Consumers -> BOOLEAN]
      /\ end \in Nat /\ base \in Nat
  BY <1>t DEF TypeOK
<1>r. \A c \in Consumers : resolved[c] <= end /\ \A n \in (base' + 1)..resolved[c] : Accounted(n)'
  BY <1>t, <1>f, RangeKept DEF MemberInv
<1>e. end' \in Nat /\ end <= end'
  BY AccountsStep
<1>1. CASE SetDlqEnabled \/ Produce \/ UNCHANGED vars
  <2>1. UNCHANGED <<owner, committed, base, session, resolved, task, delivered>>
    BY <1>1 DEF SetDlqEnabled, Produce, vars, group, history
  <2>2. \A x \in Consumers : MemberInv(x)'
    BY <1>w, <2>1, MemberKept
  <2>3. NothingSkipped'
    BY <2>1, SkippedKept
  <2>4. GroupInv'
    BY <1>t, <2>1, OwnerKept
  <2> QED BY <1>t, <2>1, <2>2, <2>3, <2>4, ProducedStep DEF ConsumerInv
<1>2. ASSUME NEW c \in Consumers, NEW m \in Messages, Deliver(c, m) PROVE ConsumerInv'
  <2>1. /\ UNCHANGED <<end, owner, committed, base, session, resolved, dlq>>
        /\ task'[c] = [stage |-> "handling", offset |-> m, retryCount |-> 0, resends |-> 0]
        /\ \A x \in Consumers \ {c} : task'[x] = task[x]
        /\ m = resolved[c] + 1 /\ m <= end /\ session[c] /\ m \notin Unparseable
        /\ delivered' = Counted(delivered, m)
    BY <1>2, <1>f DEF Deliver, Fetched, group
  <2>2. NothingSkipped'
    BY <2>1, SkippedDelivered
  <2>4. MemberInv(c)'
    BY <1>r, <2>1 DEF MemberInv, Working, Busy
  <2> QED BY <2>1, <2>2, <2>4, InsideStep
<1>3. ASSUME NEW c \in Consumers, NEW m \in Messages, DeliverUnparseable(c, m)
      PROVE  ConsumerInv'
  <2>1. Return(c, m) /\ m = resolved[c] + 1 /\ m <= end /\ UNCHANGED group
        /\ delivered' = Counted(delivered, m) /\ m \in Unparseable
    BY <1>3, <1>f DEF DeliverUnparseable, Fetched
  <2>2. Accounted(m)'
    BY <1>f, <2>1, CountedType DEF Accounted
  <2> QED BY <2>1, <2>2, ReturnStep
<1>4. ASSUME NEW c \in Consumers, HandlerSucceeds(c) PROVE ConsumerInv'
  <2>1. task[c].offset = resolved[c] + 1 /\ task[c].offset <= end /\ task[c].offset \in Messages
    BY <1>4, <1>w DEF HandlerSucceeds, Working, Busy
  <2>2. Return(c, task[c].offset) /\ UNCHANGED <<group, delivered>>
        /\ completed' = Counted(completed, task[c].offset)
    BY <1>4 DEF HandlerSucceeds
  <2>3. PICK m \in Messages : m = task[c].offset
    BY <2>1
  <2>4. Accounted(m)'
    BY <1>f, <2>2, <2>3, CountedType DEF Accounted
  <2> QED BY <2>1, <2>2, <2>3, <2>4, ReturnStep
<1>5. ASSUME NEW c \in Consumers, HandlerFails(c) \/ BackoffEnds(c) PROVE ConsumerInv'
  <2>1. /\ UNCHANGED <<end, owner, committed, base, session, resolved, dlq, delivered>>
        /\ \A x \in Consumers \ {c} : task'[x] = task[x]
        /\ task'[c].stage \in {"handling", "backoff"} /\ task'[c].offset = task[c].offset
    BY <1>5, <1>f DEF HandlerFails, BackoffEnds, group, history, Task
  <2>2. task'[c].retryCount <= maxRetries
    BY <1>5, <1>f, <1>t DEF HandlerFails, BackoffEnds, Task, MemberInv, Busy
  <2>3. NothingSkipped'
    BY <2>1, SkippedKept
  <2>4. Working(c)
    BY <1>5 DEF HandlerFails, BackoffEnds, Working, Busy
  <2>5. MemberInv(c)'
    BY <1>r, <1>w, <2>1, <2>2, <2>4 DEF MemberInv, Working, Busy
  <2> QED BY <2>1, <2>3, <2>5, InsideStep
<1>6. ASSUME NEW c \in Consumers, HandlerGivesUp(c) PROVE ConsumerInv'
  <2>1. Working(c) /\ UNCHANGED <<group, delivered, dlq>>
    BY <1>6 DEF HandlerGivesUp, Working, Busy
  <2>2. PICK m \in Messages : m = task[c].offset /\ m = resolved[c] + 1 /\ m <= end
    BY <1>w, <2>1
  <2>3. CASE dlqEnabled
    <3>1. /\ UNCHANGED <<end, owner, committed, base, session, resolved>>
          /\ \A x \in Consumers \ {c} : task'[x] = task[x]
          /\ task'[c].stage = "sending" /\ task'[c].offset = task[c].offset
      BY <1>6, <1>f, <2>3 DEF HandlerGivesUp, group, Task
    <3>2. NothingSkipped'
      BY <2>1, SkippedKept DEF group
    <3>3. MemberInv(c)'
      BY <1>r, <1>w, <2>1, <3>1 DEF MemberInv, Working, Busy
    <3> QED BY <3>1, <3>2, <3>3, InsideStep
  <2>4. CASE ~dlqEnabled
    <3>1. Return(c, m) /\ Accounted(m)'
      BY <1>6, <2>2, <2>4 DEF HandlerGivesUp, Accounted
    <3> QED BY <2>1, <2>2, <3>1, ReturnStep
  <2> QED BY <2>3, <2>4
<1>7. ASSUME NEW c \in Consumers, DlqAppends(c) \/ DlqAppendsAgain(c) PROVE ConsumerInv'
  <2>1. Working(c) /\ UNCHANGED <<end, owner, committed, base, session, resolved, delivered>>
    BY <1>7 DEF DlqAppends, DlqAppendsAgain, Working, Busy, group, history
  <2>2. PICK m \in Messages : m = task[c].offset
    BY <1>w, <2>1
  <2>3. /\ \A x \in Consumers \ {c} : task'[x] = task[x]
        /\ task'[c].stage = "sent" /\ task'[c].offset = m
    BY <1>7, <1>f, <2>2 DEF DlqAppends, DlqAppendsAgain, Busy, Task
  <2>4. dlq'[m] > 0
    BY <1>7, <1>f, <2>2, CountedType DEF DlqAppends, DlqAppendsAgain
  <2>5. NothingSkipped'
    BY <2>1, SkippedKept
  <2>6. MemberInv(c)'
    BY <1>r, <1>w, <2>1, <2>2, <2>3, <2>4 DEF MemberInv, Working, Busy
  <2> QED BY <2>1, <2>3, <2>5, <2>6, InsideStep
<1>8. ASSUME NEW c \in Consumers, DlqAcknowledged(c) \/ DlqFails(c) PROVE ConsumerInv'
  <2>1. Working(c) /\ UNCHANGED <<group, delivered>> /\ Return(c, task[c].offset)
    BY <1>8 DEF DlqAcknowledged, DlqFails, Working, Busy, history
  <2>2. PICK m \in Messages : m = task[c].offset /\ m = resolved[c] + 1 /\ m <= end
    BY <1>w, <2>1
  <2>3. Accounted(m)'
    <3>1. CASE DlqAcknowledged(c)
      <4>1. dlq'[m] > 0
        BY <1>t, <2>2, <3>1 DEF DlqAcknowledged, MemberInv
      <4> QED BY <4>1 DEF Accounted
    <3>2. CASE DlqFails(c)
      BY <2>2, <3>2 DEF DlqFails, Accounted
    <3> QED BY <1>8, <3>1, <3>2
  <2> QED BY <2>1, <2>2, <2>3, ReturnStep
<1>9. ASSUME NEW c \in Consumers, Commit(c) PROVE ConsumerInv'
  <2>1. /\ UNCHANGED <<end, owner, base, session, resolved, task, dlq, delivered, completed, dropped>>
        /\ owner = c /\ session[c] /\ resolved[c] > base /\ committed' = resolved[c]
    BY <1>9 DEF Commit, history
  <2>2. \A x \in Consumers : MemberInv(x)'
    BY <1>w, <2>1, MemberKept
  <2>3. NothingSkipped'
    <3>1. \A m \in (base' + 1)..committed' : Accounted(m)'
      BY <1>r, <2>1
    <3>2. \A m \in Messages : delivered'[m] > 0 => \A k \in (base' + 1)..(m - 1) : Accounted(k)'
      BY <1>t, <1>f, <2>1, AccountsStep DEF NothingSkipped, Messages
    <3> QED BY <1>t, <2>1, <3>1, <3>2 DEF NothingSkipped
  <2>4. GroupInv'
    BY <1>f, <2>1 DEF ConsumerInv, GroupInv
  <2> QED BY <1>t, <2>2, <2>3, <2>4, ProducedStep DEF ConsumerInv
<1>10. ASSUME NEW c \in Consumers, Assign(c) PROVE ConsumerInv'
  <2>0. committed # NoOffset => base' = base /\ committed \in 0..Last /\ base < committed
    BY <1>10, <1>t DEF Assign, ConsumerInv, GroupInv, TypeOK, NoOffset
  <2>1. /\ UNCHANGED <<end, committed, task, dlq, delivered>> /\ ~session[c]
        /\ owner' = c /\ session'[c]
        /\ resolved'[c] = (IF committed = NoOffset THEN base' ELSE committed)
        /\ \A x \in Consumers \ {c} : resolved'[x] = resolved[x] /\ session'[x] = session[x]
    BY <1>10, <1>f DEF Assign, history
  <2>2. NothingSkipped'
    BY <2>1, SkippedKept
  <2>b. base' \in Nat /\ base' <= end
    BY <2>1, BaseStep
  <2>c. committed # NoOffset => committed <= end
    <3>1. ASSUME committed # NoOffset PROVE committed <= end
      <4>1. committed \in Messages /\ committed \in (base + 1)..committed
        BY <1>f, <2>0, <3>1 DEF Messages
      <4>2. Accounted(committed)
        BY <1>t, <4>1 DEF NothingSkipped
      <4> QED BY <4>1, <4>2 DEF ConsumerInv, ProducedInv
    <3> QED BY <3>1
  <2>3. MemberInv(c)'
    <3>1. ~Working(c)
      BY <1>w, <2>1
    <3>2. \A n \in (base' + 1)..resolved'[c] : Accounted(n)'
      <4>1. CASE committed = NoOffset
        <5>1. (base' + 1)..resolved'[c] = {}
          BY <2>1, <2>b, <4>1
        <5> QED BY <5>1
      <4>2. CASE committed # NoOffset
        BY <2>1, <2>2, <4>2 DEF NothingSkipped
      <4> QED BY <4>1, <4>2
    <3>3. resolved'[c] <= end'
      BY <2>1, <2>b, <2>c
    <3> QED BY <2>1, <3>1, <3>2, <3>3 DEF MemberInv, Working, Busy
  <2>4. \A x \in Consumers \ {c} : MemberInv(x)'
    BY <1>w, <2>1, MemberKept
  <2>5. GroupInv'
    <3>1. CASE committed = NoOffset
      BY <2>1, <2>b, <3>1 DEF GroupInv, NoOffset
    <3>2. CASE committed # NoOffset
      BY <1>f, <2>0, <2>1, <2>b, <3>2 DEF GroupInv
    <3> QED BY <3>1, <3>2
  <2> QED BY <1>t, <2>2, <2>3, <2>4, <2>5, ProducedStep DEF ConsumerInv
<1>11. ASSUME NEW c \in Consumers, Notice(c) \/ Stop(c) \/ Crash(c) PROVE ConsumerInv'
  <2>1. /\ UNCHANGED <<end, owner, committed, base, resolved, dlq, delivered>>
        /\ \A x \in Consumers \ {c} : task'[x] = task[x] /\ session'[x] = session[x]
        /\ task'[c] = NoTask \/ task'[c] = task[c]
        /\ ~session'[c]
    BY <1>11, <1>f DEF Notice, Stop, Crash, history
  <2>i. task'[c] = NoTask \/ task[c].stage = "idle"
    BY <1>11, <1>f DEF Notice, Stop, Crash, Busy
  <2>2. NothingSkipped'
    BY <2>1, SkippedKept
  <2>3. MemberInv(c)'
    <3>1. task'[c].stage = "idle"
      BY <2>1, <2>i DEF NoTask
    <3> QED BY <1>r, <2>1, <3>1 DEF MemberInv, Working, Busy
  <2>4. \A x \in Consumers \ {c} : MemberInv(x)'
    BY <1>w, <2>1, MemberKept
  <2>5. GroupInv'
    BY <1>t, <2>1 DEF ConsumerInv, GroupInv, TypeOK
  <2> QED BY <1>t, <2>2, <2>3, <2>4, <2>5, ProducedStep DEF ConsumerInv
<1> QED
  BY <1>1, <1>2, <1>3, <1>4, <1>5, <1>6, <1>7, <1>8, <1>9, <1>10, <1>11
     DEF Next, WorkStep, GroupStep, Reassign, Rebalance

LEMMA ConsumerInvariant == Spec => []ConsumerInv
BY ConsumerInit, ConsumerStep, PTL DEF Spec

\* The types of all variables are kept.
THEOREM ConsumerTypes == Spec => []TypeOK
<1>1. ConsumerInv => TypeOK
  BY DEF ConsumerInv
<1> QED BY <1>1, ConsumerInvariant, PTL

\* No crash, rebalance or late member makes the group skip a message behind the
\* one where it began to read.
THEOREM NothingSkippedAlways == Spec => []NothingSkipped
<1>1. ConsumerInv => NothingSkipped
  BY DEF ConsumerInv
<1> QED BY <1>1, ConsumerInvariant, PTL

\* A copy comes from a send, and a send from a message that was parsed.
NoCopies == \A m \in Unparseable : dlq[m] = 0
LEMMA CopyStep == ConsumerInv /\ NoCopies /\ [Next]_vars => NoCopies'
<1>1. ASSUME NEW c \in Consumers, ConsumerInv, NoCopies, DlqAppends(c) \/ DlqAppendsAgain(c)
      PROVE  NoCopies'
  <2>1. task[c].offset \in Messages \ Unparseable
    BY <1>1 DEF DlqAppends, DlqAppendsAgain, Busy, ConsumerInv, MemberInv, Working
  <2>0. dlq' = Counted(dlq, task[c].offset) /\ dlq \in [Messages -> Nat]
    BY <1>1 DEF DlqAppends, DlqAppendsAgain, ConsumerInv, TypeOK
  <2>2. \A n \in Messages \ {task[c].offset} : dlq'[n] = dlq[n]
    BY <2>0, <2>1, CountedType
  <2> QED BY <1>1, <2>1, <2>2, ConsumerAssumption DEF NoCopies
<1>2. ASSUME NoCopies, UNCHANGED dlq PROVE NoCopies'
  BY <1>2 DEF NoCopies
<1>3. ASSUME [Next]_vars, \A c \in Consumers : ~DlqAppends(c) /\ ~DlqAppendsAgain(c)
      PROVE  UNCHANGED dlq
  BY <1>3 DEF Next, vars, SetDlqEnabled, Produce, WorkStep, GroupStep, Deliver, DeliverUnparseable,
              HandlerSucceeds, HandlerFails, BackoffEnds, HandlerGivesUp, DlqAcknowledged, DlqFails,
              Commit, Reassign, Rebalance, Assign, Notice, Stop, Crash
<1> QED BY <1>1, <1>2, <1>3

\* Whatever the members do and however often a message is delivered again, one
\* that is not JSON never gets into the dead letter queue: what the comment
\* "Send unparseable message to DLQ" promises not only may fail, it cannot happen.
THEOREM UnparseableNeverInDlq == Spec => [](\A m \in Unparseable : dlq[m] = 0)
<1>1. Init => NoCopies
  BY ConsumerAssumption DEF Init, NoCopies
<1>2. NoCopies => \A m \in Unparseable : dlq[m] = 0
  BY DEF NoCopies
<1> QED BY <1>1, <1>2, ConsumerInit, ConsumerStep, CopyStep, PTL DEF Spec

LEMMA CommitStep ==
    ASSUME ConsumerInv, [Next]_vars
    PROVE  \/ UNCHANGED committed
           \/ \E c \in Consumers : Commit(c)
<1>1. ASSUME NEW c \in Consumers, WorkStep(c) PROVE UNCHANGED committed
  BY <1>1 DEF WorkStep, Deliver, DeliverUnparseable, HandlerSucceeds, HandlerFails, BackoffEnds,
              HandlerGivesUp, DlqAppends, DlqAppendsAgain, DlqAcknowledged, DlqFails, group
<1>2. ASSUME NEW c \in Consumers, GroupStep(c), ~Commit(c) PROVE UNCHANGED committed
  BY <1>2 DEF GroupStep, Reassign, Rebalance, Assign, Notice, Stop, Crash
<1>3. CASE SetDlqEnabled \/ Produce \/ UNCHANGED vars
  BY <1>3 DEF SetDlqEnabled, Produce, vars, group
<1> QED BY <1>1, <1>2, <1>3 DEF Next

\* The committed offset never moves back.
THEOREM CommitsAdvanceAlways == Spec => CommitsAdvance
<1>1. ConsumerInv /\ [Next]_vars => [committed' >= committed]_vars
  <2> SUFFICES ASSUME ConsumerInv, [Next]_vars PROVE committed' >= committed
    OBVIOUS
  <2>1. committed \in Int
    BY ConsumerAssumption DEF ConsumerInv, TypeOK
  <2>2. ASSUME NEW c \in Consumers, Commit(c) PROVE committed' >= committed
    BY <2>2, ConsumerAssumption DEF Commit, ConsumerInv, GroupInv, TypeOK
  <2> QED BY <2>1, <2>2, CommitStep
<1> QED BY <1>1, ConsumerInvariant, PTL DEF Spec, CommitsAdvance
-----------------------------------------------------------------------------
(* Deliveries, outcomes and retries.                                       *)

\* The members that still owe an outcome to a delivery of m, each with the
\* runs of the handler it has behind it and those it has left.
Runs == 1..(maxRetries + 1)
Open(m) == {c \in Consumers : task[c].stage \in {"handling", "backoff", "sending"} /\ task[c].offset = m}
Spent(m) == {p \in Consumers \X Runs : p[1] \in Open(m) /\ p[2] <= task[p[1]].retryCount}
Left(m) == {p \in Consumers \X Runs : p[1] \in Open(m) /\ p[2] > task[p[1]].retryCount}

Budget(m) ==
    /\ completed[m] + sent[m] + Cardinality(Open(m)) <= delivered[m]
    /\ failed[m] + Cardinality(Left(m)) <= (maxRetries + 1) * delivered[m]
    /\ (maxRetries + 1) * sent[m] + Cardinality(Spent(m)) <= failed[m]

BudgetInv ==
    /\ \A m \in Messages : Budget(m)
    /\ \A c \in Consumers : Busy(c, "sending") => task[c].retryCount = maxRetries + 1

LEMMA RunsOfOne ==
    ASSUME NEW c
    PROVE  IsFiniteSet({c} \X Runs) /\ Cardinality({c} \X Runs) = maxRetries + 1
<1> USE ConsumerAssumption
<1>1. IsFiniteSet(Runs) /\ Cardinality(Runs) = maxRetries + 1
  BY FS_Interval DEF Runs
<1>2. IsFiniteSet({c}) /\ Cardinality({c}) = 1
  BY FS_Singleton
<1>3. /\ IsFiniteSet({c} \X Runs)
      /\ Cardinality({c} \X Runs) = Cardinality({c}) * Cardinality(Runs)
  BY <1>1, <1>2, FS_Product
<1> QED BY <1>1, <1>2, <1>3

LEMMA FiniteParts ==
    /\ \A S \in SUBSET Consumers : IsFiniteSet(S) /\ Cardinality(S) \in Nat
    /\ \A P \in SUBSET (Consumers \X Runs) : IsFiniteSet(P) /\ Cardinality(P) \in Nat
<1> USE ConsumerAssumption
<1>1. IsFiniteSet(Runs)
  BY FS_Interval DEF Runs
<1>2. IsFiniteSet(Consumers \X Runs)
  BY <1>1, FS_Product
<1> QED BY <1>2, FS_Subset, FS_CardinalityType

LEMMA Multiples ==
    /\ \A n \in Nat : (maxRetries + 1) * n \in Nat
    /\ \A n \in Nat : (maxRetries + 1) * (n + 1) = (maxRetries + 1) * n + (maxRetries + 1)
    /\ \A n, k \in Nat : n <= k => (maxRetries + 1) * n <= (maxRetries + 1) * k
<1> DEFINE R == maxRetries + 1
<1>1. R \in Nat
  BY ConsumerAssumption
<1> HIDE DEF R
<1>2. \A n \in Nat : R * n \in Nat
  BY <1>1
<1>3. \A n \in Nat : R * (n + 1) = R * n + R
  BY <1>1
<1>4. \A n, k \in Nat : n <= k => R * n <= R * k
  BY <1>1
<1> QED BY <1>2, <1>3, <1>4 DEF R

LEMMA PartsTypes ==
    ASSUME NEW m \in Messages
    PROVE  /\ Open(m) \in SUBSET Consumers
           /\ Spent(m) \in SUBSET (Consumers \X Runs) /\ Left(m) \in SUBSET (Consumers \X Runs)
           /\ Open(m)' \in SUBSET Consumers
           /\ Spent(m)' \in SUBSET (Consumers \X Runs) /\ Left(m)' \in SUBSET (Consumers \X Runs)
BY DEF Open, Spent, Left

\* Whoever goes on with a delivery has as many runs behind it as before.
LEMMA PartsShrink ==
    ASSUME NEW m \in Messages, Open(m)' \subseteq Open(m),
           \A c \in Open(m)' : task'[c].retryCount = task[c].retryCount
    PROVE  Spent(m)' \subseteq Spent(m) /\ Left(m)' \subseteq Left(m)
<1>1. ASSUME NEW p \in Spent(m)' PROVE p \in Spent(m)
  BY <1>1 DEF Spent
<1>2. ASSUME NEW p \in Left(m)' PROVE p \in Left(m)
  BY <1>2 DEF Left
<1> QED BY <1>1, <1>2

LEMMA Smaller ==
    /\ \A S, T \in SUBSET Consumers : S \subseteq T => Cardinality(S) <= Cardinality(T)
    /\ \A P, Q \in SUBSET (Consumers \X Runs) : P \subseteq Q => Cardinality(P) <= Cardinality(Q)
BY FiniteParts, FS_Subset

\* A step that only gives deliveries up, or starts one without a handler.
LEMMA BudgetKept ==
    ASSUME NEW m \in Messages, TypeOK, TypeOK', Budget(m), Open(m)' \subseteq Open(m),
           \A c \in Open(m)' : task'[c].retryCount = task[c].retryCount,
           completed'[m] = completed[m], sent'[m] = sent[m], failed'[m] = failed[m],
           delivered'[m] >= delivered[m]
    PROVE  Budget(m)'
<1>1. Cardinality(Open(m)') <= Cardinality(Open(m)) /\ Cardinality(Spent(m)') <= Cardinality(Spent(m))
      /\ Cardinality(Left(m)') <= Cardinality(Left(m))
  BY PartsTypes, PartsShrink, Smaller
<1>2. /\ Cardinality(Open(m)) \in Nat /\ Cardinality(Spent(m)) \in Nat /\ Cardinality(Left(m)) \in Nat
      /\ Cardinality(Open(m)') \in Nat /\ Cardinality(Spent(m)') \in Nat /\ Cardinality(Left(m)') \in Nat
  BY PartsTypes, FiniteParts
<1>3. /\ completed[m] \in Nat /\ sent[m] \in Nat /\ delivered[m] \in Nat /\ failed[m] \in Nat
      /\ delivered'[m] \in Nat
  BY DEF TypeOK
<1>4. /\ (maxRetries + 1) * delivered[m] \in Nat /\ (maxRetries + 1) * delivered'[m] \in Nat
      /\ (maxRetries + 1) * delivered[m] <= (maxRetries + 1) * delivered'[m]
      /\ (maxRetries + 1) * sent[m] \in Nat
  BY <1>3, Multiples
<1> HIDE DEF Open, Spent, Left
<1>5. completed'[m] + sent'[m] + Cardinality(Open(m)') <= delivered'[m]
  BY <1>1, <1>2, <1>3 DEF Budget
<1>6. failed'[m] + Cardinality(Left(m)') <= (maxRetries + 1) * delivered'[m]
  BY <1>1, <1>2, <1>3, <1>4 DEF Budget
<1>7. (maxRetries + 1) * sent'[m] + Cardinality(Spent(m)') <= failed'[m]
  BY <1>1, <1>2, <1>3, <1>4 DEF Budget
<1> QED BY <1>5, <1>6, <1>7 DEF Budget

\* A new delivery brings the runs of its handler along.
LEMMA BudgetDelivered ==
    ASSUME NEW m \in Messages, NEW c \in Consumers, TypeOK, TypeOK', Budget(m),
           Busy(c, "idle"), Deliver(c, m)
    PROVE  Budget(m)'
<1>1. c \notin Open(m) /\ Open(m)' \subseteq Open(m) \cup {c} /\ task'[c].retryCount = 0
  BY DEF Busy, Open, Deliver, TypeOK
<1>2. \A x \in Consumers \ {c} : task'[x] = task[x]
  BY DEF Deliver, TypeOK
<1>3. Spent(m)' \subseteq Spent(m)
  <2> SUFFICES ASSUME NEW p \in Spent(m)' PROVE p \in Spent(m)
    OBVIOUS
  <2>1. p \in Consumers \X Runs /\ p[1] \in Open(m)' /\ p[2] <= task'[p[1]].retryCount
    BY DEF Spent
  <2>2. p[2] \in Nat /\ p[2] > 0 /\ p[1] \in Consumers
    BY <2>1, ConsumerAssumption DEF Runs
  <2>3. p[1] # c
    BY <1>1, <2>1, <2>2
  <2> QED BY <1>1, <1>2, <2>1, <2>2, <2>3 DEF Spent
<1>4. Left(m)' \subseteq Left(m) \cup ({c} \X Runs)
  <2> SUFFICES ASSUME NEW p \in Left(m)', p \notin {c} \X Runs PROVE p \in Left(m)
    OBVIOUS
  <2>1. p \in Consumers \X Runs /\ p[1] \in Open(m)' /\ p[2] > task'[p[1]].retryCount
    BY DEF Left
  <2>2. p[1] # c
    BY <2>1
  <2> QED BY <1>1, <1>2, <2>1, <2>2 DEF Left
<1>5. /\ Cardinality(Open(m)) \in Nat /\ Cardinality(Spent(m)) \in Nat /\ Cardinality(Left(m)) \in Nat
      /\ Cardinality(Open(m)') \in Nat /\ Cardinality(Spent(m)') \in Nat /\ Cardinality(Left(m)') \in Nat
      /\ IsFiniteSet(Open(m)) /\ IsFiniteSet(Left(m))
  BY PartsTypes, FiniteParts
<1> HIDE DEF Open, Spent, Left
<1>6. Cardinality(Open(m)') <= Cardinality(Open(m)) + 1
  <2>1. Cardinality(Open(m) \cup {c}) = Cardinality(Open(m)) + 1
    BY <1>1, <1>5, FS_AddElement
  <2>2. Open(m) \cup {c} \in SUBSET Consumers
    BY PartsTypes
  <2> QED BY <1>1, <2>1, <2>2, PartsTypes, Smaller
<1>7. Cardinality(Spent(m)') <= Cardinality(Spent(m))
  BY <1>3, PartsTypes, Smaller
<1>8. Cardinality(Left(m)') <= Cardinality(Left(m)) + (maxRetries + 1)
  <2> DEFINE Block == {c} \X Runs
  <2>1. IsFiniteSet(Block) /\ Cardinality(Block) = maxRetries + 1
    BY RunsOfOne
  <2>2. Block \in SUBSET (Consumers \X Runs)
    OBVIOUS
  <2> HIDE DEF Block
  <2>3. Left(m) \cup Block \in SUBSET (Consumers \X Runs) /\ Left(m) \cap Block \in SUBSET (Consumers \X Runs)
    BY <2>2, PartsTypes
  <2>4. Cardinality(Left(m)') <= Cardinality(Left(m) \cup Block)
    BY <1>4, <2>3, PartsTypes, Smaller DEF Block
  <2>5. Cardinality(Left(m) \cup Block)
            = Cardinality(Left(m)) + Cardinality(Block) - Cardinality(Left(m) \cap Block)
    BY <1>5, <2>1, FS_Union
  <2>6. Cardinality(Left(m) \cap Block) \in Nat /\ Cardinality(Left(m) \cup Block) \in Nat
    BY <2>3, FiniteParts
  <2> QED BY <1>5, <2>1, <2>4, <2>5, <2>6, ConsumerAssumption
<1>9. /\ completed'[m] = completed[m] /\ sent'[m] = sent[m] /\ failed'[m] = failed[m]
      /\ delivered'[m] = delivered[m] + 1
      /\ completed[m] \in Nat /\ sent[m] \in Nat /\ delivered[m] \in Nat /\ failed[m] \in Nat
  BY DEF Deliver, Counted, TypeOK
<1>10. /\ (maxRetries + 1) * delivered'[m] = (maxRetries + 1) * delivered[m] + (maxRetries + 1)
       /\ (maxRetries + 1) * delivered[m] \in Nat /\ (maxRetries + 1) * sent[m] \in Nat
  BY <1>9, Multiples
<1>11. completed'[m] + sent'[m] + Cardinality(Open(m)') <= delivered'[m]
  BY <1>5, <1>6, <1>9 DEF Budget
<1>12. failed'[m] + Cardinality(Left(m)') <= (maxRetries + 1) * delivered'[m]
  BY <1>5, <1>8, <1>9, <1>10, ConsumerAssumption DEF Budget
<1>13. (maxRetries + 1) * sent'[m] + Cardinality(Spent(m)') <= failed'[m]
  BY <1>5, <1>7, <1>9, <1>10 DEF Budget
<1> QED BY <1>11, <1>12, <1>13 DEF Budget

\* A handler that returns gives its delivery the one outcome it was owed.
LEMMA BudgetCompleted ==
    ASSUME NEW m \in Messages, NEW c \in Consumers, TypeOK, TypeOK', Budget(m),
           HandlerSucceeds(c), task[c].offset = m
    PROVE  Budget(m)'
<1>1. c \in Open(m) /\ Open(m)' \subseteq Open(m) \ {c}
      /\ \A x \in Open(m)' : task'[x].retryCount = task[x].retryCount
  BY DEF HandlerSucceeds, Busy, Open, Return, NoTask, TypeOK
<1>2. Spent(m)' \subseteq Spent(m) /\ Left(m)' \subseteq Left(m)
  BY <1>1, PartsShrink
<1>3. /\ Cardinality(Open(m)) \in Nat /\ Cardinality(Spent(m)) \in Nat /\ Cardinality(Left(m)) \in Nat
      /\ Cardinality(Open(m)') \in Nat /\ Cardinality(Spent(m)') \in Nat /\ Cardinality(Left(m)') \in Nat
      /\ IsFiniteSet(Open(m))
  BY PartsTypes, FiniteParts
<1> HIDE DEF Open, Spent, Left
<1>4. Cardinality(Open(m)') <= Cardinality(Open(m)) - 1
  <2>1. Cardinality(Open(m) \ {c}) = Cardinality(Open(m)) - 1
    BY <1>1, <1>3, FS_RemoveElement
  <2>2. Open(m) \ {c} \in SUBSET Consumers
    BY PartsTypes
  <2> QED BY <1>1, <2>1, <2>2, PartsTypes, Smaller
<1>5. Cardinality(Spent(m)') <= Cardinality(Spent(m)) /\ Cardinality(Left(m)') <= Cardinality(Left(m))
  BY <1>2, PartsTypes, Smaller
<1>6. /\ completed'[m] = completed[m] + 1 /\ sent'[m] = sent[m] /\ failed'[m] = failed[m]
      /\ delivered'[m] = delivered[m]
      /\ completed[m] \in Nat /\ sent[m] \in Nat /\ delivered[m] \in Nat /\ failed[m] \in Nat
  BY DEF HandlerSucceeds, Counted, TypeOK
<1>7. (maxRetries + 1) * delivered[m] \in Nat /\ (maxRetries + 1) * sent[m] \in Nat
  BY <1>6, Multiples
<1>8. completed'[m] + sent'[m] + Cardinality(Open(m)') <= delivered'[m]
  BY <1>3, <1>4, <1>6 DEF Budget
<1>9. failed'[m] + Cardinality(Left(m)') <= (maxRetries + 1) * delivered'[m]
  BY <1>3, <1>5, <1>6, <1>7 DEF Budget
<1>10. (maxRetries + 1) * sent'[m] + Cardinality(Spent(m)') <= failed'[m]
  BY <1>3, <1>5, <1>6, <1>7 DEF Budget
<1> QED BY <1>8, <1>9, <1>10 DEF Budget

\* A handler that throws moves one of its runs from those left to those spent.
LEMMA BudgetFailed ==
    ASSUME NEW m \in Messages, NEW c \in Consumers, TypeOK, TypeOK', Budget(m),
           Busy(c, "handling"), task[c].offset = m, task[c].retryCount <= maxRetries,
           failed' = Counted(failed, m), UNCHANGED <<completed, sent, delivered>>,
           Open(m)' \subseteq Open(m),
           \A x \in Open(m)' \ {c} : task'[x].retryCount = task[x].retryCount,
           c \in Open(m)' => task'[c].retryCount = task[c].retryCount + 1
    PROVE  Budget(m)'
<1> DEFINE run == <<c, task[c].retryCount + 1>>
<1>1. task[c].retryCount \in Nat /\ c \in Open(m) /\ run \in Consumers \X Runs
  BY ConsumerAssumption DEF Open, Busy, TypeOK, Task, Runs
<1>2. run \in Left(m)
  BY <1>1 DEF Left
<1>3. Left(m)' \subseteq Left(m) \ {run}
  <2> SUFFICES ASSUME NEW p \in Left(m)' PROVE p \in Left(m) /\ p # run
    OBVIOUS
  <2>1. p \in Consumers \X Runs /\ p[1] \in Open(m)' /\ p[2] > task'[p[1]].retryCount
    BY DEF Left
  <2>2. p[2] \in Nat
    BY <2>1, ConsumerAssumption DEF Runs
  <2>3. CASE p[1] = c
    BY <1>1, <2>1, <2>2, <2>3 DEF Left
  <2>4. CASE p[1] # c
    BY <2>1, <2>4 DEF Left
  <2> QED BY <2>3, <2>4
<1>4. Spent(m)' \subseteq Spent(m) \cup {run}
  <2> SUFFICES ASSUME NEW p \in Spent(m)', p # run PROVE p \in Spent(m)
    OBVIOUS
  <2>1. p \in Consumers \X Runs /\ p[1] \in Open(m)' /\ p[2] <= task'[p[1]].retryCount
    BY DEF Spent
  <2>2. p[2] \in Nat
    BY <2>1, ConsumerAssumption DEF Runs
  <2>3. CASE p[1] = c
    <3>1. p = <<c, p[2]>> /\ p[2] <= task[c].retryCount + 1
      BY <2>1, <2>3
    <3>2. p[2] # task[c].retryCount + 1
      BY <3>1
    <3>3. p[2] <= task[c].retryCount
      BY <1>1, <2>2, <3>1, <3>2
    <3> QED BY <2>1, <2>3, <3>3 DEF Spent
  <2>4. CASE p[1] # c
    BY <2>1, <2>4 DEF Spent
  <2> QED BY <2>3, <2>4
<1>5. /\ Cardinality(Open(m)) \in Nat /\ Cardinality(Spent(m)) \in Nat /\ Cardinality(Left(m)) \in Nat
      /\ Cardinality(Open(m)') \in Nat /\ Cardinality(Spent(m)') \in Nat /\ Cardinality(Left(m)') \in Nat
      /\ IsFiniteSet(Left(m)) /\ IsFiniteSet(Spent(m))
  BY PartsTypes, FiniteParts
<1> HIDE DEF Open, Spent, Left, run
<1>6. Cardinality(Open(m)') <= Cardinality(Open(m))
  BY PartsTypes, Smaller
<1>7. Cardinality(Left(m)') <= Cardinality(Left(m)) - 1
  <2>1. Cardinality(Left(m) \ {run}) = Cardinality(Left(m)) - 1
    BY <1>2, <1>5, FS_RemoveElement
  <2>2. Left(m) \ {run} \in SUBSET (Consumers \X Runs)
    BY PartsTypes
  <2> QED BY <1>3, <2>1, <2>2, PartsTypes, Smaller
<1>8. Cardinality(Spent(m)') <= Cardinality(Spent(m)) + 1
  <2> DEFINE S == Spent(m)
  <2>s. IsFiniteSet(S) /\ Cardinality(S) \in Nat
    BY <1>5
  <2> HIDE DEF S
  <2>0. Cardinality(S \cup {run}) = IF run \in S THEN Cardinality(S) ELSE Cardinality(S) + 1
    BY <2>s, FS_AddElement
  <2>1. Cardinality(Spent(m) \cup {run}) <= Cardinality(Spent(m)) + 1
    BY <2>s, <2>0 DEF S
  <2>2. Spent(m) \cup {run} \in SUBSET (Consumers \X Runs)
    BY <1>1, PartsTypes
  <2>3. Cardinality(Spent(m)') <= Cardinality(Spent(m) \cup {run})
    BY <1>4, <2>2, PartsTypes, Smaller
  <2>4. Cardinality(Spent(m) \cup {run}) \in Nat
    BY <2>2, FiniteParts
  <2> QED BY <1>5, <2>1, <2>3, <2>4
<1>9. /\ completed'[m] = completed[m] /\ sent'[m] = sent[m] /\ failed'[m] = failed[m] + 1
      /\ delivered'[m] = delivered[m]
      /\ completed[m] \in Nat /\ sent[m] \in Nat /\ delivered[m] \in Nat /\ failed[m] \in Nat
  BY DEF Counted, TypeOK
<1>10. (maxRetries + 1) * delivered[m] \in Nat /\ (maxRetries + 1) * sent[m] \in Nat
  BY <1>9, Multiples
<1>11. completed'[m] + sent'[m] + Cardinality(Open(m)') <= delivered'[m]
  BY <1>5, <1>6, <1>9 DEF Budget
<1>12. failed'[m] + Cardinality(Left(m)') <= (maxRetries + 1) * delivered'[m]
  BY <1>5, <1>7, <1>9, <1>10 DEF Budget
<1>13. (maxRetries + 1) * sent'[m] + Cardinality(Spent(m)') <= failed'[m]
  BY <1>5, <1>8, <1>9, <1>10 DEF Budget
<1> QED BY <1>11, <1>12, <1>13 DEF Budget

\* A send to the dead letter queue takes all runs of its delivery along.
LEMMA BudgetAppended ==
    ASSUME NEW m \in Messages, NEW c \in Consumers, TypeOK, TypeOK', Budget(m),
           DlqAppends(c), task[c].offset = m, task[c].retryCount = maxRetries + 1
    PROVE  Budget(m)'
<1> DEFINE Block == {c} \X Runs
<1>1. c \in Open(m) /\ Open(m)' \subseteq Open(m) \ {c}
      /\ \A x \in Open(m)' : task'[x].retryCount = task[x].retryCount
  BY DEF DlqAppends, Busy, Open, TypeOK
<1>2. Left(m)' \subseteq Left(m) /\ Spent(m)' \subseteq Spent(m)
  BY <1>1, PartsShrink
<1>3. Block \subseteq Spent(m)
  BY <1>1, ConsumerAssumption DEF Spent, Runs
<1>4. Spent(m)' \cap Block = {}
  BY <1>1 DEF Spent
<1>5. /\ Cardinality(Open(m)) \in Nat /\ Cardinality(Spent(m)) \in Nat /\ Cardinality(Left(m)) \in Nat
      /\ Cardinality(Open(m)') \in Nat /\ Cardinality(Spent(m)') \in Nat /\ Cardinality(Left(m)') \in Nat
      /\ IsFiniteSet(Open(m)) /\ IsFiniteSet(Spent(m)')
  BY PartsTypes, FiniteParts
<1>6. IsFiniteSet(Block) /\ Cardinality(Block) = maxRetries + 1
  BY RunsOfOne
<1> HIDE DEF Open, Spent, Left, Block
<1>7. Cardinality(Open(m)') <= Cardinality(Open(m)) - 1
  <2>1. Cardinality(Open(m) \ {c}) = Cardinality(Open(m)) - 1
    BY <1>1, <1>5, FS_RemoveElement
  <2>2. Open(m) \ {c} \in SUBSET Consumers
    BY PartsTypes
  <2> QED BY <1>1, <2>1, <2>2, PartsTypes, Smaller
<1>8. Cardinality(Left(m)') <= Cardinality(Left(m))
  BY <1>2, PartsTypes, Smaller
<1>9. Cardinality(Spent(m)') + (maxRetries + 1) <= Cardinality(Spent(m))
  <2>1. Spent(m)' \cup Block \subseteq Spent(m)
    BY <1>2, <1>3
  <2>2. Cardinality(Spent(m)' \cup Block)
            = Cardinality(Spent(m)') + Cardinality(Block) - Cardinality(Spent(m)' \cap Block)
    BY <1>5, <1>6, FS_Union
  <2>3. Cardinality(Spent(m)' \cap Block) = 0
    BY <1>4, FS_EmptySet
  <2>4. Cardinality(Spent(m)' \cup Block) <= Cardinality(Spent(m))
    BY <2>1, PartsTypes, Smaller
  <2> QED BY <1>5, <1>6, <2>2, <2>3, <2>4, ConsumerAssumption
<1>10. /\ completed'[m] = completed[m] /\ sent'[m] = sent[m] + 1 /\ failed'[m] = failed[m]
       /\ delivered'[m] = delivered[m]
       /\ completed[m] \in Nat /\ sent[m] \in Nat /\ delivered[m] \in Nat /\ failed[m] \in Nat
  BY DEF DlqAppends, Counted, TypeOK, history
<1>11. /\ (maxRetries + 1) * delivered[m] \in Nat /\ (maxRetries + 1) * sent[m] \in Nat
       /\ (maxRetries + 1) * sent'[m] = (maxRetries + 1) * sent[m] + (maxRetries + 1)
  BY <1>10, Multiples
<1>12. completed'[m] + sent'[m] + Cardinality(Open(m)') <= delivered'[m]
  BY <1>5, <1>7, <1>10 DEF Budget
<1>13. failed'[m] + Cardinality(Left(m)') <= (maxRetries + 1) * delivered'[m]
  BY <1>5, <1>8, <1>10, <1>11 DEF Budget
<1>14. (maxRetries + 1) * sent'[m] + Cardinality(Spent(m)') <= failed'[m]
  BY <1>5, <1>9, <1>10, <1>11, ConsumerAssumption DEF Budget
<1> QED BY <1>12, <1>13, <1>14 DEF Budget

LEMMA BudgetStep == ConsumerInv /\ BudgetInv /\ [Next]_vars => BudgetInv'
<1> SUFFICES ASSUME ConsumerInv, BudgetInv, [Next]_vars PROVE BudgetInv'
  OBVIOUS
<1>t. TypeOK /\ TypeOK'
  BY TypeStep DEF ConsumerInv
<1>m. \A c \in Consumers : /\ Working(c) => task[c].offset \in Messages
                           /\ task[c].stage \in {"handling", "backoff"} => task[c].retryCount <= maxRetries
  BY DEF ConsumerInv, MemberInv
<1>b. \A m \in Messages : Budget(m)
  BY DEF BudgetInv
<1>s. \A c \in Consumers : Busy(c, "sending") => task[c].retryCount = maxRetries + 1
  BY DEF BudgetInv
<1> DEFINE Sending == \A c \in Consumers : Busy(c, "sending") => task[c].retryCount = maxRetries + 1
<1>1. ASSUME NEW c \in Consumers, NEW n \in Messages, Deliver(c, n) PROVE BudgetInv'
  <2>1. ASSUME NEW m \in Messages PROVE Budget(m)'
    <3>1. CASE m = n
      BY <1>1, <1>t, <1>b, <3>1, BudgetDelivered DEF Deliver, Fetched
    <3>2. CASE m # n
      <4>1. Open(m)' \subseteq Open(m) /\ \A x \in Open(m)' : task'[x].retryCount = task[x].retryCount
        BY <1>1, <1>t, <3>2 DEF Deliver, Open, TypeOK
      <4>2. /\ completed'[m] = completed[m] /\ sent'[m] = sent[m] /\ failed'[m] = failed[m]
            /\ delivered'[m] >= delivered[m]
        BY <1>1, <1>t, <3>2 DEF Deliver, Counted, TypeOK
      <4> QED BY <1>t, <1>b, <4>1, <4>2, BudgetKept
    <3> QED BY <3>1, <3>2
  <2>2. Sending'
    BY <1>1, <1>t, <1>s DEF Deliver, Busy, TypeOK
  <2> QED BY <2>1, <2>2 DEF BudgetInv
<1>2. ASSUME NEW c \in Consumers, NEW n \in Messages, DeliverUnparseable(c, n) PROVE BudgetInv'
  <2>1. ASSUME NEW m \in Messages PROVE Budget(m)'
    <3>1. Open(m)' \subseteq Open(m) /\ \A x \in Open(m)' : task'[x].retryCount = task[x].retryCount
      BY <1>2, <1>t DEF DeliverUnparseable, Return, NoTask, Open, TypeOK
    <3>2. /\ completed'[m] = completed[m] /\ sent'[m] = sent[m] /\ failed'[m] = failed[m]
          /\ delivered'[m] >= delivered[m]
      BY <1>2, <1>t DEF DeliverUnparseable, Counted, TypeOK
    <3> QED BY <1>t, <1>b, <3>1, <3>2, BudgetKept
  <2>2. Sending'
    BY <1>2, <1>t, <1>s DEF DeliverUnparseable, Return, NoTask, Busy, TypeOK
  <2> QED BY <2>1, <2>2 DEF BudgetInv
<1>3. ASSUME NEW c \in Consumers, HandlerSucceeds(c) PROVE BudgetInv'
  <2>1. ASSUME NEW m \in Messages PROVE Budget(m)'
    <3>1. CASE m = task[c].offset
      BY <1>3, <1>t, <1>b, <3>1, BudgetCompleted
    <3>2. CASE m # task[c].offset
      <4>1. Open(m)' \subseteq Open(m) /\ \A x \in Open(m)' : task'[x].retryCount = task[x].retryCount
        BY <1>3, <1>t DEF HandlerSucceeds, Return, NoTask, Open, TypeOK
      <4>2. /\ completed'[m] = completed[m] /\ sent'[m] = sent[m] /\ failed'[m] = failed[m]
            /\ delivered'[m] >= delivered[m]
        BY <1>3, <1>t, <3>2 DEF HandlerSucceeds, Counted, TypeOK
      <4> QED BY <1>t, <1>b, <4>1, <4>2, BudgetKept
    <3> QED BY <3>1, <3>2
  <2>2. Sending'
    BY <1>3, <1>t, <1>s DEF HandlerSucceeds, Return, NoTask, Busy, TypeOK
  <2> QED BY <2>1, <2>2 DEF BudgetInv
<1>4. ASSUME NEW c \in Consumers, HandlerFails(c) \/ HandlerGivesUp(c) PROVE BudgetInv'
  <2>1. /\ Busy(c, "handling") /\ task[c].retryCount <= maxRetries
        /\ failed' = Counted(failed, task[c].offset) /\ UNCHANGED <<completed, sent, delivered>>
    BY <1>4, <1>m DEF HandlerFails, HandlerGivesUp, Busy
  <2>2. \A x \in Consumers \ {c} : task'[x] = task[x]
    BY <1>4, <1>t DEF HandlerFails, HandlerGivesUp, Return, TypeOK
  <2>3. \/ /\ task'[c].stage = "backoff" /\ task'[c].offset = task[c].offset
           /\ task'[c].retryCount = task[c].retryCount + 1
        \/ /\ task'[c].stage = "sending" /\ task'[c].offset = task[c].offset
           /\ task'[c].retryCount = task[c].retryCount + 1 /\ task[c].retryCount + 1 > maxRetries
        \/ task'[c] = NoTask
    BY <1>4, <1>t DEF HandlerFails, HandlerGivesUp, Return, TypeOK, Task
  <2>4. ASSUME NEW m \in Messages PROVE Budget(m)'
    <3>1. /\ Open(m)' \subseteq Open(m)
          /\ \A x \in Open(m)' \ {c} : task'[x].retryCount = task[x].retryCount
          /\ c \in Open(m)' => task'[c].retryCount = task[c].retryCount + 1
      BY <2>1, <2>2, <2>3 DEF Open, Busy, NoTask
    <3>2. CASE m = task[c].offset
      BY <1>t, <1>b, <2>1, <3>1, <3>2, BudgetFailed
    <3>3. CASE m # task[c].offset
      <4>1. \A x \in Open(m)' : task'[x].retryCount = task[x].retryCount
        BY <2>1, <2>2, <2>3, <3>3 DEF Open, NoTask
      <4>2. /\ completed'[m] = completed[m] /\ sent'[m] = sent[m] /\ failed'[m] = failed[m]
            /\ delivered'[m] >= delivered[m]
        BY <1>t, <2>1, <3>3 DEF Counted, TypeOK
      <4> QED BY <1>t, <1>b, <3>1, <4>1, <4>2, BudgetKept
    <3> QED BY <3>2, <3>3
  <2>5. Sending'
    <3> SUFFICES ASSUME NEW x \in Consumers, task'[x].stage = "sending"
                 PROVE  task'[x].retryCount = maxRetries + 1
      BY DEF Busy
    <3>1. CASE x # c
      BY <1>s, <2>2, <3>1 DEF Busy
    <3>2. CASE x = c
      <4>1. task[c].retryCount \in Nat
        BY <1>t, ConsumerAssumption DEF TypeOK, Task
      <4> QED BY <2>1, <2>3, <3>2, <4>1, ConsumerAssumption DEF NoTask
    <3> QED BY <3>1, <3>2
  <2> QED BY <2>4, <2>5 DEF BudgetInv
<1>5. ASSUME NEW c \in Consumers, DlqAppends(c) PROVE BudgetInv'
  <2>1. ASSUME NEW m \in Messages PROVE Budget(m)'
    <3>1. CASE m = task[c].offset
      <4>1. task[c].retryCount = maxRetries + 1
        BY <1>5, <1>s DEF DlqAppends
      <4> QED BY <1>5, <1>t, <1>b, <3>1, <4>1, BudgetAppended
    <3>2. CASE m # task[c].offset
      <4>1. Open(m)' \subseteq Open(m) /\ \A x \in Open(m)' : task'[x].retryCount = task[x].retryCount
        BY <1>5, <1>t DEF DlqAppends, Open, TypeOK
      <4>2. /\ completed'[m] = completed[m] /\ sent'[m] = sent[m] /\ failed'[m] = failed[m]
            /\ delivered'[m] >= delivered[m]
        BY <1>5, <1>t, <3>2 DEF DlqAppends, Counted, TypeOK, history
      <4> QED BY <1>t, <1>b, <4>1, <4>2, BudgetKept
    <3> QED BY <3>1, <3>2
  <2>2. Sending'
    BY <1>5, <1>t, <1>s DEF DlqAppends, Busy, TypeOK
  <2> QED BY <2>1, <2>2 DEF BudgetInv
<1>6. ASSUME NEW c \in Consumers, \/ BackoffEnds(c) \/ DlqAppendsAgain(c) \/ DlqAcknowledged(c)
                                  \/ DlqFails(c) \/ GroupStep(c)
      PROVE  BudgetInv'
  <2>1. UNCHANGED <<completed, sent, delivered, failed>>
    BY <1>6 DEF BackoffEnds, DlqAppendsAgain, DlqAcknowledged, DlqFails, GroupStep, Commit,
                Reassign, Rebalance, Assign, Notice, Stop, Crash, history
  <2>2. \A x \in Consumers : \/ task'[x] = task[x] \/ task'[x] = NoTask
                             \/ /\ task[x].stage = "backoff" /\ task'[x].stage = "handling"
                                /\ task'[x].offset = task[x].offset
                                /\ task'[x].retryCount = task[x].retryCount
                             \/ task[x].stage = "sent" /\ task'[x].stage = "sent"
    BY <1>6, <1>t DEF BackoffEnds, DlqAppendsAgain, DlqAcknowledged, DlqFails, Return, Busy, GroupStep, Commit, Reassign,
                      Rebalance, Assign, Notice, Stop, Crash, TypeOK, Task
  <2>3. ASSUME NEW m \in Messages PROVE Budget(m)'
    <3>1. Open(m)' \subseteq Open(m) /\ \A x \in Open(m)' : task'[x].retryCount = task[x].retryCount
      BY <2>2 DEF Open, NoTask
    <3>2. /\ completed'[m] = completed[m] /\ sent'[m] = sent[m] /\ failed'[m] = failed[m]
          /\ delivered'[m] >= delivered[m]
      BY <1>t, <2>1 DEF TypeOK
    <3> QED BY <1>t, <1>b, <3>1, <3>2, BudgetKept
  <2>4. Sending'
    BY <1>s, <2>2 DEF Busy, NoTask
  <2> QED BY <2>3, <2>4 DEF BudgetInv
<1>7. CASE SetDlqEnabled \/ Produce \/ UNCHANGED vars
  <2>1. UNCHANGED <<task, completed, sent, delivered, failed>>
    BY <1>7 DEF SetDlqEnabled, Produce, vars, history
  <2> QED BY <2>1 DEF BudgetInv, Budget, Open, Spent, Left, Busy
<1> QED BY <1>1, <1>2, <1>3, <1>4, <1>5, <1>6, <1>7 DEF Next, WorkStep

LEMMA BudgetInit == Init => BudgetInv
<1> SUFFICES ASSUME Init PROVE BudgetInv
  OBVIOUS
<1>1. ASSUME NEW m \in Messages PROVE Budget(m)
  <2>1. Open(m) = {} /\ Spent(m) = {} /\ Left(m) = {}
    BY DEF Init, Open, Spent, Left, NoTask
  <2>2. Cardinality(Open(m)) = 0 /\ Cardinality(Spent(m)) = 0 /\ Cardinality(Left(m)) = 0
    BY <2>1, FS_EmptySet
  <2>3. delivered[m] = 0 /\ completed[m] = 0 /\ sent[m] = 0 /\ failed[m] = 0
    BY DEF Init
  <2>4. (maxRetries + 1) * 0 = 0
    BY ConsumerAssumption
  <2> QED BY <2>2, <2>3, <2>4 DEF Budget
<1>2. \A c \in Consumers : ~Busy(c, "sending")
  BY DEF Init, Busy, NoTask
<1> QED BY <1>1, <1>2 DEF BudgetInv

\* The copies that the retries of the sends in progress may still append.
Resends == 1..sendRetries
Pending(m) == {p \in Consumers \X Resends :
                  task[p[1]].stage = "sent" /\ task[p[1]].offset = m /\ p[2] <= task[p[1]].resends}

Copies(m) == dlq[m] + Cardinality(Pending(m)) <= (sendRetries + 1) * sent[m]
CopiesInv == \A m \in Messages : Copies(m)

LEMMA PendingTypes ==
    /\ \A m \in Messages : Pending(m) \subseteq Consumers \X Resends
    /\ \A m \in Messages : Pending(m)' \subseteq Consumers \X Resends
    /\ \A P \in SUBSET (Consumers \X Resends) : IsFiniteSet(P) /\ Cardinality(P) \in Nat
    /\ \A P, Q \in SUBSET (Consumers \X Resends) : P \subseteq Q => Cardinality(P) <= Cardinality(Q)
<1>1. IsFiniteSet(Consumers \X Resends)
  <2>1. IsFiniteSet(Resends) /\ IsFiniteSet(Consumers)
    BY FS_Interval, ConsumerAssumption DEF Resends
  <2> QED BY <2>1, FS_Product
<1>2. \A P \in SUBSET (Consumers \X Resends) : IsFiniteSet(P) /\ Cardinality(P) \in Nat
  BY <1>1, FS_Subset, FS_CardinalityType
<1>3. \A P, Q \in SUBSET (Consumers \X Resends) : P \subseteq Q => Cardinality(P) <= Cardinality(Q)
  BY <1>2, FS_Subset
<1> QED BY <1>2, <1>3 DEF Pending

LEMMA SendMultiples ==
    /\ \A n \in Nat : (sendRetries + 1) * n \in Nat
    /\ \A n \in Nat : (sendRetries + 1) * (n + 1) = (sendRetries + 1) * n + (sendRetries + 1)
<1> DEFINE R == sendRetries + 1
<1>1. R \in Nat
  BY ConsumerAssumption
<1> HIDE DEF R
<1> QED BY <1>1 DEF R

\* Nobody has more retries of a send left than before.
LEMMA CopiesKept ==
    ASSUME NEW m \in Messages, TypeOK, Copies(m), dlq'[m] = dlq[m], sent'[m] = sent[m],
           \A x \in Consumers : \/ task'[x] = task[x]
                                \/ task'[x].stage # "sent" \/ task'[x].offset # m
    PROVE  Copies(m)'
<1>1. Pending(m)' \subseteq Pending(m)
  <2> SUFFICES ASSUME NEW p \in Pending(m)' PROVE p \in Pending(m)
    OBVIOUS
  <2>1. p \in Consumers \X Resends /\ p[1] \in Consumers
    BY DEF Pending
  <2>2. task'[p[1]] = task[p[1]]
    BY <2>1 DEF Pending
  <2> QED BY <2>1, <2>2 DEF Pending
<1>2. dlq[m] \in Nat /\ (sendRetries + 1) * sent[m] \in Nat
  BY SendMultiples DEF TypeOK
<1>3. /\ Cardinality(Pending(m)) \in Nat /\ Cardinality(Pending(m)') \in Nat
      /\ Cardinality(Pending(m)') <= Cardinality(Pending(m))
  BY <1>1, PendingTypes
<1> HIDE DEF Pending
<1> QED BY <1>2, <1>3 DEF Copies

\* A send that gets through appends one copy, and has all its retries left.
LEMMA CopiesSent ==
    ASSUME NEW m \in Messages, NEW c \in Consumers, TypeOK, Copies(m), DlqAppends(c),
           task[c].offset = m
    PROVE  Copies(m)'
<1> DEFINE Block == {c} \X Resends
<1>1. Pending(m)' \subseteq Pending(m) \cup Block
  <2> SUFFICES ASSUME NEW p \in Pending(m)', p \notin Block PROVE p \in Pending(m)
    OBVIOUS
  <2>1. p \in Consumers \X Resends /\ p[1] \in Consumers /\ p[1] # c
    BY DEF Pending
  <2>2. task'[p[1]] = task[p[1]]
    BY <2>1 DEF DlqAppends, TypeOK
  <2> QED BY <2>1, <2>2 DEF Pending
<1>2. IsFiniteSet(Block) /\ Cardinality(Block) = sendRetries
  <2>1. IsFiniteSet(Resends) /\ Cardinality(Resends) = sendRetries
    BY FS_Interval, ConsumerAssumption DEF Resends
  <2>2. IsFiniteSet({c}) /\ Cardinality({c}) = 1
    BY FS_Singleton
  <2>3. IsFiniteSet(Block) /\ Cardinality(Block) = Cardinality({c}) * Cardinality(Resends)
    BY <2>1, <2>2, FS_Product
  <2> QED BY <2>1, <2>2, <2>3, ConsumerAssumption
<1>3. Block \in SUBSET (Consumers \X Resends)
  OBVIOUS
<1> HIDE DEF Pending, Block
<1>4. Cardinality(Pending(m)') <= Cardinality(Pending(m)) + sendRetries
  <2>1. Pending(m) \cup Block \in SUBSET (Consumers \X Resends)
        /\ Pending(m) \cap Block \in SUBSET (Consumers \X Resends)
    BY <1>3, PendingTypes
  <2>2. Cardinality(Pending(m)') <= Cardinality(Pending(m) \cup Block)
    BY <1>1, <2>1, PendingTypes
  <2>3. Cardinality(Pending(m) \cup Block)
            = Cardinality(Pending(m)) + Cardinality(Block) - Cardinality(Pending(m) \cap Block)
    BY <1>2, PendingTypes, FS_Union
  <2>4. /\ Cardinality(Pending(m)) \in Nat /\ Cardinality(Pending(m)') \in Nat
        /\ Cardinality(Pending(m) \cap Block) \in Nat /\ Cardinality(Pending(m) \cup Block) \in Nat
    BY <2>1, PendingTypes
  <2> QED BY <1>2, <2>2, <2>3, <2>4, ConsumerAssumption
<1>5. /\ dlq'[m] = dlq[m] + 1 /\ sent'[m] = sent[m] + 1 /\ dlq[m] \in Nat /\ sent[m] \in Nat
  BY DEF DlqAppends, Counted, TypeOK
<1>6. /\ (sendRetries + 1) * sent'[m] = (sendRetries + 1) * sent[m] + (sendRetries + 1)
      /\ (sendRetries + 1) * sent[m] \in Nat
  BY <1>5, SendMultiples
<1>7. Cardinality(Pending(m)) \in Nat /\ Cardinality(Pending(m)') \in Nat
  BY PendingTypes
<1> QED BY <1>4, <1>5, <1>6, <1>7, ConsumerAssumption DEF Copies

\* A retry of a send appends another copy and is gone.
LEMMA CopiesRepeated ==
    ASSUME NEW m \in Messages, NEW c \in Consumers, TypeOK, Copies(m), DlqAppendsAgain(c),
           task[c].offset = m
    PROVE  Copies(m)'
<1> DEFINE slot == <<c, task[c].resends>>
<1>1. /\ task[c].resends \in Resends /\ task[c].resends \in Nat /\ slot \in Consumers \X Resends
      /\ task'[c].stage = "sent" /\ task'[c].resends = task[c].resends - 1
      /\ \A x \in Consumers \ {c} : task'[x] = task[x]
  BY ConsumerAssumption DEF DlqAppendsAgain, Busy, TypeOK, Task, Resends
<1>2. slot \in Pending(m)
  BY <1>1 DEF Pending, DlqAppendsAgain, Busy
<1>3. Pending(m)' \subseteq Pending(m) \ {slot}
  <2> SUFFICES ASSUME NEW p \in Pending(m)' PROVE p \in Pending(m) /\ p # slot
    OBVIOUS
  <2>1. p \in Consumers \X Resends /\ p[1] \in Consumers /\ p[2] \in Nat
        /\ p[2] <= task'[p[1]].resends /\ task'[p[1]].stage = "sent" /\ task'[p[1]].offset = m
    BY ConsumerAssumption DEF Pending, Resends
  <2>2. CASE p[1] = c
    BY <1>1, <2>1, <2>2 DEF Pending, DlqAppendsAgain, Busy
  <2>3. CASE p[1] # c
    BY <1>1, <2>1, <2>3 DEF Pending
  <2> QED BY <2>2, <2>3
<1>4. dlq'[m] = dlq[m] + 1 /\ sent'[m] = sent[m] /\ dlq[m] \in Nat /\ sent[m] \in Nat
  BY DEF DlqAppendsAgain, Counted, TypeOK, history
<1> HIDE DEF Pending, slot
<1>5. Cardinality(Pending(m)') <= Cardinality(Pending(m)) - 1
  <2>1. Cardinality(Pending(m) \ {slot}) = Cardinality(Pending(m)) - 1
    BY <1>2, PendingTypes, FS_RemoveElement
  <2>2. Pending(m) \ {slot} \in SUBSET (Consumers \X Resends)
    BY PendingTypes
  <2> QED BY <1>3, <2>1, <2>2, PendingTypes
<1>6. /\ Cardinality(Pending(m)) \in Nat /\ Cardinality(Pending(m)') \in Nat
      /\ (sendRetries + 1) * sent[m] \in Nat
  BY <1>4, PendingTypes, SendMultiples
<1> QED BY <1>4, <1>5, <1>6 DEF Copies

LEMMA CopiesStep == ConsumerInv /\ CopiesInv /\ [Next]_vars => CopiesInv'
<1> SUFFICES ASSUME ConsumerInv, CopiesInv, [Next]_vars, NEW m \in Messages PROVE Copies(m)'
  BY DEF CopiesInv
<1>t. TypeOK /\ Copies(m)
  BY DEF ConsumerInv, CopiesInv
<1>o. \A c \in Consumers : Working(c) => task[c].offset \in Messages
  BY DEF ConsumerInv, MemberInv
<1> DEFINE Fewer == \A x \in Consumers : \/ task'[x] = task[x]
                                         \/ task'[x].stage # "sent" \/ task'[x].offset # m
<1>1. ASSUME NEW c \in Consumers, DlqAppends(c) \/ DlqAppendsAgain(c) PROVE Copies(m)'
  <2>1. CASE task[c].offset = m
    BY <1>1, <1>t, <2>1, CopiesSent, CopiesRepeated
  <2>2. CASE task[c].offset # m
    <3>1. dlq'[m] = dlq[m] /\ sent'[m] = sent[m]
      BY <1>1, <1>t, <2>2 DEF DlqAppends, DlqAppendsAgain, Counted, TypeOK, history
    <3>2. Fewer
      BY <1>1, <1>t, <2>2 DEF DlqAppends, DlqAppendsAgain, TypeOK, Task
    <3> QED BY <1>t, <3>1, <3>2, CopiesKept
  <2> QED BY <2>1, <2>2
<1>2. ASSUME NEW c \in Consumers, NEW n \in Messages, Deliver(c, n) \/ DeliverUnparseable(c, n)
      PROVE  Copies(m)'
  <2>1. UNCHANGED <<dlq, sent>> /\ Fewer
    BY <1>2, <1>t DEF Deliver, DeliverUnparseable, Return, NoTask, TypeOK
  <2> QED BY <1>t, <2>1, CopiesKept
<1>3. ASSUME NEW c \in Consumers,
             HandlerSucceeds(c) \/ HandlerFails(c) \/ BackoffEnds(c) \/ HandlerGivesUp(c)
      PROVE  Copies(m)'
  <2>1. UNCHANGED <<dlq, sent>>
    BY <1>3 DEF HandlerSucceeds, HandlerFails, BackoffEnds, HandlerGivesUp, history
  <2>2. \A x \in Consumers : task'[x] = task[x] \/ task'[x].stage # "sent"
    BY <1>3, <1>t DEF HandlerSucceeds, HandlerFails, BackoffEnds, HandlerGivesUp, Return, NoTask,
                      TypeOK, Task
  <2> QED BY <1>t, <2>1, <2>2, CopiesKept
<1>4. ASSUME NEW c \in Consumers, DlqAcknowledged(c) \/ DlqFails(c) \/ GroupStep(c)
      PROVE  Copies(m)'
  <2>1. UNCHANGED <<dlq, sent>>
    BY <1>4 DEF DlqAcknowledged, DlqFails, GroupStep, Commit, Reassign, Rebalance, Assign, Notice,
                Stop, Crash, history
  <2>2. \A x \in Consumers : task'[x] = task[x] \/ task'[x].stage # "sent"
    BY <1>4, <1>t DEF DlqAcknowledged, DlqFails, GroupStep, Commit, Reassign, Rebalance, Assign,
                      Notice, Stop, Crash, Return, NoTask, TypeOK
  <2> QED BY <1>t, <2>1, <2>2, CopiesKept
<1>5. CASE SetDlqEnabled \/ Produce \/ UNCHANGED vars
  <2>1. UNCHANGED <<dlq, sent, task>>
    BY <1>5 DEF SetDlqEnabled, Produce, vars, history
  <2> QED BY <1>t, <2>1, CopiesKept
<1> QED BY <1>1, <1>2, <1>3, <1>4, <1>5 DEF Next, WorkStep

LEMMA CopiesInit == Init => CopiesInv
<1> SUFFICES ASSUME Init, NEW m \in Messages PROVE Copies(m)
  BY DEF CopiesInv
<1>1. Pending(m) = {} /\ Cardinality(Pending(m)) = 0
  BY FS_EmptySet DEF Init, Pending, NoTask
<1>2. dlq[m] = 0 /\ sent[m] = 0
  BY DEF Init
<1>3. (sendRetries + 1) * 0 = 0
  BY ConsumerAssumption
<1> QED BY <1>1, <1>2, <1>3 DEF Copies

\* One outcome and one retry budget per delivery, and no more copies of it than
\* retries of the producer allow, for any number of members, messages and faults.
THEOREM OutcomePerDeliveryAlways == Spec => []OutcomePerDelivery
<1>1. ConsumerInv /\ BudgetInv /\ CopiesInv => OutcomePerDelivery
  <2> SUFFICES ASSUME ConsumerInv, BudgetInv, CopiesInv, NEW m \in Messages
               PROVE  /\ completed[m] + sent[m] <= delivered[m]
                      /\ failed[m] <= (maxRetries + 1) * delivered[m]
                      /\ (maxRetries + 1) * sent[m] <= failed[m]
                      /\ dlq[m] <= (sendRetries + 1) * sent[m]
    BY DEF OutcomePerDelivery
  <2>1. /\ completed[m] \in Nat /\ sent[m] \in Nat /\ delivered[m] \in Nat /\ failed[m] \in Nat
        /\ dlq[m] \in Nat
    BY DEF ConsumerInv, TypeOK
  <2>2. /\ (maxRetries + 1) * delivered[m] \in Nat /\ (maxRetries + 1) * sent[m] \in Nat
        /\ (sendRetries + 1) * sent[m] \in Nat
    BY <2>1, Multiples, SendMultiples
  <2>3. /\ Cardinality(Open(m)) \in Nat /\ Cardinality(Spent(m)) \in Nat /\ Cardinality(Left(m)) \in Nat
        /\ Cardinality(Pending(m)) \in Nat
    BY PartsTypes, FiniteParts, PendingTypes
  <2>4. Budget(m) /\ Copies(m)
    BY DEF BudgetInv, CopiesInv
  <2>5. completed[m] + sent[m] <= delivered[m]
    BY <2>1, <2>3, <2>4 DEF Budget
  <2>6. failed[m] <= (maxRetries + 1) * delivered[m]
    BY <2>1, <2>2, <2>3, <2>4 DEF Budget
  <2>7. (maxRetries + 1) * sent[m] <= failed[m]
    BY <2>1, <2>2, <2>3, <2>4 DEF Budget
  <2>8. dlq[m] <= (sendRetries + 1) * sent[m]
    BY <2>1, <2>2, <2>3, <2>4 DEF Copies
  <2> QED BY <2>5, <2>6, <2>7, <2>8
<1> QED BY <1>1, BudgetInit, BudgetStep, CopiesInit, CopiesStep, ConsumerInvariant, PTL DEF Spec
-----------------------------------------------------------------------------
(* The consumer group implements the contract of the topic.                *)

\* f is the frontier: behind base, exactly the messages up to f are accounted for.
IsFrontier(f) ==
    /\ f \in base..Last /\ f <= end
    /\ \A m \in Messages : m > base => (Accounted(m) <=> m <= f)

LEMMA IntervalUnique ==
    ASSUME NEW b \in Nat, NEW f \in Nat, NEW g \in Nat, b <= f, b <= g, (b + 1)..f = (b + 1)..g
    PROVE  f = g
<1>1. CASE f < g
  <2>1. g \in (b + 1)..g /\ g \notin (b + 1)..f
    BY <1>1
  <2> QED BY <2>1
<1>2. CASE g < f
  <2>1. f \in (b + 1)..f /\ f \notin (b + 1)..g
    BY <1>2
  <2> QED BY <2>1
<1> QED BY <1>1, <1>2

LEMMA FrontierSet ==
    ASSUME NEW b \in Nat, NEW S \in SUBSET Messages, NEW f \in b..Last,
           \A m \in Messages : m \in S <=> m > b /\ m <= f
    PROVE  (CHOOSE n \in b..Last : S = (b + 1)..n) = f
<1> DEFINE Is(n) == S = (b + 1)..n
<1>1. f \in Nat /\ b <= f /\ \A n \in b..Last : n \in Nat /\ b <= n
  BY ConsumerAssumption
<1>2. S = (b + 1)..f
  <2>1. Messages \subseteq Nat \ {0} /\ (b + 1)..f \subseteq Messages
    BY <1>1, ConsumerAssumption DEF Messages
  <2>2. \A m \in Messages : (m > b /\ m <= f) <=> m \in (b + 1)..f
    BY <1>1, ConsumerAssumption DEF Messages
  <2> QED BY <2>1, <2>2
<1>3. \A n \in b..Last : Is(n) => n = f
  BY <1>1, <1>2, IntervalUnique
<1>4. Is(f)
  BY <1>2
<1> QED BY <1>3, <1>4

LEMMA FrontierIs ==
    ASSUME NEW f, IsFrontier(f), base \in Nat
    PROVE  Frontier = f
<1> DEFINE S == {m \in Messages : m > base /\ Accounted(m)}
<1>1. f \in base..Last /\ \A m \in Messages : m \in S <=> m > base /\ m <= f
  BY DEF IsFrontier
<1>2. S \in SUBSET Messages
  OBVIOUS
<1> HIDE DEF S
<1>3. (CHOOSE n \in base..Last : S = (base + 1)..n) = f
  BY <1>1, <1>2, FrontierSet
<1> QED BY <1>3 DEF Frontier, S

LEMMA FrontierIsNext ==
    ASSUME NEW f, IsFrontier(f)', base' \in Nat
    PROVE  Frontier' = f
<1> DEFINE S == {m \in Messages : m > base /\ Accounted(m)}
<1>1. f \in base'..Last /\ \A m \in Messages : m \in S' <=> m > base' /\ m <= f
  BY DEF IsFrontier
<1>2. S' \in SUBSET Messages
  OBVIOUS
<1> HIDE DEF S
<1>3. (CHOOSE n \in base'..Last : S' = (base' + 1)..n) = f
  BY <1>1, <1>2, FrontierSet
<1> QED BY <1>3 DEF Frontier, S

\* A step that does not begin anew finishes no message, or the one at the frontier.
LEMMA FrontierStep ==
    ASSUME ConsumerInv, [Next]_vars, NEW f, IsFrontier(f), UNCHANGED base
    PROVE  \/ IsFrontier(f)'
           \/ f < end /\ IsFrontier(f + 1)'
<1> USE ConsumerAssumption
<1>1. /\ f \in base..Last /\ f \in Nat /\ base \in Nat /\ end \in Nat /\ end' \in Nat /\ end <= end'
      /\ f <= end /\ end \in 0..Last
  BY AccountsStep DEF IsFrontier, ConsumerInv, TypeOK
<1>2. \A m \in Messages : m > base /\ m <= f => Accounted(m)'
  BY AccountsStep DEF IsFrontier
<1>3. \A m \in Messages : m > f /\ Accounted(m)' => m = f + 1 /\ m <= end
  <2> SUFFICES ASSUME NEW m \in Messages, m > f, Accounted(m)' PROVE m = f + 1 /\ m <= end
    OBVIOUS
  <2>1. ~Accounted(m)
    BY <1>1 DEF IsFrontier, Messages
  <2>2. PICK c \in Consumers : m = resolved[c] + 1 /\ m <= end
    BY <2>1, NewlyAccounted
  <2>3. resolved[c] \in 0..Last /\ \A k \in (base + 1)..resolved[c] : Accounted(k)
    BY DEF ConsumerInv, TypeOK, MemberInv
  <2>4. resolved[c] <= f
    <3>1. CASE resolved[c] <= base
      BY <1>1, <2>3, <3>1
    <3>2. CASE resolved[c] > base
      <4>1. resolved[c] \in Messages /\ Accounted(resolved[c])
        BY <1>1, <2>3, <3>2 DEF Messages
      <4> QED BY <3>2, <4>1 DEF IsFrontier
    <3> QED BY <1>1, <2>3, <3>1, <3>2
  <2> QED BY <1>1, <2>2, <2>3, <2>4
<1>4. CASE \E m \in Messages : m > f /\ Accounted(m)'
  <2>1. f + 1 \in Messages /\ Accounted(f + 1)' /\ f + 1 <= end
    BY <1>3, <1>4
  <2>2. f < end /\ f + 1 \in base..Last /\ f + 1 <= end'
    BY <1>1, <2>1 DEF Messages
  <2>3. \A m \in Messages : m > base => (Accounted(m)' <=> m <= f + 1)
    BY <1>1, <1>2, <1>3, <2>1 DEF Messages
  <2> QED BY <2>2, <2>3 DEF IsFrontier
<1>5. CASE ~ \E m \in Messages : m > f /\ Accounted(m)'
  <2>1. \A m \in Messages : m > base => (Accounted(m)' <=> m <= f)
    BY <1>1, <1>2, <1>5 DEF Messages
  <2> QED BY <1>1, <2>1 DEF IsFrontier
<1> QED BY <1>4, <1>5

\* A group that begins anew has the end as its frontier: nothing behind it is
\* produced yet.
LEMMA FrontierAnew ==
    ASSUME ConsumerInv, [Next]_vars, NEW c \in Consumers, Assign(c), committed = NoOffset,
           ~fromBeginning
    PROVE  base' = end /\ end' = end /\ IsFrontier(end)'
<1> USE ConsumerAssumption
<1>1. base' = end /\ end' = end /\ end \in 0..Last
  BY DEF Assign, StartPosition, ConsumerInv, TypeOK
<1>2. \A m \in Messages : Accounted(m)' => m <= end
  BY <1>1, ProducedStep DEF ProducedInv
<1>3. \A m \in Messages : m > end => (Accounted(m)' <=> m <= end)
  BY <1>1, <1>2 DEF Messages
<1> QED BY <1>1, <1>3 DEF IsFrontier

LEMMA ContractStep ==
    ASSUME ConsumerInv, [Next]_vars, NEW f, IsFrontier(f)
    PROVE  /\ \E g \in 0..Last : IsFrontier(g)'
           /\ [Contract!Next]_<<end, base, Frontier, committed>>
<1> USE ConsumerAssumption
<1>b. /\ base \in Nat /\ base' \in Nat /\ end \in Nat /\ end' \in Nat /\ base' <= end'
      /\ f \in Nat /\ f <= end
  BY AccountsStep, BaseStep DEF IsFrontier
<1>1. Frontier = f
  BY <1>b, FrontierIs
<1>2. CASE \E c \in Consumers : Assign(c) /\ committed = NoOffset /\ ~fromBeginning
  <2>1. PICK c \in Consumers : Assign(c) /\ committed = NoOffset /\ ~fromBeginning
    BY <1>2
  <2>2. base' = end /\ end' = end /\ IsFrontier(end)' /\ UNCHANGED committed
    BY <2>1, FrontierAnew DEF Assign
  <2>3. Frontier' = end
    BY <1>b, <2>2, FrontierIsNext
  <2>4. end \in 0..Last
    BY DEF ConsumerInv, TypeOK
  <2> QED BY <2>1, <2>2, <2>3, <2>4 DEF Contract!Next, Contract!PassOver, NoOffset
<1>3. CASE ~ \E c \in Consumers : Assign(c) /\ committed = NoOffset /\ ~fromBeginning
  <2>1. UNCHANGED base
    <3>1. ASSUME NEW c \in Consumers, Assign(c) PROVE UNCHANGED base
      BY <1>3, <3>1 DEF Assign, StartPosition, ConsumerInv, NothingSkipped
    <3> QED BY <3>1 DEF Next, vars, SetDlqEnabled, Produce, WorkStep, GroupStep, Deliver,
                        DeliverUnparseable, HandlerSucceeds, HandlerFails, BackoffEnds,
                        HandlerGivesUp, DlqAppends, DlqAppendsAgain, DlqAcknowledged, DlqFails,
                        Commit, Reassign, Rebalance, Notice, Stop, Crash, group
  <2>2. PICK g \in 0..Last : IsFrontier(g)' /\ (g = f \/ (f < end /\ g = f + 1))
    <3>1. CASE IsFrontier(f)'
      <4>1. f \in 0..Last
        BY <1>b DEF IsFrontier
      <4> QED BY <3>1, <4>1
    <3>2. CASE f < end /\ IsFrontier(f + 1)'
      <4>1. f + 1 \in 0..Last
        BY <1>b, <3>2 DEF ConsumerInv, TypeOK
      <4>2. PICK g \in 0..Last : g = f + 1
        BY <4>1
      <4>3. IsFrontier(g)'
        BY <3>2, <4>2
      <4> QED BY <3>2, <4>2, <4>3
    <3> QED BY <2>1, <3>1, <3>2, FrontierStep
  <2>3. Frontier' = g
    BY <1>b, <2>2, FrontierIsNext
  <2>4. ASSUME NEW c \in Consumers, Commit(c)
        PROVE  [Contract!Next]_<<end, base, Frontier, committed>>
    <3>1. UNCHANGED <<end, delivered, completed, dlq, dropped>> /\ committed' = resolved[c]
          /\ owner = c /\ session[c] /\ resolved[c] # committed /\ resolved[c] > base
      BY <2>4 DEF Commit, history
    <3>2. Frontier' = Frontier
      BY <2>1, <3>1 DEF Frontier, Accounted
    <3>3. /\ committed \in Int /\ resolved[c] \in 0..Last /\ committed <= resolved[c]
          /\ \A m \in (base + 1)..resolved[c] : Accounted(m)
      BY <3>1 DEF ConsumerInv, TypeOK, MemberInv, GroupInv
    <3>4. resolved[c] <= f
      <4>1. resolved[c] \in Messages /\ Accounted(resolved[c])
        BY <1>b, <3>1, <3>3 DEF Messages
      <4> QED BY <3>1, <4>1 DEF IsFrontier
    <3>5. committed' \in (base + 1)..f /\ committed' > committed
      BY <1>b, <3>1, <3>3, <3>4
    <3> QED BY <1>1, <2>1, <3>1, <3>2, <3>5 DEF Contract!Next, Contract!Commit
  <2>5. ASSUME Produce
        PROVE  [Contract!Next]_<<end, base, Frontier, committed>>
    <3>1. UNCHANGED <<delivered, completed, dlq, dropped, committed>> /\ end < Last /\ end' = end + 1
      BY <2>5 DEF Produce, history
    <3>2. Frontier' = Frontier
      BY <2>1, <3>1 DEF Frontier, Accounted
    <3> QED BY <2>1, <3>1, <3>2 DEF Contract!Next, Contract!Produce
  <2>6. CASE UNCHANGED <<end, committed>>
    BY <1>1, <2>1, <2>2, <2>3, <2>6 DEF Contract!Next, Contract!Finish
  <2>7. UNCHANGED end \/ Produce
    BY DEF Next, vars, SetDlqEnabled, WorkStep, GroupStep, Deliver, DeliverUnparseable,
           HandlerSucceeds, HandlerFails, BackoffEnds, HandlerGivesUp, DlqAppends, DlqAppendsAgain,
           DlqAcknowledged, DlqFails, Commit, Reassign, Rebalance, Assign, Notice, Stop, Crash, group
  <2> QED BY <2>2, <2>4, <2>5, <2>6, <2>7, CommitStep
<1> QED BY <1>2, <1>3

\* Every behaviour of the group is one of the contract: from where it began to
\* read, messages are finished one after the other, only finished ones are
\* committed, and nothing is passed over but before the first commit of a group
\* that does not read from the beginning.
THEOREM GroupImplementsContract == Spec => Contract!Safety
<1> DEFINE FrontierInv == ConsumerInv /\ \E f \in 0..Last : IsFrontier(f)
<1>1. Init => FrontierInv /\ Contract!Init
  <2> SUFFICES ASSUME Init PROVE FrontierInv /\ Contract!Init
    OBVIOUS
  <2>1. \A m \in Messages : ~Accounted(m)
    BY DEF Init, Accounted
  <2>2. base \in 0..Last /\ base <= end
    BY ConsumerInit DEF ConsumerInv, TypeOK, GroupInv
  <2>3. IsFrontier(base)
    BY <2>1, <2>2, ConsumerAssumption DEF IsFrontier, Messages
  <2>4. Frontier = base
    BY <2>2, <2>3, FrontierIs, ConsumerAssumption
  <2> QED BY <2>2, <2>3, <2>4, ConsumerInit DEF Init, Contract!Init, StartPosition, NoOffset
<1>2. FrontierInv /\ [Next]_vars
          => FrontierInv' /\ [Contract!Next]_<<end, base, Frontier, committed>>
  <2> SUFFICES ASSUME FrontierInv, [Next]_vars
               PROVE  FrontierInv' /\ [Contract!Next]_<<end, base, Frontier, committed>>
    OBVIOUS
  <2>1. PICK f \in 0..Last : IsFrontier(f)
    OBVIOUS
  <2>2. ConsumerInv'
    BY ConsumerStep
  <2> QED BY <2>1, <2>2, ContractStep
<1> HIDE DEF FrontierInv
<1> QED BY <1>1, <1>2, PTL DEF Spec, Contract!Safety, Contract!vars
=============================================================================
