--------------------- MODULE NotificationDeliveryProofs ---------------------
(***************************************************************************)
(* What holds of the delivery pipeline for any number of channels, cron    *)
(* runs and requests, any retry budget and any bound on rounds and faults. *)
(***************************************************************************)
EXTENDS NotificationDelivery, FiniteSetTheorems, TLAPS

-----------------------------------------------------------------------------
(* Types.                                                                  *)

LEMMA BlankTypes ==
    /\ BlankRow \in Row /\ Idle \in Op /\ Done \in Op
    /\ At("send", "sending") \in Op /\ At("failed", "catching") \in Op
BY DEF BlankRow, Row, Status, Idle, Done, At, Op, Kinds, Stages

LEMMA SavedType ==
    ASSUME row \in Row, NEW o \in Op
    PROVE  Saved(o) \in Row
BY DEF Saved, Row, Op

LEMMA LoadedType ==
    ASSUME NEW kind \in Kinds, NEW entity \in Row
    PROVE  Loaded(kind, entity) \in Op
BY DEF Loaded, Op, Stages

LEMMA DiffedType ==
    ASSUME NEW o \in Op
    PROVE  Diffed(o) \in Op
BY DEF Diffed, Op, Stages

LEMMA CopyTypes ==
    ASSUME row \in Row
    PROVE  /\ \A k \in Keys : DeliveredCopy(k) \in Row /\ FailedCopy(k) \in Row
           /\ ReadCopy \in Row /\ CanceledCopy \in Row
           /\ [row EXCEPT !.status = "PENDING"] \in Row
           /\ [row EXCEPT !.status = "SCHEDULED"] \in Row
<1>1. \A k \in Keys, b \in BOOLEAN : Attempted(k, b) \in Row
  BY DEF Attempted, Row, Attempt
<1>2. \A n \in Nat : AfterFailure(n) \in Status
  BY DEF AfterFailure, Status
<1>3. ASSUME NEW k \in Keys
      PROVE  DeliveredCopy(k) \in Row /\ FailedCopy(k) \in Row
  <2>1. DeliveredCopy(k) \in Row
    BY <1>1 DEF DeliveredCopy, Row, Status
  <2>2. row.retryCount + 1 \in Nat
    BY DEF Row
  <2>3. Attempted(k, FALSE) \in Row /\ Attempted(k, FALSE).retryCount + 1 \in Nat
    <3>1. Attempted(k, FALSE) \in Row
      BY <1>1
    <3>2. Attempted(k, FALSE).retryCount = row.retryCount
      BY DEF Attempted, Row
    <3> QED BY <2>2, <3>1, <3>2
  <2>4. FailedCopy(k) \in Row
    BY <1>1, <1>2, <2>2, <2>3 DEF FailedCopy, Row
  <2> QED BY <2>1, <2>4
<1>4. /\ ReadCopy \in Row /\ CanceledCopy \in Row
      /\ [row EXCEPT !.status = "PENDING"] \in Row
      /\ [row EXCEPT !.status = "SCHEDULED"] \in Row
  BY DEF ReadCopy, CanceledCopy, Row, Status
<1> QED BY <1>3, <1>4

LEMMA StartRoundType ==
    ASSUME TypeOK, NEW a, a \in [Handlers -> Op], StartRound(a)
    PROVE  rounds' \in 0..MaxRounds /\ op' \in [Handlers -> Op]
<1>1. rounds' \in 0..MaxRounds
  BY DeliveryAssumption DEF TypeOK, StartRound
<1>2. op' \in [Handlers -> Op]
  BY BlankTypes DEF StartRound
<1> QED BY <1>1, <1>2

LEMMA TypeStep == TypeOK /\ [Next]_vars => TypeOK'
<1> SUFFICES ASSUME TypeOK, [Next]_vars PROVE TypeOK'
  OBVIOUS
<1> USE DeliveryAssumption
<1> Keys \subseteq Handlers /\ Scans \subseteq Handlers /\ Requests \subseteq Handlers
  BY DEF Handlers
<1> row \in Row /\ op \in [Handlers -> Op]
  BY DEF TypeOK
<1>1. CASE CreateImmediate
  <2>1. row' \in Row
    BY <1>1, CopyTypes DEF CreateImmediate
  <2> QED BY <1>1, <2>1, StartRoundType DEF CreateImmediate, TypeOK
<1>2. CASE CreateScheduled
  BY <1>2, CopyTypes DEF CreateScheduled, TypeOK, history
<1>3. CASE BecomeDue
  BY <1>3 DEF BecomeDue, TypeOK, history
<1>4. CASE Crash
  <2>1. op' \in [Handlers -> Op]
    BY <1>4, BlankTypes DEF Crash
  <2> QED BY <1>4, <2>1 DEF Crash, TypeOK, history
<1>5. ASSUME NEW k \in Keys, SendStep(k)
      PROVE  TypeOK'
  <2>1. CASE SendAccepted(k)
    <3>1. Loaded("delivered", DeliveredCopy(k)) \in Op
      BY CopyTypes, LoadedType DEF Kinds
    <3> QED BY <2>1, <3>1 DEF SendAccepted, TypeOK
  <2>2. CASE SendFailed(k)
    <3>1. Loaded("failed", FailedCopy(k)) \in Op
      BY CopyTypes, LoadedType DEF Kinds
    <3> QED BY <2>2, <3>1 DEF SendFailed, TypeOK
  <2>3. CASE CommitFailed(k)
    BY <2>3, BlankTypes, SavedType DEF CommitFailed, TypeOK, history
  <2>4. CASE RetryFires(k)
    BY <2>4, StartRoundType DEF RetryFires, TypeOK
  <2> QED BY <1>5, <2>1, <2>2, <2>3, <2>4 DEF SendStep
<1>6. ASSUME NEW s \in Scans, ScanStep(s)
      PROVE  TypeOK'
  <2>1. CASE ScanFind(s)
    <3>1. Loaded("dispatch", [row EXCEPT !.status = "PENDING"]) \in Op
      BY CopyTypes, LoadedType DEF Kinds
    <3> QED BY <2>1, <3>1 DEF ScanFind, TypeOK, history
  <2>2. CASE ScanCommit(s)
    <3>1. [op EXCEPT ![s] = Idle] \in [Handlers -> Op]
      BY BlankTypes
    <3>2. StartRound([op EXCEPT ![s] = Idle]) /\ row' \in Row
      BY <2>2, SavedType DEF ScanCommit
    <3>3. rounds' \in 0..MaxRounds /\ op' \in [Handlers -> Op]
      BY <3>1, <3>2, StartRoundType
    <3> QED BY <2>2, <3>2, <3>3 DEF ScanCommit, TypeOK
  <2> QED BY <1>6, <2>1, <2>2 DEF ScanStep
<1>7. ASSUME NEW q \in Requests, RequestStep(q)
      PROVE  TypeOK'
  <2>1. Loaded("cancel", CanceledCopy) \in Op /\ Loaded("read", ReadCopy) \in Op
    BY CopyTypes, LoadedType DEF Kinds
  <2> QED BY <1>7, <2>1 DEF RequestStep, CancelLoads, ReadLoads, TypeOK, history
<1>8. ASSUME NEW h \in Handlers, Diff(h) \/ Commit(h) \/ SaveThrows(h)
      PROVE  TypeOK'
  <2>1. CASE Diff(h)
    BY <2>1, DiffedType DEF Diff, TypeOK, history
  <2>2. CASE Commit(h)
    BY <2>2, BlankTypes, SavedType DEF Commit, TypeOK, history
  <2>3. CASE SaveThrows(h)
    BY <2>3, BlankTypes, SavedType DEF SaveThrows, TypeOK, history
  <2> QED BY <1>8, <2>1, <2>2, <2>3
<1>9. CASE UNCHANGED vars
  BY <1>9 DEF vars, history, TypeOK
<1> QED BY <1>1, <1>2, <1>3, <1>4, <1>5, <1>6, <1>7, <1>8, <1>9 DEF Next

LEMMA TypeInit == Init => TypeOK
<1> SUFFICES ASSUME Init PROVE TypeOK
  OBVIOUS
<1>1. row \in Row /\ op \in [Handlers -> Op]
  BY BlankTypes DEF Init
<1>2. rounds \in 0..MaxRounds /\ faults \in 0..MaxFaults
  BY DeliveryAssumption DEF Init
<1> QED BY <1>1, <1>2 DEF Init, TypeOK

\* The variables of the pipeline keep their types.
THEOREM DeliveryTypes == Spec => []TypeOK
<1> QED BY TypeInit, TypeStep, PTL DEF Spec
-----------------------------------------------------------------------------
(* Entities stay honest, however they are copied and merged.               *)

\* A longer history keeps an entity honest.
LEMMA HonestMonotone ==
    ASSUME NEW r \in Row, NEW F, NEW R, NEW F1, NEW R1,
           Honest(r, F, R), F \subseteq F1, R \subseteq R1, IsFiniteSet(F1)
    PROVE  Honest(r, F1, R1)
<1>1. IsFiniteSet(F) /\ Cardinality(F) <= Cardinality(F1)
  BY FS_Subset
<1>2. Cardinality(F) \in Nat /\ Cardinality(F1) \in Nat
  BY <1>1, FS_CardinalityType
<1>3. r.retryCount \in Nat
  BY DEF Row
<1>4. r.retryCount <= Cardinality(F1)
  BY <1>1, <1>2, <1>3 DEF Honest
<1>5. r.status = "FAILED" => Cardinality(F1) >= MaxRetries
  BY <1>1, <1>2, DeliveryAssumption DEF Honest
<1> QED BY <1>4, <1>5 DEF Honest

LEMMA BlankHonest ==
    ASSUME NEW F, NEW R, IsFiniteSet(F)
    PROVE  Honest(BlankRow, F, R)
<1>1. Cardinality(F) \in Nat
  BY FS_CardinalityType
<1> QED BY <1>1 DEF BlankRow, Honest

\* A save mixes the columns of two honest entities: the result is honest.
LEMMA SavedHonest ==
    ASSUME NEW F, NEW R, NEW o \in Op, row \in Row,
           Honest(row, F, R), Honest(o.copy, F, R)
    PROVE  Honest(Saved(o), F, R)
BY DEF Saved, Honest, Op, Row

LEMMA StatusHonest ==
    ASSUME NEW F, NEW R, row \in Row, Honest(row, F, R)
    PROVE  /\ Honest(ReadCopy, F, R) /\ Honest(CanceledCopy, F, R)
           /\ Honest([row EXCEPT !.status = "PENDING"], F, R)
           /\ Honest([row EXCEPT !.status = "SCHEDULED"], F, R)
BY DEF ReadCopy, CanceledCopy, Honest, Row

LEMMA DeliveredHonest ==
    ASSUME NEW F, NEW R, NEW k \in Keys, row \in Row, Honest(row, F, R), k \in R
    PROVE  Honest(DeliveredCopy(k), F, R)
<1>1. DeliveredCopy(k).deliveryAttempts
          = row.deliveryAttempts \cup {[key |-> k, success |-> TRUE]}
  BY DEF DeliveredCopy, Attempted, Row
<1>2. DeliveredCopy(k).retryCount = row.retryCount /\ DeliveredCopy(k).status = "DELIVERED"
  BY DEF DeliveredCopy, Attempted, Row
<1> QED BY <1>1, <1>2 DEF Honest

LEMMA FailedHonest ==
    ASSUME NEW F, NEW R, NEW k \in Keys, row \in Row, Honest(row, F, R),
           IsFiniteSet(F), k \notin F
    PROVE  Honest(FailedCopy(k), F \cup {k}, R)
<1> DEFINE e == FailedCopy(k)  n == Cardinality(F)
<1>1. /\ e.deliveryAttempts = row.deliveryAttempts \cup {[key |-> k, success |-> FALSE]}
      /\ e.retryCount = row.retryCount + 1
      /\ e.status = AfterFailure(row.retryCount + 1)
      /\ e.deliveredAt = row.deliveredAt
  BY DEF FailedCopy, Attempted, Row
<1>2. n \in Nat /\ Cardinality(F \cup {k}) = n + 1
  BY FS_AddElement, FS_CardinalityType
<1>3. row.retryCount \in Nat /\ row.retryCount <= n
  BY DEF Row, Honest
<1>4. e.retryCount <= Cardinality(F \cup {k})
  BY <1>1, <1>2, <1>3
<1>5. e.status = "FAILED" => Cardinality(F \cup {k}) >= MaxRetries
  BY <1>1, <1>2, <1>3, DeliveryAssumption DEF AfterFailure
<1>6. e.status # "DELIVERED"
  BY <1>1 DEF AfterFailure
<1>7. \A a \in e.deliveryAttempts : a.key \in IF a.success THEN R ELSE F \cup {k}
  BY <1>1 DEF Honest
<1>8. e.deliveredAt => R # {}
  BY <1>1 DEF Honest
<1> HIDE DEF e
<1> QED BY <1>4, <1>5, <1>6, <1>7, <1>8 DEF Honest, e
-----------------------------------------------------------------------------
(* The inductive invariant DeliveryInv.                                    *)

LEMMA DeliveryInvInit == Init => DeliveryInv
<1> SUFFICES ASSUME Init PROVE DeliveryInv
  OBVIOUS
<1>1. TypeOK
  <2>1. row \in Row /\ op \in [Handlers -> Op]
    BY BlankTypes DEF Init
  <2>2. rounds \in 0..MaxRounds /\ faults \in 0..MaxFaults
    BY DeliveryAssumption DEF Init
  <2> QED BY <2>1, <2>2 DEF Init, TypeOK
<1>2. IsFiniteSet(failures) /\ IsFiniteSet(retried) /\ Cardinality(retried) = 0
  BY FS_EmptySet DEF Init
<1>3. Honest(row, failures, reached) /\ \A h \in Handlers : Honest(op[h].copy, failures, reached)
  BY <1>2, BlankHonest DEF Init, Idle, At
<1>4. RoundsAreCaused
  BY <1>2 DEF Init, RoundsAreCaused
<1>5. \A k \in Keys : SendInv(k)
  BY DEF Init, SendInv, Idle, At, Handlers
<1> QED BY <1>1, <1>2, <1>3, <1>4, <1>5 DEF DeliveryInv

\* What the start of a round does to the sends.
LEMMA StartRoundSends ==
    ASSUME DeliveryInv, NEW a, a \in [Handlers -> Op], StartRound(a),
           \A k \in Keys : a[k] = op[k],
           failures' = failures, timers' \subseteq timers,
           retried' \cup timers' \subseteq retried \cup timers
    PROVE  \A k \in Keys : SendInv(k)'
<1> SUFFICES ASSUME NEW k \in Keys PROVE SendInv(k)'
  OBVIOUS
<1>1. k \in Handlers /\ rounds \in Nat /\ k[1] \in Nat /\ rounds' = rounds + 1
  BY DEF Handlers, Keys, Rounds, DeliveryInv, TypeOK, StartRound
<1>2. SendInv(k)
  BY DEF DeliveryInv
<1>3. CASE k[1] = rounds + 1
  <2>1. k \in {rounds + 1} \X Channels
    BY <1>3 DEF Keys
  <2>2. op'[k] = At("send", "sending")
    BY <1>1, <2>1 DEF StartRound
  <2>3. k \notin failures
    BY <1>1, <1>2, <1>3 DEF SendInv
  <2> QED BY <1>1, <1>3, <2>2, <2>3 DEF SendInv, At
<1>4. CASE k[1] # rounds + 1
  <2>1. k \notin {rounds + 1} \X Channels
    BY <1>4
  <2>2. op'[k] = op[k]
    BY <1>1, <2>1 DEF StartRound
  <2> QED BY <1>1, <1>2, <1>4, <2>2 DEF SendInv
<1> QED BY <1>3, <1>4

LEMMA StartRoundCopies ==
    ASSUME NEW a, a \in [Handlers -> Op], StartRound(a), NEW F, NEW R, IsFiniteSet(F),
           \A h \in Handlers : Honest(a[h].copy, F, R)
    PROVE  \A h \in Handlers : Honest(op'[h].copy, F, R)
BY BlankHonest DEF StartRound, At

LEMMA DeliveryInvStep == DeliveryInv /\ [Next]_vars => DeliveryInv'
<1> SUFFICES ASSUME DeliveryInv, [Next]_vars PROVE DeliveryInv'
  OBVIOUS
<1> USE DEF DeliveryInv
<1> Keys \subseteq Handlers /\ Scans \subseteq Handlers /\ Requests \subseteq Handlers
  BY DEF Handlers
<1> row \in Row /\ op \in [Handlers -> Op] /\ rounds \in Nat /\ dispatches \in Nat
  BY DEF TypeOK
<1> Cardinality(retried) \in Nat /\ Cardinality(failures) \in Nat
  BY FS_CardinalityType
<1>t. TypeOK'
  BY TypeStep
<1>1. CASE CreateImmediate
  <2>1. Honest(row, failures, reached)'
    BY <1>1, StatusHonest DEF CreateImmediate
  <2>2. \A h \in Handlers : Honest(op'[h].copy, failures, reached)
    BY <1>1, StartRoundCopies DEF CreateImmediate
  <2>3. RoundsAreCaused'
    BY <1>1 DEF CreateImmediate, StartRound, RoundsAreCaused
  <2>4. \A k \in Keys : SendInv(k)'
    BY <1>1, StartRoundSends DEF CreateImmediate
  <2> QED BY <1>1, <1>t, <2>1, <2>2, <2>3, <2>4 DEF CreateImmediate
<1>2. CASE CreateScheduled
  <2>1. Honest(row, failures, reached)'
    BY <1>2, StatusHonest DEF CreateScheduled, history
  <2> QED BY <1>2, <1>t, <2>1 DEF CreateScheduled, history, RoundsAreCaused, SendInv
<1>3. CASE BecomeDue
  BY <1>3, <1>t DEF BecomeDue, history, RoundsAreCaused, SendInv
<1>4. CASE Crash
  <2>1. \A h \in Handlers : op'[h] \in {op[h], Idle, Done}
    BY <1>4 DEF Crash
  <2>2. \A h \in Handlers : Honest(op'[h].copy, failures, reached)
    BY <2>1, BlankHonest DEF Idle, Done, At
  <2>3. \A k \in Keys : SendInv(k)'
    <3> SUFFICES ASSUME NEW k \in Keys PROVE SendInv(k)'
      OBVIOUS
    <3>1. op'[k] = op[k] \/ (InFlight(k) /\ op'[k] = Done)
      BY <1>4, DeliveryAssumption DEF Crash
    <3>2. SendInv(k)
      OBVIOUS
    <3> QED BY <1>4, <3>1, <3>2 DEF Crash, history, SendInv, InFlight, Idle, Done, At
  <2> QED BY <1>4, <1>t, <2>2, <2>3 DEF Crash, history, RoundsAreCaused
<1>5. ASSUME NEW k \in Keys, SendAccepted(k)
      PROVE  DeliveryInv'
  <2>1. Honest(DeliveredCopy(k), failures, reached') /\ Honest(row, failures, reached')
    BY <1>5, HonestMonotone, DeliveredHonest DEF SendAccepted
  <2>2. \A h \in Handlers : Honest(op[h].copy, failures, reached')
    BY <1>5, HonestMonotone DEF SendAccepted, Op
  <2>3. \A h \in Handlers : Honest(op'[h].copy, failures, reached')
    BY <1>5, <2>1, <2>2 DEF SendAccepted, Loaded
  <2>4. \A x \in Keys : SendInv(x)'
    <3> SUFFICES ASSUME NEW x \in Keys PROVE SendInv(x)'
      OBVIOUS
    <3>1. SendInv(x) /\ x \in Handlers
      OBVIOUS
    <3>2. CASE x # k
      <4>1. op'[x] = op[x]
        BY <1>5, <3>1, <3>2 DEF SendAccepted
      <4> QED BY <1>5, <3>1, <3>2, <4>1 DEF SendAccepted, SendInv, history
    <3>3. CASE x = k
      <4>1. op'[x] = Loaded("delivered", DeliveredCopy(k))
        BY <1>5, <3>1, <3>3 DEF SendAccepted
      <4>2. ~(x[1] > rounds)
        BY <1>5, <3>1, <3>3 DEF SendAccepted, SendInv, Idle, At
      <4> QED BY <1>5, <3>1, <3>3, <4>1, <4>2 DEF SendAccepted, SendInv, Loaded
    <3> QED BY <3>2, <3>3
  <2> QED BY <1>5, <1>t, <2>1, <2>3, <2>4 DEF SendAccepted, RoundsAreCaused
<1>6. ASSUME NEW k \in Keys, SendFailed(k)
      PROVE  DeliveryInv'
  <2>1. k \notin failures
    BY <1>6 DEF SendFailed, SendInv
  <2>2. IsFiniteSet(failures') /\ failures \subseteq failures'
    BY <1>6, FS_AddElement DEF SendFailed
  <2>3. Honest(FailedCopy(k), failures', reached) /\ Honest(row, failures', reached)
    BY <1>6, <2>1, <2>2, HonestMonotone, FailedHonest DEF SendFailed
  <2>4. \A h \in Handlers : Honest(op[h].copy, failures', reached)
    BY <2>2, HonestMonotone DEF Op
  <2>5. \A h \in Handlers : Honest(op'[h].copy, failures', reached)
    BY <1>6, <2>3, <2>4 DEF SendFailed, Loaded
  <2>6. \A x \in Keys : SendInv(x)'
    <3> SUFFICES ASSUME NEW x \in Keys PROVE SendInv(x)'
      OBVIOUS
    <3>1. SendInv(x) /\ x \in Handlers
      OBVIOUS
    <3>2. CASE x # k
      <4>1. op'[x] = op[x]
        BY <1>6, <3>1, <3>2 DEF SendFailed
      <4> QED BY <1>6, <3>1, <3>2, <4>1, <2>1 DEF SendFailed, SendInv, history
    <3>3. CASE x = k
      <4>1. op'[x] = Loaded("failed", FailedCopy(k))
        BY <1>6, <3>1, <3>3 DEF SendFailed
      <4>2. ~(x[1] > rounds)
        BY <1>6, <3>1, <3>3 DEF SendFailed, SendInv, Idle, At
      <4> QED BY <1>6, <3>1, <3>3, <4>1, <4>2, <2>1 DEF SendFailed, SendInv, Loaded, RoundsAreCaused
    <3> QED BY <3>2, <3>3
  <2> QED BY <1>6, <1>t, <2>2, <2>3, <2>5, <2>6 DEF SendFailed, RoundsAreCaused
<1>7. ASSUME NEW k \in Keys, CommitFailed(k)
      PROVE  DeliveryInv'
  <2>1. Honest(row', failures, reached)
    BY <1>7, SavedHonest DEF CommitFailed
  <2>2. \A h \in Handlers : Honest(op'[h].copy, failures, reached)
    BY <1>7, BlankHonest DEF CommitFailed, Done, At
  <2>3. k \in failures \ (timers \cup retried) /\ timers' \subseteq timers \cup {k}
    BY <1>7 DEF CommitFailed, SendInv
  <2>4. \A x \in Keys : SendInv(x)'
    BY <1>7, <2>3 DEF CommitFailed, SendInv, Idle, Done, At, history
  <2>5. RoundsAreCaused'
    BY <1>7, <2>3 DEF CommitFailed, RoundsAreCaused, history
  <2> QED BY <1>7, <1>t, <2>1, <2>2, <2>4, <2>5 DEF CommitFailed, history
<1>8. ASSUME NEW k \in Keys, RetryFires(k)
      PROVE  DeliveryInv'
  <2>1. k \notin retried
    BY <1>8 DEF RetryFires, RoundsAreCaused
  <2>2. IsFiniteSet(retried') /\ Cardinality(retried') = Cardinality(retried) + 1
    BY <1>8, <2>1, FS_AddElement DEF RetryFires
  <2>3. RoundsAreCaused'
    BY <1>8, <2>2 DEF RetryFires, StartRound, RoundsAreCaused
  <2>4. \A h \in Handlers : Honest(op'[h].copy, failures, reached)
    BY <1>8, StartRoundCopies DEF RetryFires
  <2>5. \A x \in Keys : SendInv(x)'
    BY <1>8, StartRoundSends DEF RetryFires
  <2> QED BY <1>8, <1>t, <2>2, <2>3, <2>4, <2>5 DEF RetryFires
<1>9. ASSUME NEW s \in Scans, ScanFind(s)
      PROVE  DeliveryInv'
  <2>1. \A h \in Handlers : Honest(op'[h].copy, failures, reached)
    BY <1>9, StatusHonest DEF ScanFind, Loaded
  <2>2. \A k \in Keys : op'[k] = op[k]
    BY <1>9, DeliveryAssumption DEF ScanFind
  <2> QED BY <1>9, <1>t, <2>1, <2>2 DEF ScanFind, history, RoundsAreCaused, SendInv
<1>10. ASSUME NEW s \in Scans, ScanCommit(s)
       PROVE  DeliveryInv'
  <2> DEFINE a == [op EXCEPT ![s] = Idle]
  <2>1. a \in [Handlers -> Op] /\ \A k \in Keys : a[k] = op[k]
    BY BlankTypes, DeliveryAssumption
  <2>2. Honest(row', failures, reached)
    BY <1>10, SavedHonest DEF ScanCommit
  <2>3. \A h \in Handlers : Honest(a[h].copy, failures, reached)
    BY BlankHonest DEF Idle, At
  <2>4. StartRound(a)
    BY <1>10 DEF ScanCommit
  <2> HIDE DEF a
  <2>5. \A h \in Handlers : Honest(op'[h].copy, failures, reached)
    BY <2>1, <2>3, <2>4, StartRoundCopies
  <2>6. RoundsAreCaused'
    BY <1>10, <2>4 DEF ScanCommit, StartRound, RoundsAreCaused
  <2>7. \A k \in Keys : SendInv(k)'
    BY <1>10, <2>1, <2>4, StartRoundSends DEF ScanCommit
  <2> QED BY <1>10, <1>t, <2>2, <2>5, <2>6, <2>7 DEF ScanCommit
<1>11. ASSUME NEW q \in Requests, RequestStep(q)
       PROVE  DeliveryInv'
  <2>1. \A h \in Handlers : Honest(op'[h].copy, failures, reached)
    BY <1>11, StatusHonest DEF RequestStep, CancelLoads, ReadLoads, Loaded
  <2>2. \A k \in Keys : op'[k] = op[k]
    BY <1>11, DeliveryAssumption DEF RequestStep, CancelLoads, ReadLoads
  <2>3. UNCHANGED <<row, rounds, timers, due, faults, history>>
    BY <1>11 DEF RequestStep, CancelLoads, ReadLoads
  <2> QED BY <1>t, <2>1, <2>2, <2>3 DEF history, RoundsAreCaused, SendInv
<1>12. ASSUME NEW h \in Handlers, Diff(h)
       PROVE  DeliveryInv'
  <2>1. \A x \in Handlers : op'[x].copy = op[x].copy
    BY <1>12 DEF Diff, Diffed, Op
  <2>2. \A k \in Keys : SendInv(k)'
    <3> SUFFICES ASSUME NEW x \in Keys PROVE SendInv(x)'
      OBVIOUS
    <3>1. SendInv(x) /\ x \in Handlers
      OBVIOUS
    <3>2. CASE x # h
      <4>1. op'[x] = op[x]
        BY <1>12, <3>1, <3>2 DEF Diff
      <4> QED BY <1>12, <3>1, <3>2, <4>1 DEF Diff, SendInv, history
    <3>3. CASE x = h
      <4>1. op'[x] = Diffed(op[h])
        BY <1>12, <3>1, <3>3 DEF Diff
      <4>2. ~(x[1] > rounds)
        BY <1>12, <3>1, <3>3 DEF Diff, SendInv, Idle, At
      <4> QED BY <1>12, <3>1, <3>3, <4>1, <4>2 DEF Diff, SendInv, Diffed, Op, history
    <3> QED BY <3>2, <3>3
  <2> QED BY <1>12, <1>t, <2>1, <2>2 DEF Diff, history, RoundsAreCaused
<1>13. ASSUME NEW h \in Handlers, Commit(h)
       PROVE  DeliveryInv'
  <2>1. Honest(row', failures, reached)
    BY <1>13, SavedHonest DEF Commit
  <2>2. \A x \in Handlers : Honest(op'[x].copy, failures, reached)
    BY <1>13, BlankHonest DEF Commit, Done, At
  <2>3. \A k \in Keys : SendInv(k)'
    <3> SUFFICES ASSUME NEW x \in Keys PROVE SendInv(x)'
      OBVIOUS
    <3>1. SendInv(x) /\ x \in Handlers
      OBVIOUS
    <3>2. CASE x # h
      <4>1. op'[x] = op[x]
        BY <1>13, <3>1, <3>2 DEF Commit
      <4> QED BY <1>13, <3>1, <3>2, <4>1 DEF Commit, SendInv, history
    <3>3. CASE x = h
      <4>1. op'[x] = Done
        BY <1>13, <3>1, <3>3 DEF Commit
      <4>2. ~(x[1] > rounds)
        BY <1>13, <3>1, <3>3 DEF Commit, SendInv, Idle, At
      <4> QED BY <1>13, <3>1, <3>3, <4>1, <4>2 DEF Commit, SendInv, Done, At, history
    <3> QED BY <3>2, <3>3
  <2> QED BY <1>13, <1>t, <2>1, <2>2, <2>3 DEF Commit, history, RoundsAreCaused
<1>14. ASSUME NEW h \in Handlers, SaveThrows(h)
       PROVE  DeliveryInv'
  <2>1. Honest(row', failures, reached)
    BY <1>14, SavedHonest DEF SaveThrows
  <2>2. \A x \in Handlers : Honest(op'[x].copy, failures, reached)
    BY <1>14, BlankHonest DEF SaveThrows, Idle, Done, At
  <2>3. \A k \in Keys : SendInv(k)'
    <3> SUFFICES ASSUME NEW x \in Keys PROVE SendInv(x)'
      OBVIOUS
    <3>1. SendInv(x) /\ x \in Handlers
      OBVIOUS
    <3>2. CASE x # h
      <4>1. op'[x] = op[x]
        BY <1>14, <3>1, <3>2 DEF SaveThrows
      <4> QED BY <1>14, <3>1, <3>2, <4>1 DEF SaveThrows, SendInv, history
    <3>3. CASE x = h
      <4>1. op'[x] = IF op[h].kind = "delivered" THEN At("failed", "catching") ELSE IF h \in Scans THEN Idle ELSE Done
        BY <1>14, <3>1, <3>3 DEF SaveThrows
      <4>2. ~(x[1] > rounds)
        BY <1>14, <3>1, <3>3 DEF SaveThrows, SendInv, Idle, At
      <4> QED BY <1>14, <3>1, <3>3, <4>1, <4>2 DEF SaveThrows, SendInv, Idle, Done, At, history
    <3> QED BY <3>2, <3>3
  <2> QED BY <1>14, <1>t, <2>1, <2>2, <2>3 DEF SaveThrows, history, RoundsAreCaused
<1>15. CASE UNCHANGED vars
  BY <1>15, <1>t DEF vars, history, RoundsAreCaused, SendInv
<1> QED BY <1>1, <1>2, <1>3, <1>4, <1>5, <1>6, <1>7, <1>8, <1>9, <1>10, <1>11, <1>12,
           <1>13, <1>14, <1>15 DEF Next, SendStep, ScanStep

LEMMA DeliveryInvariant == Spec => []DeliveryInv
BY DeliveryInvInit, DeliveryInvStep, PTL DEF Spec

\* A notification is declared FAILED only after MaxRetries sends failed, under
\* any interleaving of stale saves, crashes and database errors.
THEOREM FailedIsEarnedAlways == Spec => []FailedIsEarned
<1>1. DeliveryInv => FailedIsEarned
  BY DEF DeliveryInv, Honest, FailedIsEarned
<1> QED BY <1>1, DeliveryInvariant, PTL

\* A notification is declared DELIVERED only after a channel accepted it.
THEOREM DeliveredIsRealAlways == Spec => []DeliveredIsReal
<1>1. DeliveryInv => DeliveredIsReal
  BY DEF DeliveryInv, Honest, DeliveredIsReal
<1> QED BY <1>1, DeliveryInvariant, PTL

\* deliveryAttempts never reports an outcome that did not happen.
THEOREM LogIsSoundAlways == Spec => []LogIsSound
<1>1. DeliveryInv => LogIsSound
  BY DEF DeliveryInv, Honest, LogIsSound
<1> QED BY <1>1, DeliveryInvariant, PTL

\* Every round of sending has a cause, and a failed send causes at most one.
THEOREM RoundsAreCausedAlways == Spec => []RoundsAreCaused
<1>1. DeliveryInv => RoundsAreCaused
  BY DEF DeliveryInv
<1> QED BY <1>1, DeliveryInvariant, PTL
-----------------------------------------------------------------------------
(* What each kind of handler is about to write.                            *)

Open == {"ABSENT", "SCHEDULED"}

HandlerInv(h) ==
    /\ h \in Scans => op[h].stage \in {"idle", "loaded", "diffed"}
    /\ h \in Requests => op[h].stage \in {"idle", "loaded", "diffed", "done"}
    /\ op[h].stage \in {"loaded", "diffed"} =>
         \/ h \in Keys /\ op[h].kind = "delivered" /\ op[h].copy.status = "DELIVERED"
         \/ h \in Keys /\ op[h].kind = "failed" /\ op[h].copy.status \in {"FAILED", "PENDING"}
         \/ h \in Scans /\ op[h].kind = "dispatch" /\ op[h].copy.status = "PENDING"
         \/ h \in Requests /\ op[h].kind \in {"cancel", "read"}
                           /\ op[h].copy.status \in {"CANCELED", "READ"}
    /\ op[h].stage = "diffed" /\ "status" \notin op[h].dirty => row.status \notin Open

HandlersInv == TypeOK /\ \A h \in Handlers : HandlerInv(h)

LEMMA CopyStatus ==
    ASSUME row \in Row
    PROVE  /\ \A k \in Keys : DeliveredCopy(k).status = "DELIVERED"
           /\ \A k \in Keys : FailedCopy(k).status \in {"FAILED", "PENDING"}
           /\ CanceledCopy.status = "CANCELED" /\ ReadCopy.status = "READ"
           /\ [row EXCEPT !.status = "PENDING"].status = "PENDING"
BY DEF DeliveredCopy, FailedCopy, Attempted, AfterFailure, CanceledCopy, ReadCopy, Row

LEMMA SavedStatus ==
    ASSUME NEW o
    PROVE  Saved(o).status = IF "status" \in o.dirty THEN o.copy.status ELSE row.status
BY DEF Saved

LEMMA StartRoundHandlers ==
    ASSUME HandlersInv, NEW a, a \in [Handlers -> Op], StartRound(a),
           \A h \in Handlers : a[h] = op[h] \/ a[h] = Idle,
           row.status \notin Open => row'.status \notin Open
    PROVE  \A h \in Handlers : HandlerInv(h)'
<1> SUFFICES ASSUME NEW h \in Handlers PROVE HandlerInv(h)'
  OBVIOUS
<1>1. CASE h \in {rounds + 1} \X Channels
  <2>1. h \in Keys
    BY <1>1, DeliveryAssumption DEF StartRound, Keys, Rounds, HandlersInv, TypeOK
  <2>2. op'[h] = At("send", "sending")
    BY <1>1 DEF StartRound
  <2> QED BY <2>1, <2>2, DeliveryAssumption DEF HandlerInv, At
<1>2. CASE h \notin {rounds + 1} \X Channels
  <2>1. op'[h] = a[h]
    BY <1>2 DEF StartRound
  <2> QED BY <2>1 DEF HandlersInv, HandlerInv, Idle, At
<1> QED BY <1>1, <1>2

LEMMA HandlersStep == HandlersInv /\ [Next]_vars => HandlersInv'
<1> SUFFICES ASSUME HandlersInv, [Next]_vars PROVE HandlersInv'
  OBVIOUS
<1> USE DEF HandlersInv
<1> Keys \subseteq Handlers /\ Scans \subseteq Handlers /\ Requests \subseteq Handlers
  BY DEF Handlers
<1> row \in Row /\ op \in [Handlers -> Op]
  BY DEF TypeOK
<1>t. TypeOK'
  BY TypeStep
\* A handler other than the one that steps, when the row stays closed.
<1>o. ASSUME NEW h \in Handlers, op'[h] = op[h],
             row.status \notin Open => row'.status \notin Open
      PROVE  HandlerInv(h)'
  BY <1>o DEF HandlerInv
<1>b. ASSUME NEW h \in Handlers, op'[h] = Idle \/ (h \notin Scans /\ op'[h] = Done)
                                 \/ (h \in Keys /\ op'[h] = At("failed", "catching"))
      PROVE  HandlerInv(h)'
  BY <1>b, DeliveryAssumption DEF HandlerInv, Idle, Done, At
<1>s. ASSUME NEW h \in Handlers, op[h].stage = "diffed", row' = Saved(op[h])
      PROVE  row.status \notin Open => row'.status \notin Open
  BY <1>s, SavedStatus DEF HandlerInv, Open
<1>1. CASE CreateImmediate
  BY <1>1, <1>t, StartRoundHandlers DEF CreateImmediate, Open
<1>2. CASE CreateScheduled
  BY <1>2, <1>t, <1>o DEF CreateScheduled, Open
<1>3. CASE BecomeDue
  BY <1>3, <1>t, <1>o DEF BecomeDue
<1>4. CASE Crash
  BY <1>4, <1>t, <1>o, <1>b DEF Crash
<1>5. ASSUME NEW k \in Keys, SendAccepted(k) \/ SendFailed(k)
      PROVE  HandlersInv'
  <2>1. HandlerInv(k)'
    BY <1>5, CopyStatus, DeliveryAssumption DEF SendAccepted, SendFailed, Loaded, HandlerInv
  <2>2. ASSUME NEW h \in Handlers, h # k PROVE op'[h] = op[h] /\ row' = row
    BY <1>5, <2>2 DEF SendAccepted, SendFailed
  <2> QED BY <1>t, <1>o, <2>1, <2>2
<1>6. ASSUME NEW k \in Keys, CommitFailed(k)
      PROVE  HandlersInv'
  <2>1. HandlerInv(k)'
    BY <1>6, <1>b, DeliveryAssumption DEF CommitFailed
  <2>2. ASSUME NEW h \in Handlers, h # k PROVE op'[h] = op[h]
    BY <1>6, <2>2 DEF CommitFailed
  <2>3. row.status \notin Open => row'.status \notin Open
    BY <1>6, <1>s DEF CommitFailed
  <2> QED BY <1>t, <1>o, <2>1, <2>2, <2>3
<1>7. ASSUME NEW k \in Keys, RetryFires(k)
      PROVE  HandlersInv'
  BY <1>7, <1>t, StartRoundHandlers DEF RetryFires
<1>8. ASSUME NEW s \in Scans, ScanFind(s)
      PROVE  HandlersInv'
  <2>1. HandlerInv(s)'
    BY <1>8, CopyStatus, DeliveryAssumption DEF ScanFind, Loaded, HandlerInv
  <2>2. ASSUME NEW h \in Handlers, h # s PROVE op'[h] = op[h] /\ row' = row
    BY <1>8, <2>2 DEF ScanFind
  <2> QED BY <1>t, <1>o, <2>1, <2>2
<1>9. ASSUME NEW s \in Scans, ScanCommit(s)
      PROVE  HandlersInv'
  <2> DEFINE a == [op EXCEPT ![s] = Idle]
  <2>1. a \in [Handlers -> Op] /\ \A h \in Handlers : a[h] = op[h] \/ a[h] = Idle
    BY BlankTypes
  <2>2. StartRound(a)
    BY <1>9 DEF ScanCommit
  <2>3. row.status \notin Open => row'.status \notin Open
    BY <1>9, <1>s DEF ScanCommit
  <2> HIDE DEF a
  <2> QED BY <1>t, <2>1, <2>2, <2>3, StartRoundHandlers
<1>10. ASSUME NEW q \in Requests, RequestStep(q)
       PROVE  HandlersInv'
  <2>1. HandlerInv(q)'
    BY <1>10, CopyStatus, DeliveryAssumption
    DEF RequestStep, CancelLoads, ReadLoads, Loaded, HandlerInv
  <2>2. ASSUME NEW h \in Handlers, h # q PROVE op'[h] = op[h] /\ row' = row
    BY <1>10, <2>2 DEF RequestStep, CancelLoads, ReadLoads
  <2> QED BY <1>t, <1>o, <2>1, <2>2
<1>11. ASSUME NEW x \in Handlers, Diff(x)
       PROVE  HandlersInv'
  <2>1. HandlerInv(x)'
    <3>1. op'[x] = Diffed(op[x]) /\ row' = row /\ op[x].stage = "loaded" /\ op[x] \in Op
      BY <1>11 DEF Diff
    <3>2. /\ op'[x].kind = op[x].kind /\ op'[x].copy = op[x].copy /\ op'[x].stage = "diffed"
          /\ op'[x].dirty = {f \in Columns : op[x].copy[f] # row[f]}
      BY <3>1 DEF Diffed, Op
    <3>3. "status" \notin op'[x].dirty => row.status = op[x].copy.status
      BY <3>2 DEF Columns, Row, Op
    <3> QED BY <3>1, <3>2, <3>3 DEF HandlerInv, Open
  <2>2. ASSUME NEW h \in Handlers, h # x PROVE op'[h] = op[h] /\ row' = row
    BY <1>11, <2>2 DEF Diff
  <2> QED BY <1>t, <1>o, <2>1, <2>2
<1>12. ASSUME NEW x \in Handlers, Commit(x)
       PROVE  HandlersInv'
  <2>1. x \notin Scans /\ op'[x] = Done
    BY <1>12, DeliveryAssumption DEF Commit, HandlerInv
  <2>2. ASSUME NEW h \in Handlers, h # x PROVE op'[h] = op[h]
    BY <1>12, <2>2 DEF Commit
  <2>3. row.status \notin Open => row'.status \notin Open
    BY <1>12, <1>s DEF Commit
  <2> QED BY <1>t, <1>o, <1>b, <2>1, <2>2, <2>3
<1>13. ASSUME NEW x \in Handlers, SaveThrows(x)
       PROVE  HandlersInv'
  <2>1. HandlerInv(x)'
    BY <1>13, <1>b, DeliveryAssumption DEF SaveThrows, HandlerInv
  <2>2. ASSUME NEW h \in Handlers, h # x PROVE op'[h] = op[h]
    BY <1>13, <2>2 DEF SaveThrows
  <2>3. row.status \notin Open => row'.status \notin Open
    BY <1>13, <1>s DEF SaveThrows
  <2> QED BY <1>t, <1>o, <2>1, <2>2, <2>3
<1>14. CASE UNCHANGED vars
  BY <1>14, <1>t, <1>o DEF vars
<1> QED BY <1>1, <1>2, <1>3, <1>4, <1>5, <1>6, <1>7, <1>8, <1>9, <1>10, <1>11, <1>12,
           <1>13, <1>14 DEF Next, SendStep, ScanStep

LEMMA HandlersInvariant == Spec => []HandlersInv
<1>1. Init => HandlersInv
  <2> SUFFICES ASSUME Init PROVE HandlersInv
    OBVIOUS
  <2>1. \A h \in Handlers : HandlerInv(h)
    BY DEF Init, HandlerInv, Idle, At
  <2> QED BY <2>1, DeliveryInvInit DEF DeliveryInv, HandlersInv
<1> QED BY <1>1, HandlersStep, PTL DEF Spec
-----------------------------------------------------------------------------
(* Rest.                                                                   *)

LEMMA DormantStep == HandlersInv /\ [Next]_vars => (Dormant => Dormant')
<1> SUFFICES ASSUME HandlersInv, [Next]_vars, Dormant PROVE Dormant'
  OBVIOUS
<1> Keys \subseteq Handlers /\ Scans \subseteq Handlers /\ Requests \subseteq Handlers
  BY DEF Handlers
<1> row \in Row /\ op \in [Handlers -> Op]
  BY DEF HandlersInv, TypeOK
<1>0. /\ row.status \notin Open /\ timers = {}
      /\ \A h \in Keys \cup Scans : op[h].stage \in {"idle", "done"}
  BY DEF Dormant, InFlight, Open
<1>q. ASSUME row'.status \notin Open, timers' = {},
             \A h \in Keys \cup Scans : op'[h].stage \in {"idle", "done"}
      PROVE  Dormant'
  BY <1>q DEF Dormant, InFlight, Open
\* A step of a request: it is the only handler left, and writes no open status.
<1>r. ASSUME NEW x \in Handlers, op[x].stage \notin {"idle", "done"}
      PROVE  /\ x \in Requests /\ x \notin Keys /\ x \notin Scans
             /\ op[x].kind # "delivered"
             /\ op[x].stage = "diffed" /\ row' = Saved(op[x]) => row'.status \notin Open
  <2>1. x \in Requests /\ x \notin Keys /\ x \notin Scans
    BY <1>0, <1>r, DeliveryAssumption DEF Handlers
  <2>2. HandlerInv(x)
    BY DEF HandlersInv
  <2> QED BY <1>0, <1>r, <2>1, <2>2, SavedStatus DEF HandlerInv, Open
<1>1. ASSUME CreateImmediate \/ CreateScheduled \/ BecomeDue PROVE FALSE
  BY <1>0, <1>1 DEF CreateImmediate, CreateScheduled, BecomeDue, Open
<1>2. CASE Crash
  <2>1. \A h \in Keys \cup Scans : op'[h] = op[h]
    BY <1>0, <1>2 DEF Crash, InFlight
  <2> QED BY <1>0, <1>2, <1>q, <2>1 DEF Crash
<1>3. ASSUME NEW k \in Keys, SendStep(k) PROVE FALSE
  BY <1>0, <1>3 DEF SendStep, SendAccepted, SendFailed, CommitFailed, RetryFires
<1>4. ASSUME NEW s \in Scans, ScanStep(s) PROVE FALSE
  BY <1>0, <1>4 DEF ScanStep, ScanFind, ScanCommit, Open
<1>5. ASSUME NEW q \in Requests, RequestStep(q) PROVE Dormant'
  <2>1. \A h \in Keys \cup Scans : op'[h] = op[h]
    BY <1>5, DeliveryAssumption DEF RequestStep, CancelLoads, ReadLoads
  <2>2. row' = row /\ timers' = timers
    BY <1>5 DEF RequestStep, CancelLoads, ReadLoads
  <2> QED BY <1>0, <1>q, <2>1, <2>2
<1>6. ASSUME NEW x \in Handlers, Diff(x) \/ Commit(x) \/ SaveThrows(x) PROVE Dormant'
  <2>1. op[x].stage \notin {"idle", "done"}
    BY <1>6 DEF Diff, Commit, SaveThrows
  <2>2. \A h \in Keys \cup Scans : op'[h] = op[h]
    BY <1>6, <1>r, <2>1 DEF Diff, Commit, SaveThrows
  <2>3. timers' = timers
    BY <1>6 DEF Diff, Commit, SaveThrows
  <2>4. row'.status \notin Open
    BY <1>0, <1>6, <1>r, <2>1 DEF Diff, Commit, SaveThrows
  <2> QED BY <1>0, <1>q, <2>2, <2>3, <2>4
<1>7. CASE UNCHANGED vars
  BY <1>0, <1>q, <1>7 DEF vars
<1> QED BY <1>1, <1>2, <1>3, <1>4, <1>5, <1>6, <1>7 DEF Next

\* A notification at rest is never sent again.
THEOREM DormantForever == Spec => DormantStaysDormant
<1>1. HandlersInv /\ [Next]_vars => [Dormant => Dormant']_vars
  BY DormantStep
<1> QED BY <1>1, HandlersInvariant, PTL DEF Spec, DormantStaysDormant
-----------------------------------------------------------------------------
(* The schedule.                                                           *)

DispatchInv ==
    /\ HandlersInv
    /\ row.status \in Open => dispatches = 0
    /\ \A s \in Scans : InFlight(s) => row.status # "ABSENT" /\ dispatches = 0
    /\ dispatches <= 1

LEMMA DispatchStep ==
    ASSUME \A s, t \in Scans : s = t
    PROVE  DispatchInv /\ [Next]_vars => DispatchInv'
<1> SUFFICES ASSUME DispatchInv, [Next]_vars PROVE DispatchInv'
  OBVIOUS
<1> USE DEF DispatchInv
<1> Keys \subseteq Handlers /\ Scans \subseteq Handlers /\ Requests \subseteq Handlers
  BY DEF Handlers
<1> row \in Row /\ op \in [Handlers -> Op] /\ dispatches \in Nat
  BY DEF HandlersInv, TypeOK
<1>h. HandlersInv'
  BY HandlersStep
\* A commit closes the row or leaves its status alone.
<1>s. ASSUME NEW x \in Handlers, op[x].stage = "diffed", row' = Saved(op[x])
      PROVE  row'.status \notin Open \/ row'.status = row.status
  BY <1>s, SavedStatus DEF HandlersInv, HandlerInv, Open
\* Steps that dispatch nothing and bring no cron run into flight.
<1>q. ASSUME dispatches' = dispatches,
             row'.status \notin Open \/ row'.status = row.status
                 \/ (row.status = "ABSENT" /\ row'.status = "SCHEDULED"),
             \A s \in Scans : op'[s].stage \notin {"idle", "done"} => InFlight(s)
      PROVE  DispatchInv'
  BY <1>q, <1>h DEF InFlight, Open
<1>1. CASE CreateImmediate
  <2>1. dispatches' = 1 /\ row'.status = "PENDING"
    BY <1>1 DEF CreateImmediate, Open, Row
  <2>2. \A s \in Scans : op[s].stage \in {"idle", "done"}
    BY <1>1 DEF CreateImmediate, InFlight
  <2>3. ASSUME NEW s \in Scans PROVE op'[s] = op[s]
    <3>1. s \notin {rounds + 1} \X Channels
      BY <1>1, DeliveryAssumption
      DEF CreateImmediate, StartRound, Keys, Rounds, HandlersInv, TypeOK
    <3> QED BY <1>1, <3>1 DEF CreateImmediate, StartRound
  <2> QED BY <1>h, <2>1, <2>2, <2>3 DEF InFlight, Open
<1>2. CASE CreateScheduled
  BY <1>2, <1>q DEF CreateScheduled, InFlight, history, Row
<1>3. CASE BecomeDue
  BY <1>3, <1>q DEF BecomeDue, InFlight, history
<1>4. CASE Crash
  BY <1>4, <1>q DEF Crash, InFlight, history, Idle, At
<1>5. ASSUME NEW k \in Keys, SendStep(k) PROVE DispatchInv'
  <2>1. dispatches' = dispatches
    BY <1>5 DEF SendStep, SendAccepted, SendFailed, CommitFailed, RetryFires, history
  <2>2. row'.status \notin Open \/ row'.status = row.status
    BY <1>5, <1>s DEF SendStep, SendAccepted, SendFailed, CommitFailed, RetryFires
  <2>3. ASSUME NEW s \in Scans PROVE op'[s] = op[s]
    <3>1. CASE RetryFires(k)
      <4>1. s \notin {rounds + 1} \X Channels
        BY <3>1, DeliveryAssumption
        DEF RetryFires, StartRound, Keys, Rounds, HandlersInv, TypeOK
      <4> QED BY <3>1, <4>1 DEF RetryFires, StartRound
    <3> QED BY <1>5, <3>1, DeliveryAssumption
            DEF SendStep, SendAccepted, SendFailed, CommitFailed
  <2> QED BY <1>q, <2>1, <2>2, <2>3 DEF InFlight
<1>6. ASSUME NEW s \in Scans, ScanFind(s) PROVE DispatchInv'
  BY <1>6, <1>h DEF ScanFind, history, Open, InFlight, Loaded
<1>7. ASSUME NEW s \in Scans, ScanCommit(s) PROVE DispatchInv'
  <2>1. dispatches' = 1 /\ row'.status \notin Open
    <3>1. dispatches = 0 /\ dispatches' = dispatches + 1
      BY <1>7 DEF ScanCommit, InFlight
    <3>2. HandlerInv(s) /\ op[s].stage = "diffed" /\ row' = Saved(op[s])
      BY <1>7 DEF ScanCommit, HandlersInv
    <3>3. op[s].copy.status = "PENDING"
      BY <3>2, DeliveryAssumption DEF HandlerInv
    <3> QED BY <3>1, <3>2, <3>3, SavedStatus DEF HandlerInv, Open
  <2>2. op'[s] = Idle
    <3>1. s \notin {rounds + 1} \X Channels
      BY <1>7, DeliveryAssumption
      DEF ScanCommit, StartRound, Keys, Rounds, HandlersInv, TypeOK
    <3> QED BY <1>7, <3>1 DEF ScanCommit, StartRound
  <2>3. \A t \in Scans : ~(InFlight(t)')
    BY <2>2 DEF InFlight, Idle, At
  <2> QED BY <1>h, <2>1, <2>3
<1>8. ASSUME NEW q \in Requests, RequestStep(q) PROVE DispatchInv'
  <2>1. \A s \in Scans : op'[s] = op[s]
    BY <1>8, DeliveryAssumption DEF RequestStep, CancelLoads, ReadLoads
  <2> QED BY <1>8, <1>q, <2>1 DEF RequestStep, CancelLoads, ReadLoads, history, InFlight
<1>9. ASSUME NEW x \in Handlers, Diff(x) PROVE DispatchInv'
  BY <1>9, <1>q DEF Diff, Diffed, history, InFlight
<1>10. ASSUME NEW x \in Handlers, Commit(x) PROVE DispatchInv'
  <2>1. row'.status \notin Open \/ row'.status = row.status
    BY <1>10, <1>s DEF Commit
  <2>2. \A s \in Scans : op'[s] = op[s] \/ op'[s] = Done
    BY <1>10 DEF Commit
  <2> QED BY <1>10, <1>q, <2>1, <2>2 DEF Commit, history, InFlight, Done, At
<1>11. ASSUME NEW x \in Handlers, SaveThrows(x) PROVE DispatchInv'
  <2>1. row'.status \notin Open \/ row'.status = row.status
    BY <1>11, <1>s DEF SaveThrows
  <2>2. \A s \in Scans : op'[s].stage \notin {"idle", "done"} => InFlight(s)
    BY <1>11 DEF SaveThrows, InFlight, Idle, Done, At
  <2> QED BY <1>11, <1>q, <2>1, <2>2 DEF SaveThrows, history
<1>12. CASE UNCHANGED vars
  BY <1>12, <1>q DEF vars, history, InFlight
<1> QED BY <1>1, <1>2, <1>3, <1>4, <1>5, <1>6, <1>7, <1>8, <1>9, <1>10, <1>11, <1>12
        DEF Next, ScanStep

\* One cron run at a time dispatches a scheduled notification at most once.
THEOREM DispatchedOnceAlways ==
    ASSUME IsFiniteSet(Scans)
    PROVE  Spec => []DispatchedOnce
<1>1. CASE Cardinality(Scans) <= 1
  <2>1. \A s, t \in Scans : s = t
    <3> SUFFICES ASSUME NEW s \in Scans, NEW t \in Scans, s # t PROVE FALSE
      OBVIOUS
    <3>1. Cardinality({s, t}) = 2
      <4>1. IsFiniteSet({s}) /\ Cardinality({s}) = 1
        BY FS_Singleton
      <4>2. t \notin {s} /\ {s} \cup {t} = {s, t}
        OBVIOUS
      <4>3. Cardinality({s} \cup {t}) = Cardinality({s}) + 1
        BY <4>1, <4>2, FS_AddElement
      <4> QED BY <4>1, <4>2, <4>3
    <3>2. Cardinality({s, t}) <= Cardinality(Scans)
      BY FS_Subset
    <3> QED BY <1>1, <3>1, <3>2, FS_CardinalityType
  <2>2. Init => DispatchInv
    <3> SUFFICES ASSUME Init PROVE DispatchInv
      OBVIOUS
    <3>1. HandlersInv
      <4>1. \A h \in Handlers : HandlerInv(h)
        BY DEF Init, HandlerInv, Idle, At
      <4> QED BY <4>1, DeliveryInvInit DEF DeliveryInv, HandlersInv
    <3> QED BY <3>1 DEF Init, DispatchInv, InFlight, Idle, At, Handlers
  <2>3. DispatchInv /\ [Next]_vars => DispatchInv'
    BY <2>1, DispatchStep
  <2>4. DispatchInv => DispatchedOnce
    BY DEF DispatchInv, DispatchedOnce
  <2> QED BY <2>2, <2>3, <2>4, PTL DEF Spec
<1>2. CASE ~(Cardinality(Scans) <= 1)
  <2>1. DispatchedOnce
    BY <1>2 DEF DispatchedOnce
  <2> QED BY <2>1, PTL
<1> QED BY <1>1, <1>2
-----------------------------------------------------------------------------
(* No PENDING row is stranded while nothing fails.                         *)

AliveInv == HandlersInv /\ PendingIsAlive

\* A round that starts leaves the row alive.
LEMMA StartRoundAlive ==
    ASSUME HandlersInv, Channels # {}, NEW a, StartRound(a)
    PROVE  \E k \in Keys : WillAct(op'[k])
<1> PICK c \in Channels : TRUE
  OBVIOUS
<1>1. <<rounds + 1, c>> \in Keys
  BY DeliveryAssumption DEF StartRound, Keys, Rounds, HandlersInv, TypeOK
<1>2. op'[<<rounds + 1, c>>] = At("send", "sending")
  BY <1>1 DEF StartRound, Handlers
<1> QED BY <1>1, <1>2 DEF WillAct, At

\* A commit of a save that did not change the status and arms no timer leaves
\* the other handlers that keep the row alive where they were.
LEMMA CommitAlive ==
    ASSUME AliveInv, NEW x \in Handlers, op[x].stage = "diffed",
           op[x].copy.status # "PENDING", row' = Saved(op[x]), timers' = timers,
           \A h \in Handlers : h # x => op'[h] = op[h]
    PROVE  PendingIsAlive'
<1> SUFFICES ASSUME row'.status = "PENDING", timers = {}
             PROVE  \E k \in Keys : WillAct(op'[k])
  BY DEF PendingIsAlive
<1>1. "status" \notin op[x].dirty /\ row.status = "PENDING"
  BY SavedStatus
<1>2. PICK k \in Keys : WillAct(op[k])
  BY <1>1 DEF AliveInv, PendingIsAlive
<1>3. k # x
  BY <1>1, <1>2 DEF WillAct
<1> QED BY <1>2, <1>3 DEF Handlers

LEMMA AliveStep ==
    ASSUME MaxFaults = 0, Channels # {}
    PROVE  AliveInv /\ [Next]_vars => AliveInv'
<1> SUFFICES ASSUME AliveInv, [Next]_vars PROVE PendingIsAlive'
  BY HandlersStep DEF AliveInv
<1> USE DEF AliveInv
<1> Keys \subseteq Handlers /\ Scans \subseteq Handlers /\ Requests \subseteq Handlers
  BY DEF Handlers
<1> row \in Row /\ op \in [Handlers -> Op]
  BY DEF HandlersInv, TypeOK
\* Steps that leave row and timers alone and keep every acting send acting.
<1>q. ASSUME row' = row, timers' = timers, \A k \in Keys : WillAct(op[k]) => WillAct(op'[k])
      PROVE  PendingIsAlive'
  BY <1>q DEF PendingIsAlive
<1>r. ASSUME NEW a, StartRound(a) PROVE PendingIsAlive'
  BY <1>r, StartRoundAlive DEF PendingIsAlive
<1>1. CASE CreateImmediate
  BY <1>1, <1>r DEF CreateImmediate
<1>2. CASE CreateScheduled
  BY <1>2 DEF CreateScheduled, PendingIsAlive, Row
<1>3. CASE BecomeDue
  BY <1>3, <1>q DEF BecomeDue
<1>4. ASSUME Crash \/ \E h \in Handlers : SaveThrows(h) PROVE FALSE
  BY <1>4 DEF Crash, SaveThrows, HandlersInv, TypeOK
<1>5. ASSUME NEW k \in Keys, SendAccepted(k) \/ SendFailed(k) PROVE PendingIsAlive'
  <2>1. \A h \in Handlers : op'[h] = op[h] \/ op'[h].stage = "loaded"
    BY <1>5 DEF SendAccepted, SendFailed, Loaded
  <2> QED BY <1>5, <1>q, <2>1 DEF SendAccepted, SendFailed, WillAct
<1>6. ASSUME NEW k \in Keys, CommitFailed(k) PROVE PendingIsAlive'
  <2>1. CASE op[k].copy.status = "PENDING"
    BY <1>6, <2>1 DEF CommitFailed, PendingIsAlive
  <2>2. CASE op[k].copy.status # "PENDING"
    BY <1>6, <2>2, CommitAlive DEF CommitFailed
  <2> QED BY <2>1, <2>2
<1>7. ASSUME NEW k \in Keys, RetryFires(k) PROVE PendingIsAlive'
  BY <1>7, <1>r DEF RetryFires
<1>8. ASSUME NEW s \in Scans, ScanStep(s) PROVE PendingIsAlive'
  <2>1. CASE ScanFind(s)
    <3>1. \A k \in Keys : op'[k] = op[k]
      BY <2>1, DeliveryAssumption DEF ScanFind
    <3> QED BY <2>1, <3>1, <1>q DEF ScanFind
  <2>2. CASE ScanCommit(s)
    BY <2>2, <1>r DEF ScanCommit
  <2> QED BY <1>8, <2>1, <2>2 DEF ScanStep
<1>9. ASSUME NEW q \in Requests, RequestStep(q) PROVE PendingIsAlive'
  <2>1. \A k \in Keys : op'[k] = op[k]
    BY <1>9, DeliveryAssumption DEF RequestStep, CancelLoads, ReadLoads
  <2> QED BY <1>9, <2>1, <1>q DEF RequestStep, CancelLoads, ReadLoads
<1>10. ASSUME NEW x \in Handlers, Diff(x) PROVE PendingIsAlive'
  <2>1. CASE row.status # "PENDING"
    BY <1>10, <2>1 DEF Diff, PendingIsAlive
  <2>2. CASE row.status = "PENDING"
    <3>1. \A h \in Handlers : h # x => op'[h] = op[h]
      BY <1>10 DEF Diff
    <3>2. /\ op'[x].stage = "diffed" /\ op'[x].copy = op[x].copy
          /\ op'[x].dirty = {f \in Columns : op[x].copy[f] # row[f]}
      BY <1>10 DEF Diff, Diffed, Op
    <3>3. "status" \in op'[x].dirty \/ op'[x].copy.status = "PENDING"
      BY <2>2, <3>2 DEF Columns, Row, Op
    <3>4. WillAct(op'[x])
      BY <3>2, <3>3 DEF WillAct
    <3> QED BY <1>10, <1>q, <3>1, <3>4 DEF Diff
  <2> QED BY <2>1, <2>2
<1>11. ASSUME NEW x \in Handlers, Commit(x) PROVE PendingIsAlive'
  <2>1. HandlerInv(x) /\ op[x].stage = "diffed"
    BY <1>11 DEF HandlersInv, Commit
  <2>2. op[x].copy.status # "PENDING"
    BY <1>11, <2>1 DEF HandlerInv, Commit
  <2> QED BY <1>11, <2>2, CommitAlive DEF Commit
<1>12. CASE UNCHANGED vars
  BY <1>12, <1>q DEF vars
<1> QED BY <1>1, <1>2, <1>3, <1>4, <1>5, <1>6, <1>7, <1>8, <1>9, <1>10, <1>11, <1>12
        DEF Next, SendStep

\* Without crashes and database errors, a PENDING notification always has a
\* send that will settle it or a retry that is armed, however many channels
\* overlap and whatever the users request.
THEOREM PendingIsAliveAlways ==
    ASSUME MaxFaults = 0, Channels # {}
    PROVE  Spec => []PendingIsAlive
<1>1. Init => AliveInv
  <2> SUFFICES ASSUME Init PROVE AliveInv
    OBVIOUS
  <2>1. \A h \in Handlers : HandlerInv(h)
    BY DEF Init, HandlerInv, Idle, At
  <2>2. PendingIsAlive
    BY DEF Init, BlankRow, PendingIsAlive
  <2> QED BY <2>1, <2>2, DeliveryInvInit DEF DeliveryInv, HandlersInv, AliveInv
<1>2. AliveInv => PendingIsAlive
  BY DEF AliveInv
<1> QED BY <1>1, <1>2, AliveStep, PTL DEF Spec
-----------------------------------------------------------------------------
(* The sequential pipeline implements its contract.                        *)

Quiet == \A h \in Handlers : ~InFlight(h)

\* Handler h holds an entity made from the row as it is now.
Current(h) ==
    /\ op[h].stage \in {"sending", "loaded", "diffed"}
    /\ \/ h \in Keys /\ row.status = "PENDING" /\ op[h].stage = "sending"
       \/ h \in Keys /\ row.status = "PENDING" /\ op[h].stage # "sending"
            /\ op[h].kind = "delivered" /\ op[h].copy = DeliveredCopy(h)
       \/ h \in Keys /\ row.status = "PENDING" /\ op[h].stage # "sending"
            /\ op[h].kind = "failed" /\ op[h].copy = FailedCopy(h)
       \/ h \in Scans /\ row.status = "SCHEDULED" /\ op[h].stage # "sending"
            /\ op[h].kind = "dispatch" /\ op[h].copy = [row EXCEPT !.status = "PENDING"]
    /\ op[h].stage = "diffed" => op[h].dirty = {f \in Columns : op[h].copy[f] # row[f]}

Sole(h) == Current(h) /\ timers = {} /\ \A x \in Handlers : x # h => ~InFlight(x)

SequentialInv ==
    /\ TypeOK
    /\ row.status = "ABSENT" => row.retryCount = 0
    /\ row.status \notin {"READ", "CANCELED"}
    /\ LogIsComplete
    /\ \/ Quiet /\ timers = {}
       \/ Quiet /\ row.status = "PENDING" /\ \E k \in Keys : timers = {k}
       \/ \E h \in Handlers : Sole(h)

LEMMA SavedCurrent ==
    ASSUME row \in Row, NEW o \in Op, o.dirty = {f \in Columns : o.copy[f] # row[f]}
    PROVE  Saved(o) = o.copy
<1>1. o.copy \in Row
  BY DEF Op
<1>2. /\ Saved(o).status = o.copy.status
      /\ Saved(o).deliveryAttempts = o.copy.deliveryAttempts
      /\ Saved(o).retryCount = o.copy.retryCount
      /\ Saved(o).deliveredAt = o.copy.deliveredAt
      /\ Saved(o).readAt = o.copy.readAt
  BY <1>1 DEF Saved, Row, Columns
<1> QED BY <1>1, <1>2, SavedType DEF Row

LEMMA CopyAttempts ==
    ASSUME row \in Row, NEW k \in Keys
    PROVE  /\ DeliveredCopy(k).deliveryAttempts
                  = row.deliveryAttempts \cup {[key |-> k, success |-> TRUE]}
           /\ FailedCopy(k).deliveryAttempts
                  = row.deliveryAttempts \cup {[key |-> k, success |-> FALSE]}
           /\ DeliveredCopy(k).retryCount = row.retryCount
           /\ DeliveredCopy(k).status = "DELIVERED"
           /\ FailedCopy(k).retryCount = row.retryCount + 1
           /\ FailedCopy(k).status = AfterFailure(row.retryCount + 1)
BY DEF DeliveredCopy, FailedCopy, Attempted, Row

\* A round that starts while nothing else is active has one send, the only one.
LEMMA StartRoundSole ==
    ASSUME NEW c, Channels = {c}, TypeOK, NEW STATE a, StartRound(a), row'.status = "PENDING",
           \A h \in Handlers : a[h].stage \in {"idle", "done"}, timers' = {}
    PROVE  /\ \E h \in Handlers : Sole(h)'
           /\ \A h \in Handlers : op'[h].stage = "done" => a[h].stage = "done"
<1>0. rounds + 1 \in Rounds /\ c \in Channels
  BY DeliveryAssumption DEF StartRound, Rounds, TypeOK
<1>1. PICK k \in Keys : k = <<rounds + 1, c>>
  BY <1>0 DEF Keys
<1>2. k \in Handlers /\ {rounds + 1} \X Channels = {k}
  BY <1>1 DEF Handlers
<1>3. op'[k] = At("send", "sending") /\ \A h \in Handlers : h # k => op'[h] = a[h]
  BY <1>2 DEF StartRound
<1>4. op'[k].stage = "sending"
  BY <1>3 DEF At
<1>5. Current(k)'
  BY <1>1, <1>4 DEF Current
<1>6. \A x \in Handlers : x # k => ~InFlight(x)'
  BY <1>3 DEF InFlight
<1>7. Sole(k)'
  BY <1>5, <1>6 DEF Sole
<1> QED BY <1>2, <1>3, <1>4, <1>7

\* The abstract view of a step, by what it does to status and retryCount.
LEMMA ContractStep ==
    ASSUME row \in Row, row' \in Row, MaxRetries \in Nat \ {0},
           \/ /\ row'.status = row.status /\ row'.retryCount = row.retryCount
           \/ /\ row.status = "SCHEDULED" /\ row'.status = "PENDING"
              /\ row'.retryCount = row.retryCount
           \/ /\ row.status = "ABSENT" /\ row'.status \in {"PENDING", "SCHEDULED"}
              /\ row'.retryCount = row.retryCount
           \/ /\ row.status = "PENDING" /\ row'.status = "DELIVERED"
              /\ row'.retryCount = row.retryCount
           \/ /\ row.status = "PENDING" /\ row'.status = AfterFailure(row.retryCount + 1)
              /\ row'.retryCount = row.retryCount + 1
    PROVE  [Contract!Next]_<<Outcome, row.retryCount>>
BY DEF Contract!Next, Contract!Accept, Contract!Deliver, Contract!FailTry, Outcome,
       AfterFailure, Row

\* A step of the only handler that leaves it active, or finished with its
\* attempt in the row.
LEMMA SoleMoves ==
    ASSUME NEW h \in Handlers, Sole(h), TypeOK, timers' = {}, Current(h)',
           \A x \in Handlers : x # h => op'[x] = op[x]
    PROVE  Sole(h)'
BY DEF Sole, InFlight

LEMMA SequentialStutter ==
    ASSUME SequentialInv, UNCHANGED <<row, op, timers>>, TypeOK'
    PROVE  SequentialInv'
<1>1. LogIsComplete' /\ (Quiet => Quiet')
  BY DEF SequentialInv, LogIsComplete, Quiet, InFlight
<1>2. ASSUME NEW h \in Handlers, Sole(h) PROVE Sole(h)'
  <2>1. /\ row' = row /\ op'[h] = op[h]
        /\ DeliveredCopy(h)' = DeliveredCopy(h) /\ FailedCopy(h)' = FailedCopy(h)
    BY DEF DeliveredCopy, FailedCopy, Attempted
  <2>2. Current(h)'
    BY <1>2, <2>1 DEF Sole, Current
  <2> QED BY <1>2, <2>2 DEF Sole, InFlight
<1> QED BY <1>1, <1>2 DEF SequentialInv

LEMMA SequentialStep ==
    ASSUME NEW c, Channels = {c}, \A s, t \in Scans : s = t, Requests = {}, MaxFaults = 0,
           SequentialInv, Next
    PROVE  SequentialInv' /\ [Contract!Next]_<<Outcome, row.retryCount>>
<1> USE DeliveryAssumption
<1>t. TypeOK /\ TypeOK'
  BY TypeStep DEF SequentialInv, vars
<1>r. row \in Row /\ row' \in Row
  BY <1>t DEF TypeOK
<1>k. Keys \subseteq Handlers /\ Scans \subseteq Handlers /\ Handlers = Keys \cup Scans
  BY DEF Handlers
<1>m. MaxRetries \in Nat \ {0} /\ op \in [Handlers -> Op]
  BY <1>t DEF DeliveryAssumption, TypeOK
<1>q. \A h \in Handlers : Sole(h) => row.status \in {"PENDING", "SCHEDULED"}
  BY DEF Sole, Current
<1>n. \A h, x \in Handlers : Sole(h) /\ InFlight(x) => h = x
  BY DEF Sole
<1>i. \A k \in Keys : op[k].stage = "done" => \E a \in row.deliveryAttempts : a.key = k
  BY DEF SequentialInv, LogIsComplete
<1>1. CASE CreateImmediate
  <2>1. Quiet /\ timers = {}
    BY <1>1, <1>q DEF SequentialInv, CreateImmediate
  <2>2. row'.status = "PENDING" /\ row'.retryCount = row.retryCount
        /\ row'.deliveryAttempts = row.deliveryAttempts
    BY <1>1, <1>r DEF CreateImmediate, Row
  <2>3. /\ \E h \in Handlers : Sole(h)'
        /\ \A h \in Handlers : op'[h].stage = "done" => op[h].stage = "done"
    BY <1>1, <1>t, <2>1, <2>2, StartRoundSole DEF CreateImmediate, Quiet, InFlight
  <2>4. LogIsComplete'
    BY <1>i, <1>k, <2>2, <2>3 DEF LogIsComplete
  <2>5. SequentialInv'
    BY <1>t, <2>2, <2>3, <2>4 DEF SequentialInv
  <2> QED BY <1>1, <1>r, <1>m, <2>2, <2>5, ContractStep DEF CreateImmediate
<1>2. CASE CreateScheduled
  <2>1. Quiet /\ timers = {}
    BY <1>2, <1>q DEF SequentialInv, CreateScheduled
  <2>2. row'.status = "SCHEDULED" /\ row'.retryCount = row.retryCount
        /\ row'.deliveryAttempts = row.deliveryAttempts
    BY <1>2, <1>r DEF CreateScheduled, Row
  <2>3. Quiet' /\ timers' = {} /\ LogIsComplete'
    BY <1>2, <1>i, <2>1, <2>2 DEF CreateScheduled, Quiet, InFlight, LogIsComplete
  <2>5. SequentialInv'
    BY <1>t, <2>2, <2>3 DEF SequentialInv
  <2> QED BY <1>2, <1>r, <1>m, <2>2, <2>5, ContractStep DEF CreateScheduled
<1>3. CASE BecomeDue
  <2>1. UNCHANGED <<row, op, timers>>
    BY <1>3 DEF BecomeDue
  <2>2. SequentialInv'
    BY <1>t, <2>1, SequentialStutter
  <2> QED BY <1>r, <1>m, <2>1, <2>2, ContractStep
<1>4. CASE Crash \/ \E h \in Handlers : SaveThrows(h)
  BY <1>4, <1>t DEF Crash, SaveThrows, TypeOK
<1>5. ASSUME NEW k \in Keys, SendAccepted(k)
      PROVE  SequentialInv' /\ [Contract!Next]_<<Outcome, row.retryCount>>
  <2>1. Sole(k)
    BY <1>5, <1>k, <1>n DEF SequentialInv, SendAccepted, Quiet, InFlight
  <2>2. row' = row /\ timers' = {} /\ row.status = "PENDING"
    BY <1>5, <2>1 DEF SendAccepted, Sole, Current
  <2>3. op'[k] = Loaded("delivered", DeliveredCopy(k))
        /\ \A x \in Handlers : x # k => op'[x] = op[x]
    BY <1>5, <1>k, <1>m DEF SendAccepted
  <2>4. Current(k)'
    BY <2>2, <2>3 DEF Current, Loaded, DeliveredCopy, Attempted
  <2>5. Sole(k)'
    BY <1>t, <1>k, <2>1, <2>2, <2>3, <2>4, SoleMoves
  <2>6. LogIsComplete'
    BY <1>i, <1>k, <2>2, <2>3 DEF LogIsComplete, Loaded
  <2>7. SequentialInv'
    BY <1>t, <1>k, <2>2, <2>5, <2>6 DEF SequentialInv
  <2> QED BY <1>r, <1>m, <2>2, <2>7, ContractStep
<1>6. ASSUME NEW k \in Keys, SendFailed(k)
      PROVE  SequentialInv' /\ [Contract!Next]_<<Outcome, row.retryCount>>
  <2>1. Sole(k)
    BY <1>6, <1>k, <1>n DEF SequentialInv, SendFailed, Quiet, InFlight
  <2>2. row' = row /\ timers' = {} /\ row.status = "PENDING"
    BY <1>6, <2>1 DEF SendFailed, Sole, Current
  <2>3. op'[k] = Loaded("failed", FailedCopy(k))
        /\ \A x \in Handlers : x # k => op'[x] = op[x]
    BY <1>6, <1>k, <1>m DEF SendFailed
  <2>4. Current(k)'
    BY <2>2, <2>3 DEF Current, Loaded, FailedCopy, Attempted
  <2>5. Sole(k)'
    BY <1>t, <1>k, <2>1, <2>2, <2>3, <2>4, SoleMoves
  <2>6. LogIsComplete'
    BY <1>i, <1>k, <2>2, <2>3 DEF LogIsComplete, Loaded
  <2>7. SequentialInv'
    BY <1>t, <1>k, <2>2, <2>5, <2>6 DEF SequentialInv
  <2> QED BY <1>r, <1>m, <2>2, <2>7, ContractStep
<1>7. ASSUME NEW h \in Handlers, Diff(h)
      PROVE  SequentialInv' /\ [Contract!Next]_<<Outcome, row.retryCount>>
  <2>1. Sole(h)
    BY <1>7, <1>n DEF SequentialInv, Diff, Quiet, InFlight
  <2>2. row' = row /\ timers' = {}
    BY <1>7, <2>1 DEF Diff, Sole
  <2>3. op'[h] = Diffed(op[h]) /\ \A x \in Handlers : x # h => op'[x] = op[x]
    BY <1>7, <1>m DEF Diff
  <2>d. /\ op'[h].stage = "diffed" /\ op'[h].kind = op[h].kind /\ op'[h].copy = op[h].copy
        /\ op'[h].dirty = {f \in Columns : op[h].copy[f] # row[f]}
    BY <1>m, <2>3 DEF Diffed, Op
  <2>4. Current(h)'
    BY <1>7, <2>1, <2>2, <2>d DEF Diff, Sole, Current, DeliveredCopy, FailedCopy, Attempted
  <2>5. Sole(h)'
    BY <1>t, <2>1, <2>2, <2>3, <2>4, SoleMoves
  <2>6. LogIsComplete'
    BY <1>i, <1>k, <2>2, <2>3, <2>d DEF LogIsComplete
  <2>7. SequentialInv'
    BY <1>t, <2>2, <2>5, <2>6 DEF SequentialInv
  <2> QED BY <1>r, <1>m, <2>2, <2>7, ContractStep
<1>8. ASSUME NEW h \in Handlers, Commit(h) \/ (h \in Keys /\ CommitFailed(h))
      PROVE  SequentialInv' /\ [Contract!Next]_<<Outcome, row.retryCount>>
  <2>1. Sole(h)
    BY <1>8, <1>n DEF SequentialInv, Commit, CommitFailed, Quiet, InFlight
  <2>2. op[h].stage = "diffed" /\ row' = op[h].copy
    BY <1>8, <1>m, <1>r, <2>1, SavedCurrent DEF Commit, CommitFailed, Sole, Current
  <2>3. op'[h] = Done /\ \A x \in Handlers : x # h => op'[x] = op[x]
    BY <1>8, <1>m DEF Commit, CommitFailed
  <2>4. Quiet'
    BY <2>1, <2>3 DEF Quiet, InFlight, Sole, Done, At
  <2>5. h \in Keys /\ row.status = "PENDING"
        /\ \/ op[h].kind = "delivered" /\ row' = DeliveredCopy(h) /\ timers' = {}
           \/ op[h].kind = "failed" /\ row' = FailedCopy(h)
              /\ timers' = IF row'.status = "PENDING" THEN {h} ELSE {}
    BY <1>8, <2>1, <2>2 DEF Commit, CommitFailed, Sole, Current
  <2>6. LogIsComplete'
    <3>1. /\ row.deliveryAttempts \subseteq row'.deliveryAttempts
          /\ \E a \in row'.deliveryAttempts : a.key = h
      <4>1. PICK b \in BOOLEAN :
                row'.deliveryAttempts = row.deliveryAttempts \cup {[key |-> h, success |-> b]}
        BY <1>r, <2>5, CopyAttempts
      <4>2. [key |-> h, success |-> b] \in row'.deliveryAttempts
        BY <4>1
      <4>3. [key |-> h, success |-> b].key = h
        OBVIOUS
      <4> QED BY <4>1, <4>2, <4>3
    <3>2. ASSUME NEW k \in Keys, op'[k].stage = "done"
          PROVE  \E a \in row'.deliveryAttempts : a.key = k
      <4>1. CASE k = h
        <5>1. PICK a \in row'.deliveryAttempts : a.key = h
          BY <3>1
        <5> QED BY <4>1, <5>1
      <4>2. CASE k # h
        BY <1>i, <1>k, <2>3, <3>1, <3>2, <4>2
      <4> QED BY <4>1, <4>2
    <3> QED BY <3>2 DEF LogIsComplete
  <2>7. \/ row'.status = "DELIVERED" /\ row'.retryCount = row.retryCount /\ timers' = {}
        \/ /\ row'.status = AfterFailure(row.retryCount + 1)
           /\ row'.retryCount = row.retryCount + 1
           /\ timers' = IF row'.status = "PENDING" THEN {h} ELSE {}
    BY <1>r, <2>5, CopyAttempts
  <2>8. SequentialInv'
    BY <1>t, <2>4, <2>5, <2>6, <2>7 DEF SequentialInv, AfterFailure
  <2> QED BY <1>r, <1>m, <2>5, <2>7, <2>8, ContractStep
<1>9. ASSUME NEW k \in Keys, RetryFires(k)
      PROVE  SequentialInv' /\ [Contract!Next]_<<Outcome, row.retryCount>>
  <2>1. Quiet /\ row.status = "PENDING" /\ timers = {k} /\ timers' = {} /\ row' = row
    BY <1>9 DEF SequentialInv, RetryFires, Sole
  <2>3. /\ \E h \in Handlers : Sole(h)'
        /\ \A h \in Handlers : op'[h].stage = "done" => op[h].stage = "done"
    BY <1>9, <1>t, <2>1, StartRoundSole DEF RetryFires, Quiet, InFlight
  <2>4. LogIsComplete'
    BY <1>i, <1>k, <2>1, <2>3 DEF LogIsComplete
  <2>5. SequentialInv'
    BY <1>t, <2>1, <2>3, <2>4 DEF SequentialInv
  <2> QED BY <1>r, <1>m, <2>1, <2>5, ContractStep
<1>10. ASSUME NEW s \in Scans, ScanFind(s)
       PROVE  SequentialInv' /\ [Contract!Next]_<<Outcome, row.retryCount>>
  <2>1. Quiet /\ timers = {} /\ timers' = {} /\ row' = row /\ row.status = "SCHEDULED"
    <3>1. ASSUME NEW h \in Handlers, Sole(h) PROVE FALSE
      <4>1. h = s
        BY <1>10, <3>1, <1>k DEF ScanFind, Sole, Current
      <4> QED BY <1>10, <3>1, <4>1 DEF ScanFind, Sole, Current
    <3> QED BY <1>10, <3>1 DEF SequentialInv, ScanFind
  <2>3. op'[s] = Loaded("dispatch", [row EXCEPT !.status = "PENDING"])
        /\ \A x \in Handlers : x # s => op'[x] = op[x]
    BY <1>10, <1>k, <1>m DEF ScanFind
  <2>4. Current(s)'
    BY <2>1, <2>3 DEF Current, Loaded
  <2>5. Sole(s)'
    BY <2>1, <2>3, <2>4 DEF Sole, Quiet, InFlight
  <2>6. LogIsComplete'
    BY <1>i, <1>k, <2>1, <2>3 DEF LogIsComplete, Loaded
  <2>7. SequentialInv'
    BY <1>t, <1>k, <2>1, <2>5, <2>6 DEF SequentialInv
  <2> QED BY <1>r, <1>m, <2>1, <2>7, ContractStep
<1>11. ASSUME NEW s \in Scans, ScanCommit(s)
       PROVE  SequentialInv' /\ [Contract!Next]_<<Outcome, row.retryCount>>
  <2>1. Sole(s)
    BY <1>11, <1>k, <1>n DEF SequentialInv, ScanCommit, Quiet, InFlight
  <2>2. row' = op[s].copy
    BY <1>11, <1>k, <1>m, <1>r, <2>1, SavedCurrent DEF ScanCommit, Sole, Current
  <2>3. row.status = "SCHEDULED" /\ row' = [row EXCEPT !.status = "PENDING"]
    BY <1>11, <2>1, <2>2 DEF ScanCommit, Sole, Current
  <2>4. row'.status = "PENDING" /\ row'.retryCount = row.retryCount
        /\ row'.deliveryAttempts = row.deliveryAttempts
    BY <1>r, <2>3 DEF Row
  <2>5. \A h \in Handlers : [op EXCEPT ![s] = Idle][h].stage \in {"idle", "done"}
    BY <1>k, <1>m, <2>1 DEF Sole, InFlight, Idle, At
  <2>6. /\ \E h \in Handlers : Sole(h)'
        /\ \A h \in Handlers :
              op'[h].stage = "done" => [op EXCEPT ![s] = Idle][h].stage = "done"
    BY <1>11, <1>t, <2>1, <2>4, <2>5, StartRoundSole DEF ScanCommit, Sole
  <2>7. LogIsComplete'
    BY <1>i, <1>k, <1>m, <2>4, <2>6 DEF LogIsComplete, Idle, At
  <2>8. SequentialInv'
    BY <1>t, <2>4, <2>6, <2>7 DEF SequentialInv
  <2> QED BY <1>r, <1>m, <2>3, <2>4, <2>8, ContractStep
<1> QED
  BY <1>1, <1>2, <1>3, <1>4, <1>5, <1>6, <1>7, <1>8, <1>9, <1>10, <1>11, <1>k
     DEF Next, SendStep, ScanStep, RequestStep

LEMMA SequentialInit == Init => SequentialInv /\ Contract!Init
<1> SUFFICES ASSUME Init PROVE SequentialInv /\ Contract!Init
  OBVIOUS
<1>1. TypeOK
  BY TypeInit
<1>2. Quiet /\ timers = {} /\ LogIsComplete
  BY DEF Init, Quiet, InFlight, LogIsComplete, Idle, At, Handlers
<1>3. row.status = "ABSENT" /\ row.retryCount = 0
  BY DEF Init, BlankRow
<1> QED BY <1>1, <1>2, <1>3 DEF SequentialInv, Contract!Init, Outcome

\* With one channel, one cron run at a time, no user request and no fault, the
\* pipeline implements its contract: the notification is tried until a try
\* succeeds or MaxRetries of them have failed, and then left alone for good.
THEOREM SequentialImplementsContract ==
    ASSUME NEW c, Channels = {c}, \A s, t \in Scans : s = t, Requests = {}, MaxFaults = 0
    PROVE  Spec => Contract!Safety
<1>1. SequentialInv /\ [Next]_vars =>
          SequentialInv' /\ [Contract!Next]_<<Outcome, row.retryCount>>
  <2>1. ASSUME SequentialInv, UNCHANGED vars
        PROVE  SequentialInv' /\ UNCHANGED <<Outcome, row.retryCount>>
    <3>1. TypeOK'
      BY <2>1, TypeStep DEF SequentialInv
    <3> QED BY <2>1, <3>1, SequentialStutter DEF vars, Outcome
  <2> QED BY <2>1, SequentialStep
<1> QED BY <1>1, SequentialInit, PTL DEF Spec, Contract!Safety

\* In that case the log of attempts misses no finished send.
THEOREM LogIsCompleteAlways ==
    ASSUME NEW c, Channels = {c}, \A s, t \in Scans : s = t, Requests = {}, MaxFaults = 0
    PROVE  Spec => []LogIsComplete
<1>1. SequentialInv /\ [Next]_vars => SequentialInv'
  <2>1. ASSUME SequentialInv, UNCHANGED vars PROVE SequentialInv'
    <3>1. TypeOK'
      BY <2>1, TypeStep DEF SequentialInv
    <3> QED BY <2>1, <3>1, SequentialStutter DEF vars
  <2> QED BY <2>1, SequentialStep
<1>2. SequentialInv => LogIsComplete
  BY DEF SequentialInv
<1> QED BY <1>1, <1>2, SequentialInit, PTL DEF Spec
=============================================================================
