-------------------------- MODULE OfflineSyncProofs --------------------------
(***************************************************************************)
(* Proofs about OfflineSync, for any items, runs, connections and limits.  *)
(***************************************************************************)
EXTENDS OfflineSync, TLAPS

\* What the runs carry never claims more than there was.
Allowed(n, i) == n <= maxAttempts /\ n <= fails[i] + faults
Spent(i) == i \in accepted \/ fails[i] + faults > maxAttempts

StoreInv ==
    \A i \in Items : /\ Allowed(outbox[i].attempts, i)
                     /\ outbox[i].state = "gone" => Spent(i)
RunInv(r) ==
    \A i \in Items :
        \/ Allowed(run[r].copy[i], i)
        \/ run[r].stage = "delete" /\ At(r, i) /\ run[r].copy[i] <= fails[i] + faults
DeleteInv(r) ==
    \A i \in Items : run[r].stage = "delete" /\ At(r, i) => Spent(i)

OutboxInv == StoreInv /\ \A r \in Runs : RunInv(r) /\ DeleteInv(r)

CheckedInv(c) ==
    /\ Earned(exchange[c].seen) /\ exchange[c].seen.failures <= exchange[c].seen.total
    /\ exchange[c].seen.state \notin {"open", "lapsed"}
    /\ exchange[c].stage # "idle" /\ exchange[c].checked => exchange[c].seen.total < MaxTotal
    /\ exchange[c].stage = "log" => exchange[c].checked
    /\ exchange[c].stage = "log" /\ exchange[c].failed => exchange[c].seen.failures < errors

TypeInv ==
    /\ TypeOK
    /\ \A c \in Connections : exchange[c].stage = "upstream" => letter[c].item \in Items

GatewayInv ==
    /\ Earned(circuit) /\ circuit.failures <= circuit.total
    /\ \A c \in Connections : CheckedInv(c)
-----------------------------------------------------------------------------
(* What a step does to the outbox.                                          *)

OneItem(r, i) ==
    \/ Send(r, i)
    \/ Succeed(r, i) /\ accepted' = accepted \cup {i}
    \/ /\ \E stage \in {"next", "wait"}, caught \in BOOLEAN : Fail(r, i, stage, caught)
       /\ accepted' = accepted
    \/ Delete(r, i) \/ Put(r, i) \/ StorageFails(r, i)
Elsewhere ==
    /\ UNCHANGED <<outbox, run, fails, faults>>
    /\ accepted' \subseteq Items /\ accepted \subseteq accepted'

LEMMA OutboxStep ==
    ASSUME TypeInv, [Next]_vars
    PROVE  \/ \E r \in Runs, i \in Items : OneItem(r, i)
           \/ \E r \in Runs : ProcessOutbox(r) \/ Close(r)
           \/ \E i \in Items : AddToOutbox(i)
           \/ Elsewhere
<1> DEFINE Goal == \/ \E r \in Runs, i \in Items : OneItem(r, i)
                   \/ \E r \in Runs : ProcessOutbox(r) \/ Close(r)
                   \/ \E i \in Items : AddToOutbox(i)
                   \/ Elsewhere
<1>0. accepted \subseteq Items
  BY DEF TypeInv, TypeOK, OutboxTypeOK
<1>1. ASSUME UNCHANGED outboxVars PROVE Goal
  BY <1>0, <1>1 DEF outboxVars, Elsewhere
<1>2. ASSUME NEW r \in Runs, RunStep(r) PROVE Goal
  <2>1. PICK i \in Items :
            \/ Delete(r, i) \/ Put(r, i) \/ StorageFails(r, i)
            \/ SendRefused(r, i) \/ SendNowhere(r, i)
            \/ \E c \in Connections : SendThrough(r, i, c)
    BY <1>2 DEF RunStep
  <2>2. OneItem(r, i)
    BY <2>1 DEF OneItem, SendRefused, SendNowhere, SendThrough
  <2> QED BY <2>2
<1>3. ASSUME NEW c \in Connections, Answer(c) PROVE Goal
  <2>1. letter[c].item \in Items /\ letter[c].run \in Runs \cup {Null}
    BY <1>3 DEF TypeInv, TypeOK, Letter, Answer, Accept, Reject, Respond
  <2>2. CASE Accept(c)
    <3>1. CASE letter[c].run # Null /\ Succeed(letter[c].run, letter[c].item)
      BY <2>1, <2>2, <3>1 DEF OneItem, Accept
    <3>2. CASE UNCHANGED <<outbox, run, fails, faults>>
      BY <1>0, <2>1, <2>2, <3>2 DEF Elsewhere, Accept
    <3> QED BY <2>2, <3>1, <3>2 DEF Accept
  <2>3. ASSUME NEW failed \in BOOLEAN, Reject(c, failed) PROVE Goal
    <3>1. CASE letter[c].run # Null /\ Fail(letter[c].run, letter[c].item, "wait", FALSE)
      <4>1. OneItem(letter[c].run, letter[c].item)
        BY <2>3, <3>1 DEF OneItem, Reject
      <4> QED BY <2>1, <3>1, <4>1
    <3>2. CASE UNCHANGED <<outbox, run, fails, faults>>
      BY <1>0, <2>3, <3>2 DEF Elsewhere, Reject
    <3> QED BY <2>3, <3>1, <3>2 DEF Reject
  <2> QED BY <1>3, <2>2, <2>3 DEF Answer
<1>4. ASSUME NEW c \in Connections, Lose(c) PROVE Goal
  <2>1. letter[c].run \in Runs
    BY <1>4 DEF TypeInv, TypeOK, Letter, Lose
  <2>2. run[letter[c].run].todo \subseteq Items
    BY <2>1 DEF TypeInv, TypeOK, OutboxTypeOK, Run
  <2>3. letter[c].item \in Items
    BY <1>4, <2>2 DEF Lose, Fail, At
  <2>4. OneItem(letter[c].run, letter[c].item)
    BY <1>4 DEF OneItem, Lose
  <2> QED BY <2>1, <2>3, <2>4
<1>5. ASSUME NEW c \in Connections, LogPhase(c) PROVE Goal
  BY <1>1, <1>5 DEF LogPhase
<1>6. ASSUME NEW r \in Runs, CloseTab(r) PROVE Goal
  BY <1>6 DEF CloseTab
<1>7. ASSUME Start PROVE Goal
  BY <1>7 DEF Start
<1>8. ASSUME UNCHANGED vars PROVE Goal
  BY <1>1, <1>8 DEF vars, outboxVars
<1> HIDE DEF Goal
<1>9. Goal
  <2>1. CASE Next
    <3>1. CASE \E i \in Items : AddToOutbox(i) /\ UNCHANGED <<gatewayVars, letter>>
      BY <3>1 DEF Goal
    <3>2. CASE (Lapse \/ Expire) /\ UNCHANGED <<outboxVars, letter>>
      BY <1>1, <3>2
    <3> QED BY <2>1, <3>1, <3>2, <1>2, <1>3, <1>4, <1>5, <1>6, <1>7 DEF Next
  <2> QED BY <1>8, <2>1
<1> QED BY <1>9 DEF Goal
-----------------------------------------------------------------------------
(* Types.                                                                   *)

LEMMA DoneType ==
    ASSUME OutboxTypeOK, NEW r \in Runs, NEW i \in Items, At(r, i), Done(r, i)
    PROVE  /\ run' \in [Runs -> Run]
           /\ \A q \in Runs : run'[q].stage = "idle" <=> run'[q].todo = {}
           /\ \A q \in Runs : q # r => run'[q] = run[q]
           /\ run'[r].stage \in {"idle", "next"}
           /\ \A j \in Items : run'[r].copy[j] = 0 \/ (j # i /\ run'[r].copy[j] = run[r].copy[j])
<1>1. run \in [Runs -> Run] /\ run[r] \in Run /\ i \in run[r].todo
  BY DEF OutboxTypeOK, At
<1>2. Idle \in Run /\ Idle.stage = "idle" /\ Idle.todo = {} /\ \A j \in Items : Idle.copy[j] = 0
  BY DEF Idle, Run
<1> DEFINE next == [run[r] EXCEPT !.stage = "next", !.todo = @ \ {i}, !.copy[i] = 0, !.caught = FALSE]
<1>3. /\ next \in Run /\ next.stage = "next" /\ next.todo = run[r].todo \ {i}
      /\ \A j \in Items : next.copy[j] = 0 \/ (j # i /\ next.copy[j] = run[r].copy[j])
  BY <1>1 DEF Run
<1>4. run[r].todo # {i} => next.todo # {}
  BY <1>1, <1>3
<1> HIDE DEF next
<1>5. run' = [run EXCEPT ![r] = IF run[r].todo = {i} THEN Idle ELSE next]
  BY DEF Done, next
<1>6. \A q \in Runs : q # r => run'[q] = run[q]
  BY <1>1, <1>5
<1>7. run'[r] = IF run[r].todo = {i} THEN Idle ELSE next
  BY <1>1, <1>5
<1> QED BY <1>1, <1>2, <1>3, <1>4, <1>5, <1>6, <1>7 DEF OutboxTypeOK

LEMMA CountType ==
    ASSUME OutboxTypeOK, NEW r \in Runs, NEW i \in Items, NEW caught \in BOOLEAN,
           At(r, i), Count(r, i, caught)
    PROVE  /\ run' \in [Runs -> Run]
           /\ \A q \in Runs : run'[q].stage = "idle" <=> run'[q].todo = {}
           /\ \A q \in Runs : q # r => run'[q] = run[q]
           /\ run'[r].todo = run[r].todo
           /\ run'[r].copy[i] = run[r].copy[i] + 1
           /\ \A j \in Items : j # i => run'[r].copy[j] = run[r].copy[j]
           /\ run'[r].stage = IF run[r].copy[i] + 1 > maxAttempts THEN "delete" ELSE "put"
<1>1. run \in [Runs -> Run] /\ run[r] \in Run /\ i \in run[r].todo
  BY DEF OutboxTypeOK, At
<1>2. run[r].copy \in [Items -> Nat] /\ run[r].copy[i] + 1 \in Nat
  BY <1>1 DEF Run
<1> DEFINE next == [run[r] EXCEPT !.copy = [@ EXCEPT ![i] = run[r].copy[i] + 1], !.caught = caught,
                                  !.stage = IF run[r].copy[i] + 1 > maxAttempts THEN "delete" ELSE "put"]
<1>3. /\ next \in Run /\ next.todo = run[r].todo
      /\ next.copy[i] = run[r].copy[i] + 1
      /\ \A j \in Items : j # i => next.copy[j] = run[r].copy[j]
      /\ next.stage = IF run[r].copy[i] + 1 > maxAttempts THEN "delete" ELSE "put"
  BY <1>1, <1>2 DEF Run
<1>4. run' = [run EXCEPT ![r] = next]
  BY <1>1 DEF Count, Run
<1> HIDE DEF next
<1>5. run'[r] = next /\ \A q \in Runs : q # r => run'[q] = run[q]
  BY <1>1, <1>4
<1>6. run' \in [Runs -> Run]
  BY <1>1, <1>3, <1>4
<1>7. next.stage # "idle" /\ next.todo # {}
  BY <1>1, <1>3
<1> QED BY <1>3, <1>5, <1>6, <1>7 DEF OutboxTypeOK

LEMMA StageType ==
    ASSUME OutboxTypeOK, NEW r \in Runs, run[r].stage # "idle",
           NEW stage \in {"wait", "delete"}, run' = [run EXCEPT ![r].stage = stage]
    PROVE  /\ run' \in [Runs -> Run]
           /\ \A q \in Runs : run'[q].stage = "idle" <=> run'[q].todo = {}
           /\ \A q \in Runs : q # r => run'[q] = run[q]
           /\ run'[r].todo = run[r].todo /\ run'[r].copy = run[r].copy /\ run'[r].stage = stage
BY DEF OutboxTypeOK, Run

LEMMA EndType ==
    ASSUME OutboxTypeOK, NEW r \in Runs, run' = [run EXCEPT ![r] = Idle]
    PROVE  /\ run' \in [Runs -> Run]
           /\ \A q \in Runs : run'[q].stage = "idle" <=> run'[q].todo = {}
           /\ \A q \in Runs : q # r => run'[q] = run[q]
           /\ run'[r] = Idle
<1>1. Idle \in Run /\ Idle.stage = "idle" /\ Idle.todo = {}
  BY DEF Idle, Run
<1> QED BY <1>1 DEF OutboxTypeOK

LEMMA StartType ==
    ASSUME OutboxTypeOK, NEW r \in Runs, ProcessOutbox(r)
    PROVE  /\ run' \in [Runs -> Run]
           /\ \A q \in Runs : run'[q].stage = "idle" <=> run'[q].todo = {}
           /\ \A q \in Runs : q # r => run'[q] = run[q]
           /\ run'[r].stage = "next"
           /\ \A i \in Items : run'[r].copy[i] \in {0, outbox[i].attempts}
<1> DEFINE copy == [i \in Items |-> IF i \in Queued THEN outbox[i].attempts ELSE 0]
           next == [Idle EXCEPT !.stage = "next", !.todo = Queued, !.copy = copy]
<1>1. copy \in [Items -> Nat] /\ \A i \in Items : copy[i] \in {0, outbox[i].attempts}
  BY DEF OutboxTypeOK, Item
<1>2. Queued \subseteq Items /\ Queued # {}
  BY DEF Queued, ProcessOutbox
<1>3. run' = [run EXCEPT ![r] = next]
  BY DEF ProcessOutbox
<1> HIDE DEF copy
<1>4. next \in Run /\ next.stage = "next" /\ next.todo = Queued /\ next.copy = copy
  BY <1>1, <1>2 DEF Run, Idle
<1> HIDE DEF next
<1> QED BY <1>1, <1>2, <1>3, <1>4 DEF OutboxTypeOK

LEMMA OutboxTypes ==
    ASSUME TypeInv, [Next]_vars
    PROVE  OutboxTypeOK'
<1>0. /\ OutboxTypeOK /\ outbox \in [Items -> Item] /\ fails \in [Items -> Nat]
      /\ accepted \subseteq Items /\ faults \in Nat /\ run \in [Runs -> Run]
  BY DEF TypeInv, TypeOK, OutboxTypeOK
<1>1. ASSUME NEW r \in Runs, NEW i \in Items, OneItem(r, i) PROVE OutboxTypeOK'
  <2>0. run[r] \in Run /\ outbox[i] \in Item
    BY <1>0
  <2>1. CASE Send(r, i)
    BY <1>0, <2>1, StageType DEF Send, OutboxTypeOK
  <2>2. CASE Succeed(r, i) /\ accepted' = accepted \cup {i}
    BY <1>0, <2>2, StageType DEF Succeed, OutboxTypeOK
  <2>3. ASSUME NEW stage \in {"next", "wait"}, NEW caught \in BOOLEAN,
               Fail(r, i, stage, caught), accepted' = accepted
        PROVE  OutboxTypeOK'
    <3>1. At(r, i) /\ Count(r, i, caught)
      BY <2>3 DEF Fail
    <3>2. /\ run' \in [Runs -> Run]
          /\ \A q \in Runs : run'[q].stage = "idle" <=> run'[q].todo = {}
      BY <1>0, <3>1, CountType
    <3>3. fails' \in [Items -> Nat]
      BY <1>0, <2>3, OutboxAssumption DEF Fail
    <3> QED BY <1>0, <2>3, <3>2, <3>3 DEF Fail, OutboxTypeOK
  <2>4. CASE Delete(r, i)
    <3>1. outbox' \in [Items -> Item]
      BY <1>0, <2>4 DEF Delete, Item
    <3> QED BY <1>0, <2>4, <3>1, DoneType DEF Delete, OutboxTypeOK
  <2>5. CASE Put(r, i)
    <3>1. outbox' \in [Items -> Item]
      BY <1>0, <2>0, <2>5 DEF Put, Item, Run
    <3> QED BY <1>0, <2>5, <3>1, DoneType DEF Put, OutboxTypeOK
  <2>6. CASE StorageFails(r, i)
    <3>1. CASE run[r].caught
      BY <1>0, <2>6, <3>1, EndType DEF StorageFails, OutboxTypeOK
    <3>2. CASE ~run[r].caught
      <4>1. At(r, i) /\ Count(r, i, TRUE)
        BY <2>6, <3>2 DEF StorageFails
      <4>2. /\ run' \in [Runs -> Run]
            /\ \A q \in Runs : run'[q].stage = "idle" <=> run'[q].todo = {}
        BY <1>0, <4>1, CountType
      <4> QED BY <1>0, <2>6, <4>2 DEF StorageFails, OutboxTypeOK
    <3> QED BY <3>1, <3>2
  <2> QED BY <1>1, <2>1, <2>2, <2>3, <2>4, <2>5, <2>6 DEF OneItem
<1>2. ASSUME NEW r \in Runs, ProcessOutbox(r) PROVE OutboxTypeOK'
  <2>1. UNCHANGED <<outbox, fails, accepted, faults>>
    BY <1>2 DEF ProcessOutbox
  <2>2. /\ run' \in [Runs -> Run]
        /\ \A q \in Runs : run'[q].stage = "idle" <=> run'[q].todo = {}
    BY <1>0, <1>2, StartType
  <2> QED BY <1>0, <2>1, <2>2 DEF OutboxTypeOK
<1>3. ASSUME NEW r \in Runs, Close(r) PROVE OutboxTypeOK'
  <2>1. /\ run' = [run EXCEPT ![r] = Idle] /\ faults' = faults + 1
        /\ UNCHANGED <<outbox, fails, accepted>>
    BY <1>3 DEF Close
  <2>2. /\ run' \in [Runs -> Run]
        /\ \A q \in Runs : run'[q].stage = "idle" <=> run'[q].todo = {}
    BY <1>0, <2>1, EndType
  <2> QED BY <1>0, <2>1, <2>2 DEF OutboxTypeOK
<1>4. ASSUME NEW i \in Items, AddToOutbox(i) PROVE OutboxTypeOK'
  BY <1>0, <1>4 DEF AddToOutbox, OutboxTypeOK, Item
<1>5. ASSUME Elsewhere PROVE OutboxTypeOK'
  BY <1>0, <1>5 DEF Elsewhere, OutboxTypeOK
<1> QED BY OutboxStep, <1>1, <1>2, <1>3, <1>4, <1>5
-----------------------------------------------------------------------------
(* What the runs carry.                                                     *)

LEMMA OneAt ==
    ASSUME NEW r \in Runs, NEW i \in Items, NEW j \in Items, At(r, i), At(r, j)
    PROVE  i = j
BY OutboxAssumption DEF At

\* Histories and faults only grow.
LEMMA Grows ==
    ASSUME TypeInv, [Next]_vars
    PROVE  /\ \A i \in Items : fails[i] + faults <= fails'[i] + faults'
           /\ accepted \subseteq accepted'
<1> DEFINE Goal == /\ \A i \in Items : fails[i] + faults <= fails'[i] + faults'
                   /\ accepted \subseteq accepted'
<1>0. fails \in [Items -> Nat] /\ faults \in Nat /\ maxAttempts \in Nat
  BY OutboxAssumption DEF TypeInv, TypeOK, OutboxTypeOK
<1>1. ASSUME UNCHANGED <<fails, accepted, faults>> PROVE Goal
  BY <1>0, <1>1
<1>2. ASSUME UNCHANGED <<fails, accepted>>, faults' = faults + 1 PROVE Goal
  BY <1>0, <1>2
<1>3. ASSUME NEW r \in Runs, NEW i \in Items, OneItem(r, i) PROVE Goal
  <2>1. ASSUME NEW stage \in {"next", "wait"}, NEW caught \in BOOLEAN,
               Fail(r, i, stage, caught), accepted' = accepted
        PROVE  Goal
    <3>1. faults' = faults /\ \A j \in Items : fails[j] <= fails'[j] /\ fails'[j] \in Nat
      BY <1>0, <2>1 DEF Fail
    <3> QED BY <1>0, <2>1, <3>1
  <2>2. CASE Succeed(r, i) /\ accepted' = accepted \cup {i}
    BY <1>0, <2>2 DEF Succeed
  <2> QED BY <1>1, <1>2, <1>3, <2>1, <2>2 DEF OneItem, Send, Delete, Put, StorageFails
<1>4. ASSUME NEW r \in Runs, ProcessOutbox(r) \/ Close(r) PROVE Goal
  BY <1>1, <1>2, <1>4 DEF ProcessOutbox, Close
<1>5. ASSUME NEW i \in Items, AddToOutbox(i) PROVE Goal
  BY <1>1, <1>5 DEF AddToOutbox
<1>6. ASSUME Elsewhere PROVE Goal
  BY <1>0, <1>6 DEF Elsewhere
<1> HIDE DEF Goal
<1>7. Goal
  BY OutboxStep, <1>3, <1>4, <1>5, <1>6
<1> QED BY <1>7 DEF Goal

LEMMA OutboxPreserved ==
    ASSUME TypeInv, OutboxInv, [Next]_vars
    PROVE  OutboxInv'
<1>0. /\ OutboxTypeOK /\ outbox \in [Items -> Item] /\ fails \in [Items -> Nat]
      /\ accepted \subseteq Items /\ faults \in Nat /\ run \in [Runs -> Run]
      /\ \A r \in Runs : run[r].copy \in [Items -> Nat]
      /\ \A i \in Items : outbox[i].attempts \in Nat /\ fails[i] \in Nat
      /\ Items \subseteq Nat /\ maxAttempts \in Nat
  BY OutboxAssumption DEF TypeInv, TypeOK, OutboxTypeOK, Run, Item
<1>1. fails' \in [Items -> Nat] /\ faults' \in Nat
  BY OutboxTypes DEF OutboxTypeOK
<1>2. /\ \A i \in Items : fails[i] + faults <= fails'[i] + faults' /\ fails'[i] \in Nat
      /\ accepted \subseteq accepted'
  BY Grows, <1>1
<1>3. /\ \A i \in Items, n \in Nat : Allowed(n, i) => Allowed(n, i)'
      /\ \A i \in Items : Spent(i) => Spent(i)'
  BY <1>0, <1>1, <1>2 DEF Allowed, Spent
<1>4. /\ \A i \in Items : Allowed(0, i)'
      /\ \A i \in Items : Allowed(0, i)
  BY <1>0, <1>1, <1>2 DEF Allowed
\* It remains to look at the run that moved, and at the item that was written.
<1>5. ASSUME NEW q \in Runs, run'[q] = run[q] PROVE RunInv(q)' /\ DeleteInv(q)'
  <2>1. \A i \in Items : run[q].copy[i] \in Nat
    BY <1>0
  <2>2. RunInv(q) /\ DeleteInv(q)
    BY DEF OutboxInv
  <2>3. ASSUME NEW i \in Items
        PROVE  \/ run[q].copy[i] <= maxAttempts /\ run[q].copy[i] <= fails'[i] + faults'
               \/ run[q].stage = "delete" /\ At(q, i) /\ run[q].copy[i] <= fails'[i] + faults'
    BY <1>0, <1>1, <1>2, <2>1, <2>2, <2>3 DEF RunInv, Allowed
  <2> QED BY <1>3, <1>5, <2>2, <2>3 DEF RunInv, DeleteInv, At, Allowed
<1>6. ASSUME UNCHANGED outbox PROVE StoreInv'
  BY <1>0, <1>3, <1>6 DEF OutboxInv, StoreInv, Allowed
<1>7. ASSUME NEW r \in Runs, \A q \in Runs : q # r => run'[q] = run[q],
             StoreInv', RunInv(r)', DeleteInv(r)'
      PROVE  OutboxInv'
  BY <1>5, <1>7 DEF OutboxInv
<1>8. ASSUME NEW r \in Runs, NEW i \in Items, OneItem(r, i) PROVE OutboxInv'
  <2>0. /\ run[r].copy \in [Items -> Nat] /\ run[r].copy[i] \in Nat
        /\ RunInv(r) /\ DeleteInv(r) /\ StoreInv
        /\ i \in run[r].todo => run[r].stage # "idle"
    BY <1>0 DEF OutboxInv, OutboxTypeOK
  <2>1. CASE Send(r, i)
    <3>1. /\ \A q \in Runs : q # r => run'[q] = run[q]
          /\ run'[r].copy = run[r].copy /\ run'[r].stage = "wait" /\ run[r].stage = "next"
      BY <1>0, <2>0, <2>1, StageType DEF Send, At
    <3>2. RunInv(r)' /\ DeleteInv(r)'
      BY <1>0, <1>3, <2>0, <3>1 DEF RunInv, DeleteInv, Allowed
    <3> QED BY <1>6, <1>7, <2>1, <3>1, <3>2 DEF Send
  <2>2. CASE Succeed(r, i) /\ accepted' = accepted \cup {i}
    <3>1. /\ \A q \in Runs : q # r => run'[q] = run[q]
          /\ run'[r].copy = run[r].copy /\ run'[r].stage = "delete" /\ run[r].stage = "wait"
          /\ run'[r].todo = run[r].todo /\ At(r, i)
      BY <1>0, <2>0, <2>2, StageType DEF Succeed, At
    <3>2. RunInv(r)'
      BY <1>0, <1>3, <2>0, <3>1 DEF RunInv, Allowed
    <3>3. DeleteInv(r)'
      BY <2>2, <3>1, OneAt DEF DeleteInv, Spent, At
    <3> QED BY <1>6, <1>7, <2>2, <3>1, <3>2, <3>3 DEF Succeed
  <2>3. ASSUME NEW caught \in BOOLEAN, Count(r, i, caught), At(r, i),
               run[r].copy[i] + 1 <= fails'[i] + faults', UNCHANGED outbox,
               \A j \in Items : j # i => Allowed(run[r].copy[j], j)
        PROVE  OutboxInv'
    <3>1. /\ \A q \in Runs : q # r => run'[q] = run[q]
          /\ run'[r].todo = run[r].todo
          /\ run'[r].copy[i] = run[r].copy[i] + 1
          /\ \A j \in Items : j # i => run'[r].copy[j] = run[r].copy[j]
          /\ run'[r].stage = IF run[r].copy[i] + 1 > maxAttempts THEN "delete" ELSE "put"
      BY <1>0, <2>3, CountType
    <3>2. At(r, i)' /\ \A j \in Items : At(r, j)' => j = i
      BY <2>3, <3>1, OneAt DEF At
    <3>3. run[r].copy[i] + 1 > maxAttempts => Spent(i)'
      BY <1>0, <1>1, <2>0, <2>3 DEF Spent
    <3>4. ASSUME NEW j \in Items, j # i
          PROVE  run'[r].copy[j] <= maxAttempts /\ run'[r].copy[j] <= fails'[j] + faults'
      BY <1>0, <1>1, <1>2, <2>3, <3>1, <3>4 DEF Allowed
    <3>5. RunInv(r)'
      BY <1>0, <1>1, <2>0, <2>3, <3>1, <3>2, <3>4 DEF RunInv, Allowed
    <3>6. DeleteInv(r)'
      BY <3>1, <3>2, <3>3 DEF DeleteInv
    <3> QED BY <1>6, <1>7, <2>3, <3>1, <3>5, <3>6
  <2>4. ASSUME NEW stage \in {"next", "wait"}, NEW caught \in BOOLEAN, Fail(r, i, stage, caught)
        PROVE  OutboxInv'
    <3>1. \A j \in Items : Allowed(run[r].copy[j], j)
      BY <2>0, <2>4 DEF Fail, RunInv
    <3>2. fails'[i] = IF fails[i] <= maxAttempts THEN fails[i] + 1 ELSE fails[i]
      BY <1>0, <2>4 DEF Fail
    <3>3. run[r].copy[i] + 1 <= fails'[i] + faults'
      BY <1>0, <2>0, <2>4, <3>1, <3>2 DEF Allowed, Fail
    <3> QED BY <2>3, <2>4, <3>1, <3>3 DEF Fail
  <2>5. CASE StorageFails(r, i)
    <3>1. faults' = faults + 1 /\ UNCHANGED <<outbox, fails, accepted>> /\ At(r, i)
      BY <2>5 DEF StorageFails
    <3>2. CASE run[r].caught
      <4>1. /\ \A q \in Runs : q # r => run'[q] = run[q]
            /\ run'[r] = Idle
        BY <1>0, <2>5, <3>2, EndType DEF StorageFails
      <4>2. RunInv(r)' /\ DeleteInv(r)'
        BY <1>4, <4>1 DEF RunInv, DeleteInv, Idle, Allowed
      <4> QED BY <1>6, <1>7, <3>1, <4>1, <4>2
    <3>3. CASE ~run[r].caught
      <4>1. \A j \in Items : j # i => Allowed(run[r].copy[j], j)
        BY <2>0, <3>1, OneAt DEF RunInv
      <4>2. run[r].copy[i] <= fails[i] + faults
        BY <2>0 DEF RunInv, Allowed
      <4>3. run[r].copy[i] + 1 <= fails'[i] + faults'
        BY <1>0, <2>0, <3>1, <4>2
      <4>4. Count(r, i, TRUE)
        BY <2>5, <3>3 DEF StorageFails
      <4> QED BY <2>3, <3>1, <4>1, <4>3, <4>4
    <3> QED BY <3>2, <3>3
  <2>6. ASSUME At(r, i), Done(r, i)
        PROVE  (\A q \in Runs : q # r => run'[q] = run[q]) /\ RunInv(r)' /\ DeleteInv(r)'
    <3>1. /\ \A q \in Runs : q # r => run'[q] = run[q]
          /\ run'[r].stage \in {"idle", "next"}
          /\ \A j \in Items : run'[r].copy[j] = 0 \/ (j # i /\ run'[r].copy[j] = run[r].copy[j])
      BY <1>0, <2>6, DoneType
    <3>2. \A j \in Items : j # i => Allowed(run[r].copy[j], j)
      BY <2>0, <2>6, OneAt DEF RunInv
    <3>3. ASSUME NEW j \in Items
          PROVE  run'[r].copy[j] <= maxAttempts /\ run'[r].copy[j] <= fails'[j] + faults'
      BY <1>0, <1>1, <1>2, <1>4, <3>1, <3>2 DEF Allowed
    <3> QED BY <3>1, <3>3 DEF RunInv, DeleteInv, Allowed
  <2>7. CASE Delete(r, i)
    <3>1. At(r, i) /\ Done(r, i) /\ Spent(i)
      BY <2>0, <2>7 DEF Delete, DeleteInv
    <3>2. outbox' = [outbox EXCEPT ![i] = [state |-> "gone", attempts |-> 0]]
      BY <2>7 DEF Delete
    <3>3. ASSUME NEW j \in Items
          PROVE  /\ outbox'[j].attempts <= maxAttempts /\ outbox'[j].attempts <= fails'[j] + faults'
                 /\ outbox'[j].state = "gone" => Spent(j)'
      <4>1. CASE j = i
        BY <1>0, <1>3, <1>4, <3>1, <3>2, <4>1 DEF Allowed
      <4>2. CASE j # i
        BY <1>0, <1>1, <1>2, <1>3, <2>0, <3>2, <4>2 DEF StoreInv, Allowed
      <4> QED BY <4>1, <4>2
    <3>4. StoreInv'
      BY <3>3 DEF StoreInv, Allowed
    <3> QED BY <1>7, <2>6, <3>1, <3>4
  <2>8. CASE Put(r, i)
    <3>1. At(r, i) /\ Done(r, i) /\ run[r].stage = "put"
      BY <2>8 DEF Put
    <3>2. outbox' = [outbox EXCEPT ![i] = [state |-> "queued", attempts |-> run[r].copy[i]]]
      BY <2>8 DEF Put
    <3>3. Allowed(run[r].copy[i], i)
      BY <2>0, <3>1 DEF RunInv
    <3>4. ASSUME NEW j \in Items
          PROVE  /\ outbox'[j].attempts <= maxAttempts /\ outbox'[j].attempts <= fails'[j] + faults'
                 /\ outbox'[j].state = "gone" => Spent(j)'
      <4>1. CASE j = i
        BY <1>0, <1>1, <1>2, <2>0, <3>2, <3>3, <4>1 DEF Allowed
      <4>2. CASE j # i
        BY <1>0, <1>1, <1>2, <1>3, <2>0, <3>2, <4>2 DEF StoreInv, Allowed
      <4> QED BY <4>1, <4>2
    <3>5. StoreInv'
      BY <3>4 DEF StoreInv, Allowed
    <3> QED BY <1>7, <2>6, <3>1, <3>5
  <2> QED BY <1>8, <2>1, <2>2, <2>4, <2>5, <2>7, <2>8 DEF OneItem
<1>9. ASSUME NEW r \in Runs, ProcessOutbox(r) PROVE OutboxInv'
  <2>1. /\ \A q \in Runs : q # r => run'[q] = run[q]
        /\ run'[r].stage = "next"
        /\ \A i \in Items : run'[r].copy[i] \in {0, outbox[i].attempts}
    BY <1>0, <1>9, StartType
  <2>2. UNCHANGED <<outbox, fails, faults>>
    BY <1>9 DEF ProcessOutbox
  <2>3. RunInv(r)' /\ DeleteInv(r)'
    BY <1>0, <1>4, <2>1, <2>2 DEF OutboxInv, StoreInv, RunInv, DeleteInv, Allowed
  <2> QED BY <1>6, <1>7, <2>1, <2>2, <2>3
<1>10. ASSUME NEW r \in Runs, Close(r) PROVE OutboxInv'
  <2>1. /\ \A q \in Runs : q # r => run'[q] = run[q]
        /\ run'[r] = Idle /\ UNCHANGED outbox
    BY <1>0, <1>10, EndType DEF Close
  <2>2. RunInv(r)' /\ DeleteInv(r)'
    BY <1>4, <2>1 DEF RunInv, DeleteInv, Idle, Allowed
  <2> QED BY <1>6, <1>7, <2>1, <2>2
<1>11. ASSUME NEW i \in Items, AddToOutbox(i) PROVE OutboxInv'
  <2>1. outbox' = [outbox EXCEPT ![i].state = "queued"] /\ UNCHANGED <<run, fails, accepted, faults>>
    BY <1>11 DEF AddToOutbox
  <2>2. \A j \in Items : outbox'[j].attempts = outbox[j].attempts
                         /\ (outbox'[j].state = "gone" => outbox[j].state = "gone")
    BY <1>0, <2>1 DEF Item
  <2>3. StoreInv'
    BY <2>1, <2>2 DEF OutboxInv, StoreInv, Allowed, Spent
  <2> QED BY <1>5, <2>1, <2>3 DEF OutboxInv
<1>12. ASSUME Elsewhere PROVE OutboxInv'
  BY <1>5, <1>6, <1>12 DEF Elsewhere, OutboxInv
<1> QED BY OutboxStep, <1>8, <1>9, <1>10, <1>11, <1>12
-----------------------------------------------------------------------------
(* What a step does to the gateway.                                         *)

Entering(c) ==
    /\ Pass(c) \/ PassUnchecked(c)
    /\ \E r \in Runs, i \in Items : letter' = [letter EXCEPT ![c] = [run |-> r, item |-> i]]
Answered(c) ==
    /\ \E failed \in BOOLEAN : Respond(c, failed)
    /\ letter' = [letter EXCEPT ![c] = NoLetter]
Recording(c) == (RecordSuccess(c) \/ RecordFailure(c) \/ RecordNothing(c)) /\ UNCHANGED letter
Aging == (Lapse \/ Expire) /\ UNCHANGED letter
Passive ==
    /\ UNCHANGED gatewayVars
    /\ letter' \in [Connections -> Letter]
    /\ \A c \in Connections : letter'[c].item = letter[c].item

LEMMA GatewayStep ==
    ASSUME TypeInv, [Next]_vars
    PROVE  (\E c \in Connections : Entering(c) \/ Answered(c) \/ Recording(c)) \/ Aging \/ Passive
<1> DEFINE Goal == (\E c \in Connections : Entering(c) \/ Answered(c) \/ Recording(c)) \/ Aging \/ Passive
<1>0. letter \in [Connections -> Letter]
  BY DEF TypeInv, TypeOK
<1>1. ASSUME UNCHANGED <<gatewayVars, letter>> PROVE Goal
  BY <1>0, <1>1 DEF Passive
<1>2. ASSUME NEW r \in Runs, RunStep(r) PROVE Goal
  <2>1. PICK i \in Items :
            \/ (Delete(r, i) \/ Put(r, i) \/ StorageFails(r, i)) /\ UNCHANGED <<gatewayVars, letter>>
            \/ SendRefused(r, i) \/ SendNowhere(r, i)
            \/ \E c \in Connections : SendThrough(r, i, c)
    BY <1>2 DEF RunStep
  <2>2. CASE SendRefused(r, i) \/ SendNowhere(r, i)
    BY <1>1, <2>2 DEF SendRefused, SendNowhere, Refuse
  <2>3. ASSUME NEW c \in Connections, SendThrough(r, i, c) PROVE Goal
    <3>1. Entering(c)
      BY <2>3 DEF SendThrough, Entering
    <3> QED BY <3>1
  <2> QED BY <1>1, <2>1, <2>2, <2>3
<1>3. ASSUME NEW c \in Connections, Answer(c) PROVE Goal
  <2>1. Answered(c)
    BY <1>3 DEF Answer, Accept, Reject, Answered
  <2> QED BY <2>1
<1>4. ASSUME NEW c \in Connections, Lose(c) PROVE Goal
  <2>1. letter' = [letter EXCEPT ![c].run = Null] /\ UNCHANGED gatewayVars
    BY <1>4 DEF Lose
  <2>2. Passive
    BY <1>0, <2>1 DEF Passive, Letter
  <2> QED BY <2>2
<1>5. ASSUME NEW c \in Connections, LogPhase(c) PROVE Goal
  BY <1>5 DEF LogPhase, Recording
<1>6. ASSUME NEW r \in Runs, CloseTab(r) PROVE Goal
  <2>1. /\ letter' = [c \in Connections |-> IF letter[c].run = r THEN [letter[c] EXCEPT !.run = Null] ELSE letter[c]]
        /\ UNCHANGED gatewayVars
    BY <1>6 DEF CloseTab
  <2>2. \A c \in Connections : letter'[c] \in Letter /\ letter'[c].item = letter[c].item
    BY <1>0, <2>1 DEF Letter
  <2>3. Passive
    BY <2>1, <2>2 DEF Passive
  <2> QED BY <2>3
<1>7. ASSUME Start PROVE Goal
  BY <1>1, <1>7 DEF Start
<1>8. ASSUME UNCHANGED vars PROVE Goal
  BY <1>1, <1>8 DEF vars, gatewayVars
<1>9. ASSUME (Lapse \/ Expire) /\ UNCHANGED <<outboxVars, letter>> PROVE Goal
  BY <1>9 DEF Aging
<1> HIDE DEF Goal
<1>10. Goal
  BY <1>1, <1>2, <1>3, <1>4, <1>5, <1>6, <1>7, <1>8, <1>9 DEF Next
<1> QED BY <1>10 DEF Goal

\* What the log phase makes of the state s it has seen.
Better(s) == IF s.state = "half-open"
             THEN [state |-> "closed", failures |-> 0, total |-> s.total + 1]
             ELSE [state |-> s.state, failures |-> s.failures, total |-> s.total + 1]
Worse(s) == [state |-> s.state, failures |-> s.failures + 1, total |-> s.total + 1]
Tripped(s) == IF Opens(s) THEN [state |-> "open", failures |-> s.failures, total |-> s.total] ELSE s

LEMMA RecordsForm ==
    ASSUME NEW s \in Circuit
    PROVE  /\ [s EXCEPT !.total = @ + 1] = [state |-> s.state, failures |-> s.failures, total |-> s.total + 1]
           /\ [s EXCEPT !.failures = @ + 1, !.total = @ + 1] = Worse(s)
           /\ [s EXCEPT !.state = "open"] = [state |-> "open", failures |-> s.failures, total |-> s.total]
           /\ Better(s) \in Circuit /\ Worse(s) \in Circuit /\ Tripped(s) \in Circuit
<1>1. [s EXCEPT !.total = @ + 1] = [state |-> s.state, failures |-> s.failures, total |-> s.total + 1]
  BY DEF Circuit
<1>2. [s EXCEPT !.failures = @ + 1, !.total = @ + 1] = Worse(s)
  <2> DEFINE u == [s EXCEPT !.failures = @ + 1]
  <2>1. u = [state |-> s.state, failures |-> s.failures + 1, total |-> s.total]
    BY DEF Circuit
  <2> HIDE DEF u
  <2>2. [u EXCEPT !.total = s.total + 1] = Worse(s)
    BY <2>1 DEF Worse
  <2>3. [s EXCEPT !.failures = @ + 1, !.total = @ + 1] = [u EXCEPT !.total = s.total + 1]
    BY DEF u
  <2> QED BY <2>2, <2>3
<1>3. [s EXCEPT !.state = "open"] = [state |-> "open", failures |-> s.failures, total |-> s.total]
  BY DEF Circuit
<1>4. Better(s) \in Circuit /\ Worse(s) \in Circuit /\ Tripped(s) \in Circuit
  BY DEF Better, Worse, Tripped, Circuit
<1> QED BY <1>1, <1>2, <1>3, <1>4

LEMMA Records ==
    ASSUME TypeInv, NEW c \in Connections, Recording(c)
    PROVE  /\ exchange[c].stage = "log"
           /\ exchange' = [exchange EXCEPT ![c] = Quiet] /\ errors' = errors /\ letter' = letter
           /\ \/ circuit' = circuit
              \/ circuit' = Better(exchange[c].seen)
              \/ exchange[c].failed /\ circuit' = Tripped(Worse(exchange[c].seen))
<1> DEFINE s == exchange[c].seen
<1>1. s \in Circuit
  BY DEF TypeInv, TypeOK, GatewayTypeOK, Exchange
<1>2. /\ [s EXCEPT !.total = @ + 1] = [state |-> s.state, failures |-> s.failures, total |-> s.total + 1]
      /\ [s EXCEPT !.failures = @ + 1, !.total = @ + 1] = Worse(s)
      /\ [Worse(s) EXCEPT !.state = "open"] = [state |-> "open", failures |-> Worse(s).failures, total |-> Worse(s).total]
  BY <1>1, RecordsForm
<1>4. CASE RecordSuccess(c)
  BY <1>2, <1>4 DEF RecordSuccess, Logged, Better, Recording
<1>5. CASE RecordFailure(c)
  <2>1. exchange[c].failed /\ Logged(c, IF Opens(Worse(s)) THEN [Worse(s) EXCEPT !.state = "open"] ELSE Worse(s))
    BY <1>2, <1>5 DEF RecordFailure
  <2> QED BY <1>2, <2>1 DEF Logged, Recording, Tripped
<1>6. CASE RecordNothing(c)
  BY <1>6 DEF RecordNothing, Logged, Recording
<1> QED BY <1>4, <1>5, <1>6 DEF Recording

LEMMA GatewayTypes ==
    ASSUME TypeInv, [Next]_vars
    PROVE  /\ GatewayTypeOK' /\ letter' \in [Connections -> Letter]
           /\ \A c \in Connections : exchange'[c].stage = "upstream" => letter'[c].item \in Items
<1> DEFINE Goal == /\ GatewayTypeOK' /\ letter' \in [Connections -> Letter]
                   /\ \A c \in Connections : exchange'[c].stage = "upstream" => letter'[c].item \in Items
<1>0. /\ circuit \in Circuit /\ exchange \in [Connections -> Exchange] /\ errors \in Nat
      /\ letter \in [Connections -> Letter]
      /\ \A c \in Connections : exchange[c].stage = "upstream" => letter[c].item \in Items
      /\ \A c \in Connections : exchange[c].seen \in Circuit
  BY DEF TypeInv, TypeOK, GatewayTypeOK, Exchange
<1>1. Fresh \in Circuit /\ Quiet \in Exchange /\ Quiet.stage = "idle" /\ NoLetter \in Letter
  BY DEF Fresh, Circuit, Quiet, Exchange, NoLetter, Letter
<1>2. ASSUME NEW c \in Connections, Entering(c) PROVE Goal
  <2>1. PICK r \in Runs, i \in Items : letter' = [letter EXCEPT ![c] = [run |-> r, item |-> i]]
    BY <1>2 DEF Entering
  <2>2. circuit' = circuit /\ errors' = errors
    BY <1>2 DEF Entering, Pass, PassUnchecked
  <2>3. PICK e \in Exchange : exchange' = [exchange EXCEPT ![c] = e]
    <3>1. CASE Pass(c)
      <4>1. [circuit EXCEPT !.state = IF @ = "lapsed" THEN "half-open" ELSE @] \in Circuit
        BY <1>0 DEF Circuit
      <4> QED BY <1>1, <3>1, <4>1 DEF Pass, Exchange
    <3>2. CASE PassUnchecked(c)
      BY <1>0, <3>2 DEF PassUnchecked, Exchange
    <3> QED BY <1>2, <3>1, <3>2 DEF Entering
  <2>4. letter' \in [Connections -> Letter]
    BY <1>0, <2>1 DEF Letter
  <2> QED BY <1>0, <2>1, <2>2, <2>3, <2>4 DEF GatewayTypeOK
<1>3. ASSUME NEW c \in Connections, Answered(c) PROVE Goal
  <2>1. PICK failed \in BOOLEAN : Respond(c, failed)
    BY <1>3 DEF Answered
  <2>2. circuit' = circuit /\ errors' \in Nat
    BY <1>0, <2>1 DEF Respond
  <2>3. PICK e \in Exchange : exchange' = [exchange EXCEPT ![c] = e] /\ e.stage # "upstream"
    <3>1. [exchange[c] EXCEPT !.stage = "log", !.failed = failed] \in Exchange
      BY <1>0 DEF Exchange
    <3>2. [exchange[c] EXCEPT !.stage = "log", !.failed = failed].stage = "log"
      BY <1>0 DEF Exchange
    <3>3. CASE exchange[c].checked
      BY <2>1, <3>1, <3>2, <3>3 DEF Respond
    <3>4. CASE ~exchange[c].checked
      BY <1>1, <2>1, <3>4 DEF Respond
    <3> QED BY <3>3, <3>4
  <2>4. letter' = [letter EXCEPT ![c] = NoLetter]
    BY <1>3 DEF Answered
  <2> QED BY <1>0, <1>1, <2>2, <2>3, <2>4 DEF GatewayTypeOK
<1>4. ASSUME NEW c \in Connections, Recording(c) PROVE Goal
  <2>1. /\ exchange' = [exchange EXCEPT ![c] = Quiet] /\ errors' = errors /\ letter' = letter
    BY <1>4, Records
  <2>2. circuit' \in Circuit
    <3>1. exchange[c].seen \in Circuit
      BY <1>0
    <3>2. Better(exchange[c].seen) \in Circuit /\ Worse(exchange[c].seen) \in Circuit
      BY <3>1, RecordsForm
    <3>3. Tripped(Worse(exchange[c].seen)) \in Circuit
      BY <3>2, RecordsForm
    <3> QED BY <1>0, <1>4, <3>2, <3>3, Records
  <2> QED BY <1>0, <1>1, <2>1, <2>2 DEF GatewayTypeOK
<1>5. ASSUME Aging PROVE Goal
  <2>1. circuit' \in Circuit /\ UNCHANGED <<exchange, errors, letter>>
    BY <1>0, <1>1, <1>5 DEF Aging, Lapse, Expire, Circuit
  <2> QED BY <1>0, <2>1 DEF GatewayTypeOK
<1>6. ASSUME Passive PROVE Goal
  BY <1>0, <1>6 DEF Passive, gatewayVars, GatewayTypeOK
<1> HIDE DEF Goal
<1>7. Goal
  BY GatewayStep, <1>2, <1>3, <1>4, <1>5, <1>6
<1> QED BY <1>7 DEF Goal

\* Counting one more failure does not lower the rate below the threshold.
LEMMA RateGrows ==
    ASSUME NEW n \in Nat, NEW m \in Nat, threshold * n <= 100 * m
    PROVE  threshold * (n + 1) <= 100 * (m + 1)
<1>1. threshold \in Nat /\ threshold <= 100
  BY GatewayAssumption
<1>2. threshold * (n + 1) = threshold * n + threshold
  BY <1>1
<1>3. threshold * n \in Nat
  BY <1>1
<1> QED BY <1>1, <1>2, <1>3

LEMMA GatewayPreserved ==
    ASSUME TypeInv, GatewayInv, [Next]_vars
    PROVE  GatewayInv'
<1>0. /\ circuit \in Circuit /\ exchange \in [Connections -> Exchange] /\ errors \in Nat
      /\ \A c \in Connections : exchange[c].seen \in Circuit /\ exchange[c].failed \in BOOLEAN
      /\ threshold \in Nat /\ minCalls \in Nat /\ MaxTotal \in Nat
  BY GatewayAssumption DEF TypeInv, TypeOK, GatewayTypeOK, Exchange
<1>1. circuit' \in Circuit /\ exchange' \in [Connections -> Exchange] /\ errors' \in Nat
  BY GatewayTypes DEF GatewayTypeOK
<1>2. /\ Fresh.failures = 0 /\ Fresh.total = 0 /\ Fresh.state = "closed"
      /\ Quiet.stage = "idle" /\ Quiet.seen = Fresh
  BY DEF Fresh, Quiet
<1>3. ASSUME errors <= errors'
      PROVE  /\ \A s \in Circuit : Earned(s) => Earned(s)'
             /\ \A c \in Connections : exchange'[c] = exchange[c] => CheckedInv(c)'
  <2>1. \A s \in Circuit : Earned(s) => Earned(s)'
    BY <1>0, <1>1, <1>3 DEF Earned, Circuit
  <2>2. ASSUME NEW c \in Connections, exchange'[c] = exchange[c]
        PROVE  CheckedInv(c)'
    <3>1. CheckedInv(c) /\ exchange[c].seen.failures \in Nat
      BY <1>0 DEF GatewayInv, Circuit
    <3> QED BY <1>0, <1>1, <1>3, <2>2, <3>1 DEF CheckedInv, Earned
  <2> QED BY <2>1, <2>2
<1>4. ASSUME NEW c \in Connections, exchange' = [exchange EXCEPT ![c] = Quiet], errors' = errors,
             Earned(circuit)', circuit'.failures <= circuit'.total
      PROVE  GatewayInv'
  <2>1. CheckedInv(c)'
    BY <1>0, <1>2, <1>4 DEF CheckedInv, Earned
  <2> QED BY <1>0, <1>3, <1>4, <2>1 DEF GatewayInv
<1>5. ASSUME NEW c \in Connections, Entering(c) PROVE GatewayInv'
  <2>1. circuit' = circuit /\ errors' = errors /\ exchange[c] = Quiet
    BY <1>5 DEF Entering, Pass, PassUnchecked
  <2>2. CheckedInv(c)' /\ \A q \in Connections : q # c => exchange'[q] = exchange[q]
    <3>1. CASE Pass(c)
      <4> DEFINE s == [circuit EXCEPT !.state = IF @ = "lapsed" THEN "half-open" ELSE @]
      <4>1. /\ s.failures = circuit.failures /\ s.total = circuit.total
            /\ s.state \notin {"open", "lapsed"}
            /\ s.state # "closed" => circuit.state # "closed"
        BY <1>0, <3>1 DEF Circuit, Pass
      <4>2. Earned(s) /\ s.failures <= s.total
        BY <4>1 DEF GatewayInv, Earned
      <4>3. s.total < MaxTotal
        BY <3>1, <4>1 DEF Pass
      <4>4. exchange' = [exchange EXCEPT ![c] = [Quiet EXCEPT !.stage = "upstream", !.checked = TRUE, !.seen = s]]
        BY <3>1 DEF Pass
      <4> HIDE DEF s
      <4>5. exchange'[c].seen = s /\ exchange'[c].stage = "upstream"
        BY <1>0, <4>4 DEF Quiet
      <4> QED BY <1>0, <2>1, <4>1, <4>2, <4>3, <4>4, <4>5 DEF CheckedInv, Earned
    <3>2. CASE PassUnchecked(c)
      <4>1. exchange' = [exchange EXCEPT ![c].stage = "upstream"]
        BY <3>2 DEF PassUnchecked
      <4>2. /\ exchange'[c].seen = Fresh /\ exchange'[c].stage = "upstream" /\ ~exchange'[c].checked
            /\ \A q \in Connections : q # c => exchange'[q] = exchange[q]
        BY <1>0, <2>1, <4>1 DEF Quiet
      <4> QED BY <1>0, <1>2, <2>1, <4>2 DEF CheckedInv, Earned
    <3> QED BY <1>5, <3>1, <3>2 DEF Entering
  <2> QED BY <1>0, <1>3, <2>1, <2>2 DEF GatewayInv
<1>6. ASSUME NEW c \in Connections, Answered(c) PROVE GatewayInv'
  <2>1. PICK failed \in BOOLEAN : Respond(c, failed)
    BY <1>6 DEF Answered
  <2>2. /\ circuit' = circuit /\ exchange[c].stage = "upstream"
        /\ errors' = IF failed /\ errors < MaxTotal THEN errors + 1 ELSE errors
        /\ errors <= errors'
        /\ \A q \in Connections : q # c => exchange'[q] = exchange[q]
    BY <1>0, <2>1 DEF Respond
  <2>3. CheckedInv(c)'
    <3>1. CheckedInv(c) /\ exchange[c].seen \in Circuit
      BY <1>0 DEF GatewayInv
    <3>2. exchange[c].seen.failures \in Nat /\ exchange[c].seen.total \in Nat
      BY <3>1 DEF Circuit
    <3>3. CASE exchange[c].checked
      <4>1. exchange' = [exchange EXCEPT ![c] = [exchange[c] EXCEPT !.stage = "log", !.failed = failed]]
        BY <2>1, <3>3 DEF Respond
      <4>2. /\ exchange'[c].seen = exchange[c].seen /\ exchange'[c].checked = exchange[c].checked
            /\ exchange'[c].stage = "log" /\ exchange'[c].failed = failed
        BY <1>0, <4>1 DEF Exchange
      <4>3. exchange[c].seen.total < MaxTotal /\ exchange[c].seen.failures <= exchange[c].seen.total
        BY <2>2, <3>1, <3>3 DEF CheckedInv
      <4>4. failed => exchange[c].seen.failures < errors'
        BY <1>0, <2>2, <3>1, <3>2, <4>3 DEF CheckedInv, Earned
      <4> QED BY <1>0, <1>1, <2>2, <3>1, <3>2, <3>3, <4>2, <4>3, <4>4 DEF CheckedInv, Earned
    <3>4. CASE ~exchange[c].checked
      <4>1. exchange' = [exchange EXCEPT ![c] = Quiet]
        BY <2>1, <3>4 DEF Respond
      <4>2. exchange'[c] = Quiet
        BY <1>0, <4>1
      <4> QED BY <1>1, <1>2, <4>2 DEF CheckedInv, Earned
    <3> QED BY <3>3, <3>4
  <2>4. Earned(circuit)'
    BY <1>0, <1>1, <2>2 DEF GatewayInv, Earned, Circuit
  <2> QED BY <1>0, <1>3, <2>2, <2>3, <2>4 DEF GatewayInv
<1>7. ASSUME NEW c \in Connections, Recording(c) PROVE GatewayInv'
  <2>0. PICK s \in Circuit : s = exchange[c].seen
    BY <1>0
  <2>1. /\ s.failures \in Nat /\ s.total \in Nat /\ s.failures <= s.total
        /\ s.state \notin {"open", "lapsed"} /\ Earned(s)
        /\ exchange[c].failed => s.failures < errors
        /\ s.state \in {"closed", "half-open"}
    BY <1>7, <2>0, Records DEF GatewayInv, CheckedInv, Circuit
  <2>2. /\ exchange' = [exchange EXCEPT ![c] = Quiet] /\ errors' = errors
        /\ \/ circuit' = circuit
           \/ circuit' = Better(s)
           \/ exchange[c].failed /\ circuit' = Tripped(Worse(s))
    BY <1>7, <2>0, Records
  <2>3. CASE circuit' = circuit
    BY <1>0, <1>4, <2>2, <2>3 DEF GatewayInv, Earned
  <2>4. CASE circuit' = Better(s)
    <3>1. circuit'.state = "closed" /\ circuit'.failures \in {0, s.failures} /\ circuit'.total = s.total + 1
      BY <2>1, <2>4 DEF Better
    <3>2. Earned(circuit)' /\ circuit'.failures <= circuit'.total
      BY <1>0, <2>1, <2>2, <3>1 DEF Earned
    <3> QED BY <1>4, <2>2, <3>2
  <2>5. CASE exchange[c].failed /\ circuit' = Tripped(Worse(s))
    <3>1. /\ circuit'.failures = s.failures + 1 /\ circuit'.total = s.total + 1
          /\ \/ circuit'.state = s.state
             \/ /\ circuit'.state = "open" /\ minCalls <= circuit'.total
                /\ threshold * circuit'.total <= 100 * circuit'.failures
      BY <2>5 DEF Tripped, Worse, Opens
    <3>2. circuit'.failures <= errors'
      BY <1>0, <2>1, <2>2, <2>5, <3>1
    <3>3. circuit'.failures <= circuit'.total
      BY <2>1, <3>1
    <3>4. ASSUME s.state = "half-open"
          PROVE  minCalls <= s.total + 1 /\ threshold * (s.total + 1) <= 100 * (s.failures + 1)
      <4>1. minCalls <= s.total /\ threshold * s.total <= 100 * s.failures
        BY <2>1, <3>4 DEF Earned
      <4>2. threshold * (s.total + 1) <= 100 * (s.failures + 1)
        BY <2>1, <4>1, RateGrows
      <4>3. minCalls <= s.total + 1
        BY <1>0, <2>1, <4>1
      <4> QED BY <4>2, <4>3
    <3>5. circuit'.state # "closed" =>
              minCalls <= circuit'.total /\ threshold * circuit'.total <= 100 * circuit'.failures
      BY <2>1, <3>1, <3>4
    <3>6. Earned(circuit)'
      BY <3>2, <3>5 DEF Earned
    <3> QED BY <1>4, <2>2, <3>3, <3>6
  <2> QED BY <2>2, <2>3, <2>4, <2>5
<1>8. ASSUME Aging PROVE GatewayInv'
  <2>1. UNCHANGED <<exchange, errors>>
    BY <1>8 DEF Aging, Lapse, Expire
  <2>2. Earned(circuit)' /\ circuit'.failures <= circuit'.total
    <3>1. CASE Lapse
      <4>1. /\ circuit'.failures = circuit.failures /\ circuit'.total = circuit.total
            /\ circuit.state = "open"
        BY <1>0, <3>1 DEF Lapse, Circuit
      <4> QED BY <2>1, <4>1 DEF GatewayInv, Earned
    <3>2. CASE Expire
      BY <1>0, <1>2, <2>1, <3>2 DEF Expire, Earned
    <3> QED BY <1>8, <3>1, <3>2 DEF Aging
  <2> QED BY <1>0, <1>3, <2>1, <2>2 DEF GatewayInv
<1>9. ASSUME Passive PROVE GatewayInv'
  <2>1. UNCHANGED <<circuit, exchange, errors>>
    BY <1>9 DEF Passive, gatewayVars
  <2> QED BY <1>0, <1>3, <2>1 DEF GatewayInv, Earned
<1> QED BY GatewayStep, <1>5, <1>6, <1>7, <1>8, <1>9
-----------------------------------------------------------------------------
(* The theorems.                                                            *)

LEMMA Initially ==
    ASSUME Init
    PROVE  TypeInv /\ OutboxInv /\ GatewayInv
<1>1. Fresh \in Circuit /\ Quiet \in Exchange /\ NoLetter \in Letter /\ Idle \in Run
  BY DEF Fresh, Circuit, Quiet, Exchange, NoLetter, Letter, Idle, Run
<1>2. TypeInv
  BY <1>1 DEF Init, GatewayInit, OutboxInit, TypeInv, TypeOK, GatewayTypeOK, OutboxTypeOK, Item, Idle, Quiet
<1>3. OutboxInv
  BY OutboxAssumption
     DEF Init, OutboxInit, OutboxInv, StoreInv, RunInv, DeleteInv, Allowed, Idle
<1>4. GatewayInv
  BY DEF Init, GatewayInit, GatewayInv, CheckedInv, Earned, Fresh, Quiet
<1> QED BY <1>2, <1>3, <1>4

LEMMA Inductive == Spec => [](TypeInv /\ OutboxInv /\ GatewayInv)
<1>1. TypeInv /\ OutboxInv /\ GatewayInv /\ [Next]_vars => (TypeInv /\ OutboxInv /\ GatewayInv)'
  BY OutboxTypes, GatewayTypes, OutboxPreserved, GatewayPreserved DEF TypeInv, TypeOK
<1> QED BY <1>1, Initially, PTL DEF Spec

\* The object store, the runs, the hash and the requests keep their types, and
\* a run is idle exactly when it has nothing left to do.
THEOREM SyncTypes == Spec => []TypeOK
<1>1. TypeInv => TypeOK
  BY DEF TypeInv
<1> QED BY <1>1, Inductive, PTL

\* The breaker is not closed only after enough real failures, for any number
\* of requests that overlap.
THEOREM EarnedOpenAlways == Spec => []EarnedOpen
<1>1. GatewayInv => EarnedOpen
  BY DEF GatewayInv, EarnedOpen
<1> QED BY <1>1, Inductive, PTL

\* No item leaves the outbox before it was accepted or sent often enough, for
\* any number of items and of runs that overlap.
THEOREM NothingLostAlways == Spec => []NothingLost
<1>1. OutboxInv => NothingLost
  BY DEF OutboxInv, StoreInv, NothingLost, Spent
<1> QED BY <1>1, Inductive, PTL
=============================================================================
