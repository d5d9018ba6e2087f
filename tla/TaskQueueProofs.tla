--------------------------- MODULE TaskQueueProofs ---------------------------
(* Theorems about TaskQueue, for any numbers of jobs, workers, attempts,   *)
(* seconds and faults.                                                     *)
EXTENDS TaskQueue, TLAPS

(* The back-off of fail_task is a whole number of seconds. *)
LEMMA RetryDelayIsNat ==
  ASSUME NEW n \in Nat
  PROVE  RetryDelay(n) \in Nat
  <1>1. CASE n <= 1
    BY <1>1 DEF RetryDelay
  <1>2. CASE n >= 9
    BY <1>2 DEF RetryDelay
  <1>3. CASE n \in 2..8
    <2>1. n = 2 \/ n = 3 \/ n = 4 \/ n = 5 \/ n = 6 \/ n = 7 \/ n = 8
      BY <1>3
    <2>2. QED
      BY <2>1 DEF RetryDelay
  <1>4. QED
    BY <1>1, <1>2, <1>3

(* locked_by is one of the names a worker was given, or blank. *)
LEMMA NamesAreNames ==
  NoName \in Names /\ \A w \in Workers : WorkerName[w] \in Names
  BY DEF Names

(* Every row the code writes is a row. *)
LEMMA NewRowIsRow ==
  ASSUME TypeOK
  PROVE  NewRow \in Row
  BY NamesAreNames, MaxAttemptsAssumption, BoundsAssumption
  DEF TypeOK, Row, Statuses, NewRow

LEMMA ClaimedRowIsRow ==
  ASSUME NEW r \in Row, NEW w \in Workers, r.attempts < MaxAttempts
  PROVE  /\ ClaimedRow(r, w) \in Row
         /\ ClaimedRow(r, w).status = "running"
         /\ ClaimedRow(r, w).attempts = r.attempts + 1
  <1>1. r.attempts + 1 \in 0..MaxAttempts
    BY MaxAttemptsAssumption DEF Row
  <1>2. ASSUME NEW n \in 0..MaxAttempts
        PROVE  [r EXCEPT !.status = "running", !.lockedBy = WorkerName[w],
                         !.attempts = n, !.error = FALSE] \in Row
    BY NamesAreNames DEF Row, Statuses
  <1>3. /\ ClaimedRow(r, w).status = "running"
        /\ ClaimedRow(r, w).attempts = r.attempts + 1
    BY DEF Row, ClaimedRow
  <1>4. QED
    BY <1>1, <1>2, <1>3 DEF ClaimedRow

LEMMA CompletedRowIsRow ==
  ASSUME NEW r \in Row
  PROVE  /\ CompletedRow(r) \in Row
         /\ CompletedRow(r).status = "completed"
         /\ CompletedRow(r).attempts = r.attempts
  BY NamesAreNames DEF Row, CompletedRow, Statuses

LEMMA FailedRowIsRow ==
  ASSUME TypeOK, NEW r \in Row
  PROVE  /\ FailedRow(r) \in Row
         /\ FailedRow(r).attempts = r.attempts
         /\ FailedRow(r).status = IF r.attempts < MaxAttempts THEN "pending"
                                                             ELSE "failed"
  <1>1. clock + RetryDelay(r.attempts) \in Nat
    <2>1. r.attempts \in Nat
      BY MaxAttemptsAssumption DEF Row
    <2>2. QED
      BY <2>1, RetryDelayIsNat, BoundsAssumption DEF TypeOK
  <1>2. ASSUME NEW n \in Nat
        PROVE  [r EXCEPT !.status = "pending", !.lockedBy = NoName,
                         !.error = TRUE, !.availableAt = n] \in Row
    BY NamesAreNames DEF Row, Statuses
  <1>3. RetriedRow(r) \in Row
    BY <1>1, <1>2 DEF RetriedRow
  <1>4. [r EXCEPT !.status = "failed", !.lockedBy = NoName, !.error = TRUE] \in Row
    BY NamesAreNames DEF Row, Statuses
  <1>5. Exhausted(r) <=> ~(r.attempts < MaxAttempts)
    BY MaxAttemptsAssumption DEF Exhausted, Row
  <1>6. CASE r.attempts < MaxAttempts
    BY <1>3, <1>5, <1>6 DEF FailedRow, RetriedRow, Row
  <1>7. CASE ~(r.attempts < MaxAttempts)
    BY <1>4, <1>5, <1>7 DEF FailedRow, Row
  <1>8. QED
    BY <1>6, <1>7

(* The initial state satisfies the inductive invariant. *)
LEMMA InitInvariant == Init => IInv
  <1>1. SUFFICES ASSUME Init PROVE IInv
    OBVIOUS
  <1>2. TypeOK
    BY <1>1, MaxAttemptsAssumption, BoundsAssumption
    DEF Init, TypeOK, Row, AbsentRow, Statuses, Names, Points
  <1>3. \A j \in Jobs : LedgerOf(j)
    BY <1>1 DEF Init, LedgerOf, AbsentRow
  <1>4. \A w \in Workers : GripOf(w)
    BY <1>1 DEF Init, GripOf, Holding
  <1>5. AtMostOneHolder
    BY <1>1 DEF Init, AtMostOneHolder, Holds, Holding
  <1>6. RunningRowsAreHeld
    BY <1>1 DEF Init, RunningRowsAreHeld, AbsentRow
  <1>7. QED
    BY <1>2, <1>3, <1>4, <1>5, <1>6 DEF IInv

(* Insertion of a row (enqueue_task). *)
LEMMA EnqueueInvariant ==
  ASSUME IInv, NEW j \in Jobs, Enqueue(j)
  PROVE  IInv'
  <1> USE DEF Enqueue
  <1>0. NewRow \in Row /\ NewRow.status = "pending" /\ NewRow.attempts = 0
    BY NewRowIsRow DEF IInv, NewRow
  <1>1. TypeOK'
    BY <1>0 DEF IInv, TypeOK
  <1>2. \A w \in Workers : pc[w] \in Holding => pick[w] # j
    BY DEF IInv, GripOf
  <1>3. ASSUME NEW k \in Jobs PROVE LedgerOf(k)'
    <2>1. LedgerOf(k) /\ successes' = successes /\ raises' = raises
      BY DEF IInv
    <2>2. CASE k = j
      <3>1. row'[k] = NewRow /\ row[k].status = "absent"
        BY <2>2 DEF IInv, TypeOK
      <3>2. QED
        <4>1. /\ row'[k].status = "pending" /\ row'[k].attempts = 0
              /\ successes'[k] = 0 /\ raises'[k] = 0
          BY <1>0, <2>1, <3>1 DEF LedgerOf
        <4>2. QED
          BY <4>1, MaxAttemptsAssumption DEF LedgerOf
    <2>3. CASE k # j
      <3>1. row'[k] = row[k]
        BY <2>3 DEF IInv, TypeOK
      <3>2. QED
        BY <2>1, <3>1 DEF LedgerOf
    <2>4. QED
      BY <2>2, <2>3
  <1>4. \A w \in Workers : GripOf(w)'
    BY <1>2 DEF IInv, TypeOK, GripOf, Holding
  <1>5. AtMostOneHolder'
    BY DEF IInv, AtMostOneHolder, Holds
  <1>6. RunningRowsAreHeld'
    BY DEF IInv, TypeOK, RunningRowsAreHeld, Holds, NewRow, AbsentRow
  <1>7. QED
    BY <1>1, <1>3, <1>4, <1>5, <1>6 DEF IInv

(* A cycle's clock reading, row selection and fruitless claim leave every  *)
(* row and every held task alone.                                          *)
LEMMA SearchInvariant ==
  ASSUME IInv, NEW w \in Workers, Poll(w) \/ Select(w) \/ ClaimLost(w)
  PROVE  IInv'
  <1> USE DEF Poll, Select, ClaimLost, Approach
  <1>1. pc[w] \notin Holding /\ pc'[w] \notin Holding /\ UNCHANGED <<row, copy, faults, successes, raises>>
    BY DEF IInv, TypeOK, Holding
  <1>2. \A v \in Workers \ {w} : pc'[v] = pc[v] /\ pick'[v] = pick[v]
    BY DEF IInv, TypeOK
  <1>3. TypeOK'
    BY DEF IInv, TypeOK, Points, FirstOf, Due
  <1>4. \A k \in Jobs : LedgerOf(k)'
    BY <1>1 DEF IInv, LedgerOf
  <1>5. pc'[w] = "selected" => pick'[w] \in Jobs
    BY DEF IInv, TypeOK, FirstOf, Due
  <1>6. \A v \in Workers : GripOf(v)'
    BY <1>1, <1>2, <1>5 DEF IInv, GripOf
  <1>7. AtMostOneHolder'
    BY <1>1, <1>2 DEF IInv, AtMostOneHolder, Holds
  <1>8. RunningRowsAreHeld'
    BY <1>1, <1>2 DEF IInv, RunningRowsAreHeld, Holds
  <1>9. QED
    BY <1>3, <1>4, <1>6, <1>7, <1>8 DEF IInv

(* The other workers' grips survive a step that changes, of rows and       *)
(* histories, at most those of a job only w holds or no worker holds.      *)
LEMMA OthersKeepGrip ==
  ASSUME IInv, NEW w \in Workers, NEW j \in Jobs,
         \A v \in Workers \ {w} : ~Holds(v, j),
         \A v \in Workers \ {w} :
           pc'[v] = pc[v] /\ pick'[v] = pick[v] /\ copy'[v] = copy[v],
         \A k \in Jobs \ {j} :
           /\ row'[k] = row[k]
           /\ successes'[k] = successes[k]
           /\ raises'[k] = raises[k]
  PROVE  \A v \in Workers \ {w} : GripOf(v)'
  <1>1. SUFFICES ASSUME NEW v \in Workers \ {w}
                 PROVE  GripOf(v)'
    OBVIOUS
  <1>2. GripOf(v)
    BY DEF IInv
  <1>3. CASE pc[v] \in Holding
    <2>1. pick[v] \in Jobs \ {j}
      BY <1>2, <1>3 DEF GripOf, Holds
    <2>2. QED
      BY <1>2, <1>3, <2>1 DEF GripOf
  <1>4. CASE pc[v] \notin Holding
    BY <1>2, <1>4 DEF GripOf
  <1>5. QED
    BY <1>3, <1>4

(* The ledgers of the jobs a step leaves alone. *)
LEMMA OthersKeepLedger ==
  ASSUME IInv, NEW j \in Jobs,
         \A k \in Jobs \ {j} :
           /\ row'[k] = row[k]
           /\ successes'[k] = successes[k]
           /\ raises'[k] = raises[k]
  PROVE  \A k \in Jobs \ {j} : LedgerOf(k)'
  BY DEF IInv, LedgerOf

(* claim_next_task's update of a row that is still pending. *)
LEMMA ClaimInvariant ==
  ASSUME IInv, NEW w \in Workers, Claim(w)
  PROVE  IInv'
  <1>0. PICK j \in Jobs : j = pick[w]
    BY DEF IInv, GripOf, Claim
  <1> DEFINE r == ClaimedRow(row[j], w)
  <1>1. j = pick[w] /\ pc[w] = "selected" /\ row[j] \in Row /\ row[j].status = "pending"
    BY <1>0 DEF IInv, TypeOK, Claim, StillClaimable, Claimable
  <1>2. /\ row[j].attempts < MaxAttempts
        /\ successes[j] = 0 /\ raises[j] = row[j].attempts
    BY <1>1 DEF IInv, LedgerOf
  <1>3. r \in Row /\ r.status = "running" /\ r.attempts = row[j].attempts + 1
    BY <1>1, <1>2, ClaimedRowIsRow
  <1>4. /\ row' = [row EXCEPT ![j] = r]
        /\ copy' = [copy EXCEPT ![w] = r]
        /\ pc' = [pc EXCEPT ![w] = "running"]
        /\ rest' = [rest EXCEPT ![w] = {}]
        /\ UNCHANGED <<clock, now, pick, faults, successes, raises>>
    BY <1>1 DEF Claim
  <1>5. TypeOK'
    BY <1>1, <1>3, <1>4 DEF IInv, TypeOK, Points, Holding
  <1>6. \A v \in Workers : ~Holds(v, j)
    BY <1>1 DEF IInv, GripOf, Holds
  <1>7. row'[j] = r /\ copy'[w] = r /\ pc'[w] = "running"
    BY <1>1, <1>4 DEF IInv, TypeOK
  <1>8. \A k \in Jobs \ {j} : row'[k] = row[k]
    BY <1>1, <1>4 DEF IInv, TypeOK
  <1>9. \A v \in Workers \ {w} : pc'[v] = pc[v] /\ copy'[v] = copy[v]
    BY <1>4 DEF IInv, TypeOK
  <1>10. \A k \in Jobs : LedgerOf(k)'
    <2>1. \A k \in Jobs \ {j} : LedgerOf(k)'
      BY <1>1, <1>4, <1>8, OthersKeepLedger
    <2>2. LedgerOf(j)'
      <3>1. /\ row'[j].status = "running"
            /\ row'[j].attempts = row[j].attempts + 1
            /\ successes'[j] = 0 /\ raises'[j] = row[j].attempts
        BY <1>2, <1>3, <1>4, <1>7
      <3>2. row[j].attempts \in Nat
        BY <1>1, MaxAttemptsAssumption DEF Row
      <3>3. QED
        BY <3>1, <3>2 DEF LedgerOf
    <2>3. QED
      BY <2>1, <2>2
  <1>11. \A v \in Workers : GripOf(v)'
    <2>1. \A v \in Workers \ {w} : GripOf(v)'
      BY <1>1, <1>4, <1>6, <1>8, <1>9, OthersKeepGrip
    <2>2. GripOf(w)'
      BY <1>1, <1>2, <1>3, <1>4, <1>7 DEF GripOf, Holding, Row
    <2>3. QED
      BY <2>1, <2>2
  <1>12. AtMostOneHolder'
    <2>1. \A v \in Workers \ {w}, k \in Jobs : Holds(v, k)' => Holds(v, k) /\ k # j
      BY <1>4, <1>6, <1>9 DEF Holds
    <2>2. \A k \in Jobs : Holds(w, k)' => k = j
      BY <1>1, <1>4 DEF Holds
    <2>3. QED
      BY <2>1, <2>2 DEF IInv, AtMostOneHolder
  <1>13. RunningRowsAreHeld'
    BY <1>1, <1>4, <1>7, <1>8, <1>9 DEF IInv, RunningRowsAreHeld, Holds, Holding
  <1>14. QED
    BY <1>5, <1>10, <1>11, <1>12, <1>13 DEF IInv

(* The handler returned or raised: only histories change. *)
LEMMA HandlerInvariant ==
  ASSUME IInv, NEW w \in Workers, HandlerReturns(w) \/ HandlerRaises(w)
  PROVE  IInv'
  <1>0. PICK j \in Jobs : j = pick[w]
    BY DEF IInv, GripOf, Holding, HandlerReturns, HandlerRaises
  <1>1. /\ j = pick[w] /\ pc[w] = "running" /\ row[j].status = "running"
        /\ copy[w] = row[j] /\ successes[j] = 0 /\ raises[j] + 1 = row[j].attempts
    BY <1>0 DEF IInv, GripOf, Holding, HandlerReturns, HandlerRaises
  <1>2. UNCHANGED <<clock, row, now, pick, rest, copy, faults>>
    BY DEF HandlerReturns, HandlerRaises
  <1>3. /\ pc'[w] \in {"returned", "raised"}
        /\ \A v \in Workers \ {w} : pc'[v] = pc[v]
    BY DEF IInv, TypeOK, HandlerReturns, HandlerRaises
  <1>4. \A k \in Jobs \ {j} : successes'[k] = successes[k] /\ raises'[k] = raises[k]
    BY <1>1 DEF IInv, TypeOK, HandlerReturns, HandlerRaises
  <1>5. \/ pc'[w] = "returned" /\ successes'[j] = 1 /\ raises'[j] = raises[j]
        \/ pc'[w] = "raised" /\ successes'[j] = 0 /\ raises'[j] = raises[j] + 1
    BY <1>1 DEF IInv, TypeOK, HandlerReturns, HandlerRaises
  <1>6. row[j].attempts \in Nat /\ raises[j] \in Nat
    BY <1>1, MaxAttemptsAssumption DEF IInv, TypeOK, Row
  <1>7. TypeOK'
    BY <1>1, <1>2 DEF IInv, TypeOK, Points, Holding, HandlerReturns, HandlerRaises
  <1>8. \A v \in Workers \ {w} : ~Holds(v, j)
    BY <1>1 DEF IInv, AtMostOneHolder, Holds, Holding
  <1>9. \A k \in Jobs : LedgerOf(k)'
    <2>1. \A k \in Jobs \ {j} : LedgerOf(k)'
      BY <1>1, <1>2, <1>4, OthersKeepLedger
    <2>2. LedgerOf(j)'
      BY <1>1, <1>2, <1>5, <1>6 DEF LedgerOf
    <2>3. QED
      BY <2>1, <2>2
  <1>10. \A v \in Workers : GripOf(v)'
    <2>1. \A v \in Workers \ {w} : GripOf(v)'
      BY <1>1, <1>2, <1>3, <1>4, <1>8, OthersKeepGrip
    <2>2. GripOf(w)'
      BY <1>1, <1>2, <1>5, <1>6 DEF GripOf, Holding
    <2>3. QED
      BY <2>1, <2>2
  <1>11. AtMostOneHolder'
    <2>1. \A v \in Workers, k \in Jobs : Holds(v, k)' => Holds(v, k)
      BY <1>1, <1>2, <1>3 DEF Holds, Holding
    <2>2. QED
      BY <2>1 DEF IInv, AtMostOneHolder
  <1>12. RunningRowsAreHeld'
    BY <1>1, <1>2, <1>3 DEF IInv, RunningRowsAreHeld, Holds, Holding
  <1>13. QED
    BY <1>7, <1>9, <1>10, <1>11, <1>12 DEF IInv

(* complete_task and fail_task: the held row settles or is queued again. *)
LEMMA OutcomeInvariant ==
  ASSUME IInv, NEW w \in Workers, CompleteTask(w) \/ FailTask(w)
  PROVE  IInv'
  <1>0. PICK j \in Jobs : j = pick[w]
    BY DEF IInv, GripOf, Holding, CompleteTask, FailTask
  <1> DEFINE r == IF pc[w] = "returned" THEN CompletedRow(copy[w])
                                        ELSE FailedRow(copy[w])
  <1>1. /\ j = pick[w] /\ pc[w] \in {"returned", "raised"}
        /\ row[j].status = "running" /\ copy[w] = row[j] /\ row[j] \in Row
    BY <1>0 DEF IInv, TypeOK, GripOf, Holding, CompleteTask, FailTask
  <1>2. /\ pc[w] = "returned" => successes[j] = 1 /\ raises[j] + 1 = row[j].attempts
        /\ pc[w] = "raised" => successes[j] = 0 /\ raises[j] = row[j].attempts
    BY <1>1 DEF IInv, GripOf, Holding
  <1>3. /\ row' = [row EXCEPT ![j] = r]
        /\ pc' = [pc EXCEPT ![w] = "idle"]
        /\ pick' = [pick EXCEPT ![w] = NoJob]
        /\ rest' = [rest EXCEPT ![w] = {}]
        /\ copy' = [copy EXCEPT ![w] = AbsentRow]
        /\ UNCHANGED <<clock, now, faults, successes, raises>>
    BY <1>1 DEF CompleteTask, FailTask, Release
  <1>4. /\ r \in Row /\ r.attempts = row[j].attempts
        /\ pc[w] = "returned" => r.status = "completed"
        /\ pc[w] = "raised" => r.status = IF row[j].attempts < MaxAttempts
                                         THEN "pending" ELSE "failed"
    BY <1>1, CompletedRowIsRow, FailedRowIsRow DEF IInv
  <1>5. AbsentRow \in Row
    BY NamesAreNames, MaxAttemptsAssumption DEF AbsentRow, Row, Statuses
  <1>6. TypeOK'
    BY <1>1, <1>3, <1>4, <1>5 DEF IInv, TypeOK, Points
  <1>7. row'[j] = r /\ pc'[w] = "idle" /\ pick'[w] = NoJob
    BY <1>1, <1>3 DEF IInv, TypeOK
  <1>8. /\ \A k \in Jobs \ {j} : row'[k] = row[k]
        /\ \A v \in Workers \ {w} : /\ pc'[v] = pc[v]
                                     /\ pick'[v] = pick[v]
                                     /\ copy'[v] = copy[v]
    BY <1>1, <1>3 DEF IInv, TypeOK
  <1>9. \A v \in Workers \ {w} : ~Holds(v, j)
    BY <1>1 DEF IInv, AtMostOneHolder, Holds, Holding
  <1>10. \A k \in Jobs : LedgerOf(k)'
    <2>1. \A k \in Jobs \ {j} : LedgerOf(k)'
      BY <1>1, <1>3, <1>8, OthersKeepLedger
    <2>2. /\ row[j].attempts \in 0..MaxAttempts /\ raises[j] \in Nat
          /\ successes'[j] = successes[j] /\ raises'[j] = raises[j]
          /\ row'[j].attempts = row[j].attempts /\ row'[j].status = r.status
      BY <1>1, <1>3, <1>4, <1>7 DEF IInv, TypeOK, Row
    <2>3. CASE pc[w] = "returned"
      BY <1>2, <1>4, <2>1, <2>2, <2>3, MaxAttemptsAssumption DEF LedgerOf
    <2>4. CASE pc[w] = "raised" /\ row[j].attempts < MaxAttempts
      BY <1>2, <1>4, <2>1, <2>2, <2>4, MaxAttemptsAssumption DEF LedgerOf
    <2>5. CASE pc[w] = "raised" /\ ~(row[j].attempts < MaxAttempts)
      BY <1>2, <1>4, <2>1, <2>2, <2>5, MaxAttemptsAssumption DEF LedgerOf
    <2>6. QED
      BY <1>1, <2>1, <2>3, <2>4, <2>5
  <1>11. \A v \in Workers : GripOf(v)'
    <2>1. \A v \in Workers \ {w} : GripOf(v)'
      BY <1>1, <1>3, <1>8, <1>9, OthersKeepGrip
    <2>2. GripOf(w)'
      BY <1>7 DEF GripOf, Holding
    <2>3. QED
      BY <2>1, <2>2
  <1>12. AtMostOneHolder'
    BY <1>7, <1>8 DEF IInv, AtMostOneHolder, Holds, Holding
  <1>13. RunningRowsAreHeld'
    <2>1. SUFFICES ASSUME faults = 0, NEW k \in Jobs, row'[k].status = "running"
                   PROVE  \E v \in Workers : Holds(v, k)'
      BY <1>3 DEF RunningRowsAreHeld
    <2>2. k # j
      BY <1>1, <1>4, <1>7, <2>1
    <2>3. PICK v \in Workers : Holds(v, k)
      BY <1>8, <2>1, <2>2 DEF IInv, RunningRowsAreHeld
    <2>4. v # w
      BY <1>1, <2>2, <2>3 DEF Holds
    <2>5. QED
      BY <1>8, <2>3, <2>4 DEF Holds
  <1>14. QED
    BY <1>6, <1>10, <1>11, <1>12, <1>13 DEF IInv

(* A failed final save or the death of the process drops the task object. *)
LEMMA FaultInvariant ==
  ASSUME IInv, NEW w \in Workers, SaveRaises(w) \/ Crash(w)
  PROVE  IInv'
  <1>1. /\ faults < MaxFaults /\ faults' = faults + 1
        /\ UNCHANGED <<clock, row, now, successes, raises>>
    BY DEF SaveRaises, Crash
  <1>2. \E point \in {"idle", "down"} : pc' = [pc EXCEPT ![w] = point]
    BY DEF SaveRaises, Crash, Release
  <1>3. /\ pick' = [pick EXCEPT ![w] = NoJob]
        /\ rest' = [rest EXCEPT ![w] = {}]
        /\ copy' = [copy EXCEPT ![w] = AbsentRow]
    BY DEF SaveRaises, Crash, Release
  <1>4. AbsentRow \in Row
    BY NamesAreNames, MaxAttemptsAssumption DEF AbsentRow, Row, Statuses
  <1>5. TypeOK'
    BY <1>1, <1>2, <1>3, <1>4, BoundsAssumption DEF IInv, TypeOK, Points
  <1>6. /\ pc'[w] \in {"idle", "down"} /\ pick'[w] = NoJob
        /\ \A v \in Workers \ {w} : /\ pc'[v] = pc[v]
                                     /\ pick'[v] = pick[v]
                                     /\ copy'[v] = copy[v]
    BY <1>2, <1>3 DEF IInv, TypeOK
  <1>7. \A k \in Jobs : LedgerOf(k)'
    BY <1>1 DEF IInv, LedgerOf
  <1>8. \A v \in Workers : GripOf(v)'
    BY <1>1, <1>6 DEF IInv, GripOf, Holding
  <1>9. AtMostOneHolder'
    BY <1>6 DEF IInv, AtMostOneHolder, Holds, Holding
  <1>10. faults' # 0
    BY <1>1 DEF IInv, TypeOK
  <1>11. RunningRowsAreHeld'
    BY <1>10 DEF RunningRowsAreHeld
  <1>12. QED
    BY <1>5, <1>7, <1>8, <1>9, <1>11 DEF IInv

(* Restarting a process and the passing of time touch no row. *)
LEMMA EnvironmentInvariant ==
  ASSUME IInv, Tick \/ \E w \in Workers : Restart(w)
  PROVE  IInv'
  <1>1. CASE Tick
    <2>1. TypeOK'
      BY <1>1, BoundsAssumption DEF Tick, IInv, TypeOK
    <2>2. UNCHANGED <<row, pc, pick, rest, copy, faults, successes, raises>>
      BY <1>1 DEF Tick
    <2>3. QED
      BY <2>1, <2>2
      DEF IInv, LedgerOf, GripOf, AtMostOneHolder, Holds, RunningRowsAreHeld
  <1>2. ASSUME NEW w \in Workers, Restart(w)
        PROVE  IInv'
    <2>1. /\ pc[w] = "down" /\ pc'[w] = "idle"
          /\ \A v \in Workers \ {w} : pc'[v] = pc[v]
          /\ UNCHANGED <<clock, row, now, pick, rest, copy, faults, successes, raises>>
      BY <1>2 DEF Restart, IInv, TypeOK
    <2>2. TypeOK'
      BY <1>2 DEF Restart, IInv, TypeOK, Points
    <2>3. \A k \in Jobs : LedgerOf(k)'
      BY <2>1 DEF IInv, LedgerOf
    <2>4. \A v \in Workers : GripOf(v)'
      BY <2>1 DEF IInv, GripOf, Holding
    <2>5. AtMostOneHolder' /\ RunningRowsAreHeld'
      BY <2>1 DEF IInv, AtMostOneHolder, RunningRowsAreHeld, Holds, Holding
    <2>6. QED
      BY <2>2, <2>3, <2>4, <2>5 DEF IInv
  <1>3. QED
    BY <1>1, <1>2

(* Every step preserves the inductive invariant. *)
LEMMA NextInvariant == IInv /\ [Next]_vars => IInv'
  <1>1. SUFFICES ASSUME IInv, [Next]_vars
                 PROVE  IInv'
    OBVIOUS
  <1>2. CASE \E j \in Jobs : Enqueue(j)
    BY <1>1, <1>2, EnqueueInvariant
  <1>3. ASSUME NEW w \in Workers, Cycle(w)
        PROVE  IInv'
    BY <1>1, <1>3, SearchInvariant, ClaimInvariant, HandlerInvariant,
       OutcomeInvariant DEF Cycle
  <1>4. ASSUME NEW w \in Workers, SaveRaises(w) \/ Crash(w)
        PROVE  IInv'
    BY <1>1, <1>4, FaultInvariant
  <1>5. CASE Tick \/ \E w \in Workers : Restart(w)
    BY <1>1, <1>5, EnvironmentInvariant
  <1>6. CASE UNCHANGED vars
    BY <1>1, <1>6
    DEF vars, IInv, TypeOK, LedgerOf, GripOf, AtMostOneHolder, Holds,
        RunningRowsAreHeld
  <1>7. QED
    BY <1>1, <1>2, <1>3, <1>4, <1>5, <1>6 DEF Next

(* The inductive invariant holds in every reachable state of the queue. *)
THEOREM InductiveInvariant == Spec => []IInv
  BY InitInvariant, NextInvariant, PTL DEF Spec

(* Type correctness of the rows, the workers and the histories. *)
THEOREM TypeCorrect == Spec => []TypeOK
  <1>1. IInv => TypeOK
    BY DEF IInv
  <1>2. QED
    BY <1>1, InductiveInvariant, PTL

(* No two workers run the same job: claim_next_task's row lock suffices. *)
THEOREM MutualExclusion == Spec => []AtMostOneHolder
  <1>1. IInv => AtMostOneHolder
    BY DEF IInv
  <1>2. QED
    BY <1>1, InductiveInvariant, PTL

(* The whole-object saves of complete_task and fail_task lose no update. *)
THEOREM NoLostUpdate == Spec => []HeldCopyIsCurrent
  <1>1. IInv => HeldCopyIsCurrent
    BY DEF IInv, GripOf, HeldCopyIsCurrent
  <1>2. QED
    BY <1>1, InductiveInvariant, PTL

(* A worker that runs a job has it to itself, row and copy. *)
THEOREM HoldingIsExclusive == Spec => []HeldExclusively
  BY MutualExclusion, NoLostUpdate, PTL DEF HeldExclusively

(* A handler's successful run is never repeated, whatever fails after it. *)
THEOREM SuccessIsNotRepeated == Spec => []SucceedsAtMostOnce
  <1>1. IInv => SucceedsAtMostOnce
    <2>1. SUFFICES ASSUME IInv, NEW j \in Jobs
                   PROVE  /\ successes[j] <= 1
                          /\ successes[j] = 1 => row[j].status \in {"running", "completed"}
      BY DEF SucceedsAtMostOnce
    <2>2. LedgerOf(j) /\ row[j].status \in Statuses
      BY <2>1 DEF IInv, TypeOK, Row
    <2>3. QED
      BY <2>2 DEF LedgerOf, Statuses
  <1>2. QED
    BY <1>1, InductiveInvariant, PTL

(* A job fails for good only after max_attempts runs that all raised. *)
THEOREM GivesUpLast == Spec => []GivenUpOnlyWhenExhausted
  <1>1. IInv => GivenUpOnlyWhenExhausted
    <2>1. SUFFICES ASSUME IInv, NEW j \in Jobs
                   PROVE  /\ successes[j] + raises[j] <= row[j].attempts
                          /\ row[j].attempts <= MaxAttempts
                          /\ row[j].status = "failed" => raises[j] = MaxAttempts /\ successes[j] = 0
      BY DEF GivenUpOnlyWhenExhausted
    <2>2. /\ LedgerOf(j) /\ row[j].status \in Statuses
          /\ row[j].attempts \in 0..MaxAttempts
          /\ successes[j] \in Nat /\ raises[j] \in Nat
      BY <2>1 DEF IInv, TypeOK, Row
    <2>3. QED
      BY <2>2, MaxAttemptsAssumption DEF LedgerOf, Statuses
  <1>2. QED
    BY <1>1, InductiveInvariant, PTL

(* Without faults no row is left marked running by nobody. *)
THEOREM NoOrphanWithoutFault == Spec => []RunningRowsAreHeld
  <1>1. IInv => RunningRowsAreHeld
    BY DEF IInv
  <1>2. QED
    BY <1>1, InductiveInvariant, PTL

-----------------------------------------------------------------------------
(* Action properties and the implementation of the life cycle. *)

(* Steps of the queue that may write the row of j, seen from j. *)
LEMMA RowSteps ==
  ASSUME IInv, [Next]_vars, NEW j \in Jobs, row'[j] # row[j]
  PROVE  \/ row[j].status = "absent" /\ row'[j] = NewRow
         \/ \E w \in Workers :
              /\ row[j].status = "pending" /\ row[j].availableAt <= now[w]
              /\ row'[j] = ClaimedRow(row[j], w)
         \/ row[j].status = "running" /\ row'[j] = CompletedRow(row[j])
         \/ row[j].status = "running" /\ row'[j] = FailedRow(row[j])
  <1>1. row \in [Jobs -> Row]
    BY DEF IInv, TypeOK
  <1>2. ASSUME NEW k \in Jobs, Enqueue(k)
        PROVE  row[j].status = "absent" /\ row'[j] = NewRow
    BY <1>1, <1>2 DEF Enqueue
  <1>3. ASSUME NEW w \in Workers, Claim(w)
        PROVE  /\ row[j].status = "pending" /\ row[j].availableAt <= now[w]
               /\ row'[j] = ClaimedRow(row[j], w)
    BY <1>1, <1>3 DEF Claim, StillClaimable, Claimable
  <1>4. ASSUME NEW w \in Workers, CompleteTask(w)
        PROVE  row[j].status = "running" /\ row'[j] = CompletedRow(row[j])
    BY <1>1, <1>4 DEF CompleteTask, IInv, GripOf, Holding
  <1>5. ASSUME NEW w \in Workers, FailTask(w)
        PROVE  row[j].status = "running" /\ row'[j] = FailedRow(row[j])
    BY <1>1, <1>5 DEF FailTask, IInv, GripOf, Holding
  <1>6. QED
    BY <1>2, <1>3, <1>4, <1>5
    DEF Next, Cycle, Poll, Select, ClaimLost, HandlerReturns, HandlerRaises,
        SaveRaises, Crash, Restart, Tick, vars

(* A completed or failed row is never written again. *)
THEOREM SettledRowsStay == Spec => SettledIsFinal
  <1>1. IInv /\ [Next]_vars =>
          [\A j \in Jobs : row[j].status \in {"completed", "failed"}
                             => row'[j] = row[j]]_vars
    BY RowSteps
  <1>2. QED
    BY <1>1, InductiveInvariant, PTL DEF Spec, SettledIsFinal

(* A worker's reading of the clock never lies in the future. *)
LEMMA NowIsPast == Spec => [](\A w \in Workers : now[w] <= clock)
  <1> DEFINE Past == \A w \in Workers : now[w] <= clock
  <1>1. Init => Past
    BY DEF Init
  <1>2. IInv /\ Past /\ [Next]_vars => Past'
    <2>1. SUFFICES ASSUME IInv, Past, [Next]_vars
                   PROVE  Past'
      OBVIOUS
    <2>2. clock \in Nat /\ now \in [Workers -> Nat]
      BY <2>1, BoundsAssumption DEF IInv, TypeOK
    <2>3. CASE Tick
      BY <2>1, <2>2, <2>3 DEF Tick
    <2>4. ASSUME NEW w \in Workers, Poll(w)
          PROVE  Past'
      BY <2>1, <2>2, <2>4 DEF Poll
    <2>5. CASE UNCHANGED <<clock, now>>
      BY <2>1, <2>5
    <2>6. QED
      BY <2>1, <2>3, <2>4, <2>5
      DEF Next, Enqueue, Cycle, Select, Claim, ClaimLost, HandlerReturns,
          HandlerRaises, CompleteTask, FailTask, SaveRaises, Crash, Restart, vars
  <1>3. QED
    BY <1>1, <1>2, InductiveInvariant, PTL DEF Spec

(* No run starts before the back-off of the previous one is over. *)
THEOREM BackoffHolds == Spec => BackoffRespected
  <1> DEFINE Past == \A w \in Workers : now[w] <= clock
  <1>1. IInv /\ Past /\ [Next]_vars =>
          [\A j \in Jobs : row'[j].attempts > row[j].attempts
                             => clock >= row[j].availableAt]_vars
    <2>1. SUFFICES ASSUME IInv, Past, [Next]_vars,
                          NEW j \in Jobs, row'[j].attempts > row[j].attempts
                   PROVE  clock >= row[j].availableAt
      OBVIOUS
    <2>2. /\ row[j] \in Row /\ row[j].attempts \in Nat
          /\ row[j].availableAt \in Nat /\ clock \in Nat
      BY <2>1, MaxAttemptsAssumption, BoundsAssumption DEF IInv, TypeOK, Row
    <2>3. row'[j] # row[j]
      BY <2>1, <2>2
    <2>4. row'[j] # CompletedRow(row[j]) /\ row'[j] # FailedRow(row[j])
      BY <2>1, <2>2, CompletedRowIsRow, FailedRowIsRow DEF IInv
    <2>5. ~(row[j].status = "absent" /\ row'[j] = NewRow)
      BY <2>1, <2>2 DEF IInv, LedgerOf, NewRow
    <2>6. PICK w \in Workers : row[j].availableAt <= now[w]
      BY <2>1, <2>3, <2>4, <2>5, RowSteps
    <2>7. now[w] \in Nat /\ now[w] <= clock
      BY <2>1, BoundsAssumption DEF IInv, TypeOK
    <2>8. QED
      BY <2>2, <2>6, <2>7
  <1>2. QED
    BY <1>1, NowIsPast, InductiveInvariant, PTL DEF Spec, BackoffRespected

(* The queue implements the life cycle of a job: every step of any worker  *)
(* on any row is a step of JobLifecycle or leaves the job's phase alone.   *)
THEOREM QueueImplementsLifecycle == Spec => ImplementsLifecycle
  <1> DEFINE phaseBar == [j \in Jobs |-> PhaseOf(row[j].status)]
             triesBar == [j \in Jobs |-> row[j].attempts]
  <1>1. Init => Lifecycle!Init
    BY DEF Init, Lifecycle!Init, AbsentRow, PhaseOf
  <1>2. IInv /\ [Next]_vars => [Lifecycle!Next]_<<phaseBar, triesBar>>
    <2>1. SUFFICES ASSUME IInv, [Next]_vars
                   PROVE  Lifecycle!Next \/ UNCHANGED <<phaseBar, triesBar>>
      OBVIOUS
    <2>2. CASE row' = row
      BY <2>2
    <2>3. ASSUME row' # row
          PROVE  Lifecycle!Next
      <3>1. PICK j \in Jobs : row'[j] # row[j] /\ \A k \in Jobs \ {j} : row'[k] = row[k]
        <4>1. row \in [Jobs -> Row]
          BY <2>1 DEF IInv, TypeOK
        <4>2. PICK j \in Jobs : \E r : row' = [row EXCEPT ![j] = r]
          <5>1. \A w \in Workers : pc[w] \in Holding \cup {"selected"} => pick[w] \in Jobs
            BY <2>1 DEF IInv, GripOf
          <5>2. QED
            BY <2>1, <2>3, <5>1
            DEF Next, Enqueue, Cycle, Poll, Select, Claim, ClaimLost,
                HandlerReturns, HandlerRaises, CompleteTask, FailTask,
                SaveRaises, Crash, Restart, Tick, vars, Holding
        <4>3. \A k \in Jobs \ {j} : row'[k] = row[k]
          BY <4>1, <4>2
        <4>4. row'[j] # row[j]
          BY <2>3, <4>1, <4>2
        <4>5. QED
          BY <4>3, <4>4
      <3> DEFINE from == row[j].status
                 to == row'[j].status
                 n == row[j].attempts
      <3>2. /\ row' \in [Jobs -> Row]
            /\ row \in [Jobs -> Row]
            /\ n \in 0..MaxAttempts
        BY <2>1, NextInvariant, MaxAttemptsAssumption DEF IInv, TypeOK, Row
      <3>3. /\ phaseBar' = [phaseBar EXCEPT ![j] = PhaseOf(to)]
            /\ phaseBar[j] = PhaseOf(from)
            /\ triesBar' = [triesBar EXCEPT ![j] = row'[j].attempts]
            /\ triesBar[j] = n
        <4>1. \A k \in Jobs \ {j} : row'[k].status = row[k].status
                                 /\ row'[k].attempts = row[k].attempts
          BY <3>1
        <4>2. phaseBar' = [k \in Jobs |-> PhaseOf(row'[k].status)]
          OBVIOUS
        <4>3. phaseBar' = [phaseBar EXCEPT ![j] = PhaseOf(to)]
          BY <4>1, <4>2
        <4>4. triesBar' = [triesBar EXCEPT ![j] = row'[j].attempts]
          BY <4>1
        <4>5. QED
          BY <4>3, <4>4
      <3>4. CASE from = "absent" /\ row'[j] = NewRow
        <4>1. to = "pending" /\ row'[j].attempts = n
          BY <2>1, <3>4 DEF NewRow, IInv, LedgerOf
        <4>2. Lifecycle!Submit(j)
          BY <3>3, <3>4, <4>1 DEF Lifecycle!Submit, Lifecycle!Move, PhaseOf
        <4>3. QED
          BY <4>2 DEF Lifecycle!Next
      <3>5. ASSUME NEW w \in Workers, from = "pending",
                   row'[j] = ClaimedRow(row[j], w)
            PROVE  Lifecycle!Next
        <4>1. n < MaxAttempts
          BY <2>1, <3>5 DEF IInv, LedgerOf
        <4>2. to = "running" /\ row'[j].attempts = n + 1
          BY <3>2, <3>5, <4>1, ClaimedRowIsRow
        <4>3. Lifecycle!Begin(j)
          BY <3>3, <3>5, <4>1, <4>2 DEF Lifecycle!Begin, Lifecycle!Move, PhaseOf
        <4>4. QED
          BY <4>3 DEF Lifecycle!Next
      <3>6. CASE from = "running" /\ row'[j] = CompletedRow(row[j])
        <4>1. to = "completed" /\ row'[j].attempts = n
          BY <3>2, <3>6, CompletedRowIsRow
        <4>2. Lifecycle!Finish(j)
          BY <3>3, <3>6, <4>1 DEF Lifecycle!Finish, Lifecycle!Move, PhaseOf
        <4>3. QED
          BY <4>2 DEF Lifecycle!Next
      <3>7. CASE from = "running" /\ row'[j] = FailedRow(row[j])
        <4>1. /\ to = IF n < MaxAttempts THEN "pending" ELSE "failed"
              /\ row'[j].attempts = n
          BY <2>1, <3>2, <3>7, FailedRowIsRow DEF IInv
        <4>2. CASE n < MaxAttempts
          <5>1. Lifecycle!Retry(j)
            BY <3>3, <3>7, <4>1, <4>2
            DEF Lifecycle!Retry, Lifecycle!Move, PhaseOf
          <5>2. QED
            BY <5>1 DEF Lifecycle!Next
        <4>3. CASE ~(n < MaxAttempts)
          <5>1. n = MaxAttempts
            BY <3>2, <4>3, MaxAttemptsAssumption
          <5>2. Lifecycle!GiveUp(j)
            BY <3>3, <3>7, <4>1, <4>3, <5>1
            DEF Lifecycle!GiveUp, Lifecycle!Move, PhaseOf
          <5>3. QED
            BY <5>2 DEF Lifecycle!Next
        <4>4. QED
          BY <4>2, <4>3
      <3>8. QED
        BY <2>1, <3>1, <3>4, <3>5, <3>6, <3>7, RowSteps
    <2>4. QED
      BY <2>2, <2>3
  <1>3. QED
    BY <1>1, <1>2, InductiveInvariant, PTL
    DEF Spec, ImplementsLifecycle, Lifecycle!Spec
=============================================================================
