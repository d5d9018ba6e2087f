------------------------------ MODULE TaskQueue ------------------------------
(***************************************************************************)
(* The durable background queue of apps/core/tasks.py: rows of             *)
(* core_taskjob, the processes that enqueue them and the run_task_worker   *)
(* processes that claim and run them (TASK_QUEUE_MODE = "worker").         *)
(*                                                                         *)
(* A worker's cycle is split where another process can act in between:     *)
(* reading the clock, the snapshot of SELECT ... FOR UPDATE, the lock of   *)
(* a row being granted (PostgreSQL then re-evaluates the WHERE clause and  *)
(* goes on to the snapshot's next row when it no longer holds), the        *)
(* handler's run, and the save that records its outcome.  The save writes  *)
(* the whole in-memory object, so a worker carries a copy of its row.      *)
(***************************************************************************)
EXTENDS Integers

CONSTANTS
  Jobs,         \* identities of the rows that may be inserted
  Workers,      \* run_task_worker processes
  WorkerName,   \* --worker-name of each process; need not be distinct
  NoName,       \* the blank locked_by
  NoJob,        \* "no row selected"
  MaxAttempts,  \* TaskJob.max_attempts
  MaxClock,     \* bound: the clock stops here
  MaxFaults     \* bound: crashes and failed saves

ASSUME JobsAssumption == NoJob \notin Jobs
ASSUME NamesAssumption == \A w \in Workers : WorkerName[w] # NoName
ASSUME MaxAttemptsAssumption == MaxAttempts \in Nat \ {0}
ASSUME BoundsAssumption == MaxClock \in Nat /\ MaxFaults \in Nat

VARIABLES
  clock,        \* timezone.now(), in seconds
  row,          \* row[j]: the core_taskjob row of j
  pc,           \* pc[w]: where worker w is in its cycle
  now,          \* now[w]: the "now" claim_next_task read
  pick,         \* pick[w]: the row w selected or holds
  rest,         \* rest[w]: the rows of w's snapshot after pick[w]
  copy,         \* copy[w]: the in-memory task object of w
  faults,       \* crashes and failed saves so far
  successes,    \* history: handler runs of j that returned
  raises        \* history: handler runs of j that raised

vars == <<clock, row, pc, now, pick, rest, copy, faults, successes, raises>>

Names == {WorkerName[w] : w \in Workers} \cup {NoName}

Statuses == {"absent", "pending", "running", "completed", "failed"}

Row == [status : Statuses, attempts : 0..MaxAttempts, availableAt : Nat,
        createdAt : Nat, lockedBy : Names, error : BOOLEAN]

AbsentRow == [status |-> "absent", attempts |-> 0, availableAt |-> 0,
              createdAt |-> 0, lockedBy |-> NoName, error |-> FALSE]

(* A worker holds a task from the claim's commit to its final save. *)
Holding == {"running", "returned", "raised"}

Points == {"idle", "polled", "selected", "down"} \cup Holding

TypeOK ==
  /\ clock \in 0..MaxClock
  /\ row \in [Jobs -> Row]
  /\ pc \in [Workers -> Points]
  /\ now \in [Workers -> 0..MaxClock]
  /\ pick \in [Workers -> Jobs \cup {NoJob}]
  /\ rest \in [Workers -> SUBSET Jobs]
  /\ copy \in [Workers -> Row]
  /\ faults \in 0..MaxFaults
  /\ successes \in [Jobs -> Nat]
  /\ raises \in [Jobs -> Nat]

Init ==
  /\ clock = 0
  /\ row = [j \in Jobs |-> AbsentRow]
  /\ pc = [w \in Workers |-> "idle"]
  /\ now = [w \in Workers |-> 0]
  /\ pick = [w \in Workers |-> NoJob]
  /\ rest = [w \in Workers |-> {}]
  /\ copy = [w \in Workers |-> AbsentRow]
  /\ faults = 0
  /\ successes = [j \in Jobs |-> 0]
  /\ raises = [j \in Jobs |-> 0]

-----------------------------------------------------------------------------
(* Row contents written by each function. *)

NewRow == [status |-> "pending", attempts |-> 0, availableAt |-> clock,
           createdAt |-> clock, lockedBy |-> NoName, error |-> FALSE]

ClaimedRow(r, w) == [r EXCEPT !.status = "running", !.lockedBy = WorkerName[w],
                              !.attempts = r.attempts + 1, !.error = FALSE]

CompletedRow(r) == [r EXCEPT !.status = "completed", !.lockedBy = NoName]

(* min(300, 2 ** max(attempts, 1)), tabulated: 2 ** 9 exceeds 300. *)
RetryDelay(attempts) ==
  IF attempts <= 1 THEN 2
  ELSE IF attempts >= 9 THEN 300
  ELSE <<2, 4, 8, 16, 32, 64, 128, 256>>[attempts]

Exhausted(r) == r.attempts >= MaxAttempts

RetriedRow(r) == [r EXCEPT !.status = "pending", !.lockedBy = NoName,
                           !.error = TRUE,
                           !.availableAt = clock + RetryDelay(r.attempts)]

(* Mutant of FailedRow: the retry branch forgets to reset the status. *)
Mut_FailedRow_StatusKept(r) ==
  IF Exhausted(r)
  THEN [r EXCEPT !.status = "failed", !.lockedBy = NoName, !.error = TRUE]
  ELSE [RetriedRow(r) EXCEPT !.status = r.status]
FailedRow(r) ==
  IF Exhausted(r)
  THEN [r EXCEPT !.status = "failed", !.lockedBy = NoName, !.error = TRUE]
  ELSE RetriedRow(r)

-----------------------------------------------------------------------------
(* Producers. *)

(* enqueue_task in "worker" mode: one INSERT. *)
Enqueue(j) ==
  /\ row[j].status = "absent"
  /\ row' = [row EXCEPT ![j] = NewRow]
  /\ UNCHANGED <<clock, pc, now, pick, rest, copy, faults, successes, raises>>

-----------------------------------------------------------------------------
(* The claim. *)

Claimable(j, t) == row[j].status = "pending" /\ row[j].availableAt <= t

Due(t) == {j \in Jobs : Claimable(j, t)}

NotAfter(j, k) ==
  \/ row[j].availableAt < row[k].availableAt
  \/ row[j].availableAt = row[k].availableAt /\ row[j].createdAt <= row[k].createdAt

(* ORDER BY available_at, created_at; ties in any order. *)
FirstOf(S) == {j \in S : \A k \in S : NotAfter(j, k)}

(* run_worker_cycle begins: now = timezone.now(), outside the transaction. *)
Poll(w) ==
  /\ pc[w] = "idle"
  /\ pc' = [pc EXCEPT ![w] = "polled"]
  /\ now' = [now EXCEPT ![w] = clock]
  /\ UNCHANGED <<clock, row, pick, rest, copy, faults, successes, raises>>

(* w waits for the lock of the first row of S; with none, return None.     *)
Approach(w, S) ==
  \/ \E j \in FirstOf(S) :
       /\ pick' = [pick EXCEPT ![w] = j]
       /\ rest' = [rest EXCEPT ![w] = S \ {j}]
       /\ pc' = [pc EXCEPT ![w] = "selected"]
  \/ /\ S = {}
     /\ pick' = [pick EXCEPT ![w] = NoJob]
     /\ rest' = [rest EXCEPT ![w] = {}]
     /\ pc' = [pc EXCEPT ![w] = "idle"]

(* The statement takes its snapshot of the due rows. *)
Select(w) ==
  /\ pc[w] = "polled"
  /\ Approach(w, Due(now[w]))
  /\ UNCHANGED <<clock, row, now, copy, faults, successes, raises>>

(* Mutants of StillClaimable: no row lock; only the status re-checked. *)
Mut_StillClaimable_NoLock(w) == TRUE
Mut_StillClaimable_StatusOnly(w) == row[pick[w]].status = "pending"
StillClaimable(w) == Claimable(pick[w], now[w])

(* The row lock is granted and the row still matches: update and commit. *)
Claim(w) ==
  /\ pc[w] = "selected"
  /\ StillClaimable(w)
  /\ row' = [row EXCEPT ![pick[w]] = ClaimedRow(row[pick[w]], w)]
  /\ copy' = [copy EXCEPT ![w] = ClaimedRow(row[pick[w]], w)]
  /\ pc' = [pc EXCEPT ![w] = "running"]
  /\ rest' = [rest EXCEPT ![w] = {}]
  /\ UNCHANGED <<clock, now, pick, faults, successes, raises>>

(* The row lock is granted after another worker changed the row: the       *)
(* statement drops it and goes on to the next row of its snapshot, so a    *)
(* job that became due since is not seen before the next cycle.            *)
ClaimLost(w) ==
  /\ pc[w] = "selected"
  /\ ~StillClaimable(w)
  /\ Approach(w, rest[w])
  /\ UNCHANGED <<clock, row, now, copy, faults, successes, raises>>

-----------------------------------------------------------------------------
(* Running the handler and recording its outcome. *)

HandlerReturns(w) ==
  /\ pc[w] = "running"
  /\ pc' = [pc EXCEPT ![w] = "returned"]
  /\ successes' = [successes EXCEPT ![pick[w]] = @ + 1]
  /\ UNCHANGED <<clock, row, now, pick, rest, copy, faults, raises>>

HandlerRaises(w) ==
  /\ pc[w] = "running"
  /\ pc' = [pc EXCEPT ![w] = "raised"]
  /\ raises' = [raises EXCEPT ![pick[w]] = @ + 1]
  /\ UNCHANGED <<clock, row, now, pick, rest, copy, faults, successes>>

(* The worker drops its task object and returns to the polling loop. *)
Release(w, point) ==
  /\ pc' = [pc EXCEPT ![w] = point]
  /\ pick' = [pick EXCEPT ![w] = NoJob]
  /\ rest' = [rest EXCEPT ![w] = {}]
  /\ copy' = [copy EXCEPT ![w] = AbsentRow]

CompleteTask(w) ==
  /\ pc[w] = "returned"
  /\ row' = IF copy[w].status = "running"
            THEN [row EXCEPT ![pick[w]] = CompletedRow(copy[w])]
            ELSE row
  /\ Release(w, "idle")
  /\ UNCHANGED <<clock, now, faults, successes, raises>>

FailTask(w) ==
  /\ pc[w] = "raised"
  /\ row' = [row EXCEPT ![pick[w]] = FailedRow(copy[w])]
  /\ Release(w, "idle")
  /\ UNCHANGED <<clock, now, faults, successes, raises>>

(* Mutant of SaveRaises: complete_task moved inside process_task's try.    *)
Mut_SaveRaises_InsideTry(w) ==
  /\ pc[w] \in {"returned", "raised"}
  /\ faults < MaxFaults
  /\ faults' = faults + 1
  /\ row' = IF pc[w] = "returned"
            THEN [row EXCEPT ![pick[w]] = FailedRow(copy[w])]
            ELSE row
  /\ Release(w, "idle")
  /\ UNCHANGED <<clock, now, successes, raises>>
(* The save of complete_task or fail_task raises: process_task does not    *)
(* catch it, run_worker_cycle logs it and the loop goes on.                *)
SaveRaises(w) ==
  /\ pc[w] \in {"returned", "raised"}
  /\ faults < MaxFaults
  /\ faults' = faults + 1
  /\ Release(w, "idle")
  /\ UNCHANGED <<clock, row, now, successes, raises>>

-----------------------------------------------------------------------------
(* The environment: worker processes die and are started again; time. *)

(* The process is killed, or claim_next_task raises: nothing catches that. *)
Crash(w) ==
  /\ pc[w] # "down"
  /\ faults < MaxFaults
  /\ faults' = faults + 1
  /\ Release(w, "down")
  /\ UNCHANGED <<clock, row, now, successes, raises>>

Restart(w) ==
  /\ pc[w] = "down"
  /\ pc' = [pc EXCEPT ![w] = "idle"]
  /\ UNCHANGED <<clock, row, now, pick, rest, copy, faults, successes, raises>>

Tick ==
  /\ clock < MaxClock
  /\ clock' = clock + 1
  /\ UNCHANGED <<row, pc, now, pick, rest, copy, faults, successes, raises>>

Cycle(w) ==
  \/ Poll(w) \/ Select(w) \/ Claim(w) \/ ClaimLost(w)
  \/ HandlerReturns(w) \/ HandlerRaises(w)
  \/ CompleteTask(w) \/ FailTask(w)

Next ==
  \/ \E j \in Jobs : Enqueue(j)
  \/ \E w \in Workers : Cycle(w) \/ SaveRaises(w) \/ Crash(w) \/ Restart(w)
  \/ Tick

Spec == Init /\ [][Next]_vars

(* Scheduling: a live worker process keeps running its loop, handlers      *)
(* return, a dead worker is started again, and time passes.                *)
FairSpec ==
  /\ Spec
  /\ \A w \in Workers : WF_vars(Cycle(w)) /\ WF_vars(Restart(w))
  /\ WF_vars(Tick)

-----------------------------------------------------------------------------
(* Safety. *)

Holds(w, j) == pc[w] \in Holding /\ pick[w] = j

(* No job's handler is being run, or its outcome recorded, by two workers  *)
(* at once: what select_for_update in claim_next_task is there for.        *)
AtMostOneHolder ==
  \A v, w \in Workers : \A j \in Jobs : Holds(v, j) /\ Holds(w, j) => v = w

(* The full-object save of complete_task / fail_task never overwrites a    *)
(* newer version of the row: the held copy is still the row's content.     *)
HeldCopyIsCurrent ==
  \A w \in Workers : pc[w] \in Holding => copy[w] = row[pick[w]]

(* A worker that runs a job has it to itself, row and copy.                *)
HeldExclusively == AtMostOneHolder /\ HeldCopyIsCurrent

(* Once a handler has returned, its job is never queued again: effects     *)
(* (mail, alerts) of a successful run are not repeated, even when the save *)
(* of complete_task fails or the worker dies before it.                    *)
SucceedsAtMostOnce ==
  \A j \in Jobs :
    /\ successes[j] <= 1
    /\ successes[j] = 1 => row[j].status \in {"running", "completed"}

(* A job is given up only after max_attempts runs that all raised, and no  *)
(* job is ever run more often than that.                                   *)
GivenUpOnlyWhenExhausted ==
  \A j \in Jobs :
    /\ successes[j] + raises[j] <= row[j].attempts
    /\ row[j].attempts <= MaxAttempts
    /\ row[j].status = "failed" => raises[j] = MaxAttempts /\ successes[j] = 0

(* A row marked running without a live worker behind it exists only        *)
(* because a worker died or a final save failed.                           *)
RunningRowsAreHeld ==
  faults = 0 => \A j \in Jobs : row[j].status = "running"
                                  => \E w \in Workers : Holds(w, j)

(* completed and failed rows are never written again. *)
SettledIsFinal ==
  [][\A j \in Jobs : row[j].status \in {"completed", "failed"}
                       => row'[j] = row[j]]_vars

(* The back-off of fail_task holds against a worker that selected the row  *)
(* before another worker failed it: a run starts only once its time came.  *)
BackoffRespected ==
  [][\A j \in Jobs : row'[j].attempts > row[j].attempts
                       => clock >= row[j].availableAt]_vars

-----------------------------------------------------------------------------
(* The queue implements the life cycle of JobLifecycle. *)

PhaseOf(status) ==
  CASE status = "absent"    -> "unknown"
    [] status = "pending"   -> "waiting"
    [] status = "running"   -> "working"
    [] status = "completed" -> "done"
    [] status = "failed"    -> "given_up"

Lifecycle == INSTANCE JobLifecycle
  WITH phase <- [j \in Jobs |-> PhaseOf(row[j].status)],
       tries <- [j \in Jobs |-> row[j].attempts]

(* Whatever the workers' interleaving and faults, each row goes through    *)
(* the life cycle one try at a time and never restarts after it settled.   *)
ImplementsLifecycle == Lifecycle!Spec

-----------------------------------------------------------------------------
(* The inductive invariant the proofs use. *)

(* What the runs so far say about each row. *)
LedgerOf(j) ==
  LET s == successes[j]  r == raises[j]  n == row[j].attempts
  IN  /\ row[j].status = "absent"    => n = 0 /\ s = 0 /\ r = 0
      /\ row[j].status = "pending"   => n < MaxAttempts /\ s = 0 /\ r = n
      /\ row[j].status = "running"   => s <= 1 /\ s + r <= n
      /\ row[j].status = "completed" => s = 1 /\ s + r <= n
      /\ row[j].status = "failed"    => s = 0 /\ r = n /\ n = MaxAttempts

(* What a worker knows of the row it selected or holds. *)
GripOf(w) ==
  /\ pc[w] \in Holding \cup {"selected"} => pick[w] \in Jobs
  /\ pc[w] \in Holding =>
       LET j == pick[w]  n == row[pick[w]].attempts
       IN  /\ copy[w] = row[j] /\ row[j].status = "running"
           /\ pc[w] = "running"  => successes[j] = 0 /\ raises[j] + 1 = n
           /\ pc[w] = "returned" => successes[j] = 1 /\ raises[j] + 1 = n
           /\ pc[w] = "raised"   => successes[j] = 0 /\ raises[j] = n

(* Each row agrees with the history of its runs and with the worker behind *)
(* it: the pieces of state the code keeps in the row, in the in-memory     *)
(* task object and in the loop's position never drift apart.               *)
IInv ==
  /\ TypeOK
  /\ \A j \in Jobs : LedgerOf(j)
  /\ \A w \in Workers : GripOf(w)
  /\ AtMostOneHolder
  /\ RunningRowsAreHeld

-----------------------------------------------------------------------------
(* Liveness. *)

(* Every enqueued job settles, unless its retry falls beyond the horizon   *)
(* of the bounded clock.                                                   *)
Settled(j) == row[j].status \in {"completed", "failed"}

JobsSettle ==
  \A j \in Jobs : (row[j].status # "absent")
                    ~> (Settled(j) \/ row[j].availableAt > MaxClock)

(* ... and it does while no worker dies and every save goes through.       *)
JobsSettleUndisturbed == [](faults = 0) => JobsSettle
=============================================================================
