-------------------------- MODULE StaffTaskProofs --------------------------
(* Theorems about StaffTask, for any number of requests, staff and         *)
(* statuses.                                                               *)
EXTENDS StaffTask, TLAPS

(* What save makes of a task is a task whose status, progress and          *)
(* completion agree.                                                       *)
LEMMA SavedAgrees ==
  ASSUME NEW t \in Task, NEW s \in Statuses, NEW p \in Progress, NEW a \in Staff \cup {Admin}
  PROVE  LET u == Saved(Edited(t, s, p, a))
         IN  /\ u \in Task /\ Agrees(u) /\ u.exists
             /\ u.deleted = t.deleted
             /\ p = "full" => u.status = "done"
<1> DEFINE e == Edited(t, s, p, a)
<1>1. /\ e \in Task /\ e.status = s /\ e.progress = p
      /\ e.exists = TRUE /\ e.deleted = t.deleted
  BY DEF Edited, Task
<1> HIDE DEF e
<1> DEFINE u == Saved(e)
<1>2. "done" \in Statuses /\ "full" \in Progress
  BY StatusesAssumption DEF Progress
<1>3. u \in Task
  BY <1>1, <1>2 DEF Saved, Task, Done
<1>4. Agrees(u) /\ u.exists /\ u.deleted = t.deleted /\ (p = "full" => u.status = "done")
  BY <1>1 DEF Saved, Done, Agrees
<1> QED
  BY <1>3, <1>4 DEF e

LEMMA NoTaskIsTask == NoTask \in Task /\ ~NoTask.exists /\ NoTask.status = "todo"
BY StatusesAssumption DEF NoTask, Task, Progress

LEMMA IdleIsRequest ==
  /\ Idle \in Request
  /\ Idle.at = "free" /\ ~Idle.overlapped
BY NoTaskIsTask DEF Idle, Request

(* OthersOverlap marks the others and leaves the rest of them alone. *)
LEMMA OthersOverlapped ==
  ASSUME TypeOK, NEW r \in Requests, NEW request \in Request,
         req' = [OthersOverlap(r) EXCEPT ![r] = request]
  PROVE  /\ req' \in [Requests -> Request]
         /\ req'[r] = request
         /\ \A q \in Requests : q # r =>
              /\ req'[q].at = req[q].at /\ req'[q].before = req[q].before
              /\ req'[q].after = req[q].after /\ req'[q].lowers = req[q].lowers
              /\ req[q].at # "free" => req'[q].overlapped = TRUE
<1>1. \A q \in Requests : req[q] \in Request
  BY DEF TypeOK
<1>2. \A q \in Requests : q # r =>
        req'[q] = IF Free(q) THEN req[q] ELSE [req[q] EXCEPT !.overlapped = TRUE]
  BY DEF OthersOverlap
<1>3. \A q \in Requests : LET m == [req[q] EXCEPT !.overlapped = TRUE]
        IN  /\ m \in Request /\ m.at = req[q].at /\ m.before = req[q].before
            /\ m.after = req[q].after /\ m.lowers = req[q].lowers /\ m.overlapped = TRUE
  BY <1>1 DEF Request
<1>4. req'[r] = request /\ DOMAIN req' = Requests /\ req' = [q \in Requests |-> req'[q]]
  BY DEF OthersOverlap
<1>5. \A q \in Requests : req'[q] \in Request
  BY <1>1, <1>2, <1>3, <1>4
<1>6. req' \in [Requests -> Request]
  BY <1>4, <1>5
<1>7. ASSUME NEW q \in Requests, q # r
      PROVE  /\ req'[q].at = req[q].at /\ req'[q].before = req[q].before
             /\ req'[q].after = req[q].after /\ req'[q].lowers = req[q].lowers
             /\ req[q].at # "free" => req'[q].overlapped = TRUE
  <2>1. CASE Free(q)
    <3>1. req'[q] = req[q]
      BY <1>2, <1>7, <2>1
    <3> QED
      BY <2>1, <3>1 DEF Free
  <2>2. CASE ~Free(q)
    <3>1. req'[q] = [req[q] EXCEPT !.overlapped = TRUE]
      BY <1>2, <1>7, <2>2
    <3> QED
      BY <1>3, <3>1
  <2> QED
    BY <2>1, <2>2
<1> QED
  BY <1>4, <1>6, <1>7

LEMMA InitInvariant == Init => IInv
<1> SUFFICES ASSUME Init PROVE IInv
  OBVIOUS
<1>1. TypeOK
  <2>1. row \in Task /\ req \in [Requests -> Request] /\ {told, given} \subseteq Statuses \cup {"nothing"}
    BY NoTaskIsTask, IdleIsRequest DEF Init
  <2>2. deaths \in 0..MaxDeaths
    BY DeathsAssumption DEF Init
  <2>3. blurred \in BOOLEAN
    BY DEF Init
  <2> QED
    BY <2>1, <2>2, <2>3 DEF TypeOK
<1>2. \A r \in Requests : CopyOf(r)
  BY IdleIsRequest DEF Init, CopyOf, Tells
<1> QED
  BY <1>1, <1>2, NoTaskIsTask DEF Init, IInv, LogFollows, Tells

LEMMA CreateInvariant ==
  ASSUME IInv, NEW r \in Requests, NEW s \in Statuses, NEW p \in Progress,
         NEW a \in Staff \cup {Admin}, Create(r, s, p, a)
  PROVE  IInv'
<1> DEFINE request == [Idle EXCEPT !.at = "created"]
<1>1. /\ ~row.exists /\ row' = Saved(Edited(NoTask, s, p, a)) /\ given' = row'.status
      /\ req' = [req EXCEPT ![r] = request]
      /\ UNCHANGED <<told, blurred, deaths>>
  BY DEF Create
<1>2. row' \in Task /\ Agrees(row') /\ row'.exists
  BY <1>1, SavedAgrees, NoTaskIsTask
<1>3. request \in Request /\ request.at = "created"
  BY IdleIsRequest DEF Request
<1> HIDE DEF request
<1>4. /\ req' \in [Requests -> Request] /\ req'[r] = request
      /\ \A q \in Requests : q # r => req'[q] = req[q]
  BY <1>1, <1>3 DEF IInv, TypeOK
<1>5. given' \in Statuses
  BY <1>1, <1>2 DEF Task
<1>6. TypeOK'
  BY <1>1, <1>2, <1>4, <1>5 DEF IInv, TypeOK
<1>7. \A q \in Requests : req[q].at \notin {"created", "read", "saved", "deleting"}
  BY <1>1 DEF IInv, CopyOf, Tells
<1>8. (\A q \in Requests : CopyOf(q))'
  BY <1>2, <1>3, <1>4, <1>7 DEF CopyOf, Tells
<1>9. LogFollows'
  BY <1>1 DEF IInv, LogFollows, Tells
<1> QED
  BY <1>2, <1>6, <1>8, <1>9 DEF IInv

LEMMA LogCreationInvariant ==
  ASSUME IInv, NEW r \in Requests, LogCreation(r)
  PROVE  IInv'
<1>1. /\ req[r].at = "created"
      /\ req' = [req EXCEPT ![r] = Idle]
      /\ UNCHANGED <<row, told, given, blurred, deaths>>
  BY DEF LogCreation
<1>2. /\ req' \in [Requests -> Request] /\ req'[r] = Idle
      /\ \A q \in Requests : q # r => req'[q] = req[q]
  BY <1>1, IdleIsRequest DEF IInv, TypeOK
<1>3. TypeOK'
  BY <1>1, <1>2 DEF IInv, TypeOK
<1>4. ASSUME NEW q \in Requests PROVE CopyOf(q)'
  <2>1. CopyOf(q)
    BY DEF IInv
  <2> QED
    BY <2>1, <1>1, <1>2, IdleIsRequest DEF CopyOf, Tells
<1>5. LogFollows'
  BY <1>1, <1>2 DEF IInv, LogFollows, Tells
<1> QED
  BY <1>1, <1>3, <1>4, <1>5 DEF IInv

LEMMA ReadForPatchInvariant ==
  ASSUME IInv, NEW r \in Requests, NEW who \in Staff \cup {Admin}, NEW s \in Statuses,
         NEW p \in Progress, NEW a \in Staff \cup {Admin}, ReadForPatch(r, who, s, p, a)
  PROVE  IInv'
<1> DEFINE after == Saved(Edited(row, s, p, a))
           request == [at |-> "read", before |-> row, after |-> after,
                       lowers |-> p # row.progress /\ p # "full", overlapped |-> Busy # {}]
<1>1. /\ Free(r) /\ row.exists /\ ~row.deleted
      /\ req' = [req EXCEPT ![r] = request]
      /\ UNCHANGED <<row, told, given, blurred, deaths>>
  BY DEF ReadForPatch, Found
<1>2. row \in Task
  BY DEF IInv, TypeOK
<1>3. /\ after \in Task /\ Agrees(after) /\ after.exists
      /\ p = "full" => after.status = "done"
  BY <1>2, SavedAgrees
<1> HIDE DEF after
<1>4. request \in Request
  BY <1>2, <1>3 DEF Request
<1>5. /\ request.at = "read" /\ request.before = row /\ request.after = after
      /\ row.progress = "full" /\ ~request.lowers => after.status = "done"
      /\ ~request.overlapped => \A q \in Requests : req[q].at \notin {"read", "saved", "deleting"}
  BY <1>3 DEF Busy
<1> HIDE DEF request
<1>6. /\ req' \in [Requests -> Request] /\ req'[r] = request
      /\ \A q \in Requests : q # r => req'[q] = req[q]
  BY <1>1, <1>4 DEF IInv, TypeOK
<1>7. TypeOK'
  BY <1>1, <1>6 DEF IInv, TypeOK
<1>8. ASSUME NEW q \in Requests PROVE CopyOf(q)'
  <2>1. CASE q = r
    BY <2>1, <1>1, <1>3, <1>5, <1>6 DEF CopyOf, Tells
  <2>2. CASE q # r
    BY <2>2, <1>1, <1>5, <1>6 DEF IInv, CopyOf, Tells
  <2> QED
    BY <2>1, <2>2
<1>9. LogFollows'
  BY <1>1, <1>5, <1>6 DEF IInv, LogFollows, Free, Tells
<1> QED
  BY <1>1, <1>7, <1>8, <1>9 DEF IInv

LEMMA SavePatchInvariant ==
  ASSUME IInv, NEW r \in Requests, SavePatch(r)
  PROVE  IInv'
<1> DEFINE request == [req[r] EXCEPT !.at = "saved"]
<1>1. /\ req[r].at = "read" /\ row' = req[r].after
      /\ req' = [OthersOverlap(r) EXCEPT ![r] = request]
      /\ UNCHANGED <<told, given, blurred, deaths>>
  BY DEF SavePatch
<1>2. req[r] \in Request
  BY DEF IInv, TypeOK
<1>3. /\ request \in Request /\ request.at = "saved" /\ request.before = req[r].before
      /\ request.after = req[r].after /\ request.lowers = req[r].lowers
      /\ request.overlapped = req[r].overlapped
  BY <1>2 DEF Request
<1> HIDE DEF request
<1>4. /\ req' \in [Requests -> Request] /\ req'[r] = request
      /\ \A q \in Requests : q # r =>
           /\ req'[q].at = req[q].at /\ req'[q].before = req[q].before
           /\ req'[q].after = req[q].after /\ req'[q].lowers = req[q].lowers
           /\ req[q].at # "free" => req'[q].overlapped = TRUE
  BY <1>1, <1>3, OthersOverlapped DEF IInv
<1>5. row' \in Task /\ row'.exists /\ Agrees(row')
  BY <1>1, <1>2 DEF IInv, CopyOf, Request, Tells
<1>6. TypeOK'
  BY <1>1, <1>4, <1>5 DEF IInv, TypeOK
<1>7. ASSUME NEW q \in Requests PROVE CopyOf(q)'
  <2>1. CASE q = r
    <3>1. ~req[r].overlapped => (~blurred => Tells(req[r].before.status))
      BY <1>1 DEF IInv, CopyOf, LogFollows, Tells
    <3>2. CopyOf(r)
      BY DEF IInv
    <3> QED
      BY <2>1, <3>1, <3>2, <1>1, <1>3, <1>4, <1>5 DEF CopyOf, Tells
  <2>2. CASE q # r
    <3>1. CopyOf(q)
      BY DEF IInv
    <3> QED
      BY <2>2, <3>1, <1>4, <1>5 DEF CopyOf, Tells
  <2> QED
    BY <2>1, <2>2
<1>8. LogFollows'
  BY <1>3, <1>4 DEF LogFollows, Tells
<1> QED
  BY <1>5, <1>6, <1>7, <1>8 DEF IInv

(* The entry is the stored row's status if nobody came in between. *)
LEMMA LogInvariant ==
  ASSUME IInv, NEW r \in Requests, Log(r)
  PROVE  IInv'
<1>1. /\ req[r].at = "saved"
      /\ told' = IF LogsStatus(r) THEN req[r].after.status ELSE told
      /\ given' = IF LogsStatus(r) THEN "nothing" ELSE given
      /\ blurred' = (req[r].overlapped \/ (blurred /\ ~LogsStatus(r)))
      /\ req' = [OthersOverlap(r) EXCEPT ![r] = Idle]
      /\ UNCHANGED <<row, deaths>>
  BY DEF Log
<1>2. req[r] \in Request
  BY DEF IInv, TypeOK
<1>3. /\ req' \in [Requests -> Request] /\ req'[r] = Idle
      /\ \A q \in Requests : q # r =>
           /\ req'[q].at = req[q].at /\ req'[q].before = req[q].before
           /\ req'[q].after = req[q].after /\ req'[q].lowers = req[q].lowers
           /\ req[q].at # "free" => req'[q].overlapped = TRUE
  BY <1>1, IdleIsRequest, OthersOverlapped DEF IInv
<1>4. req[r].after.status \in Statuses /\ req[r].overlapped \in BOOLEAN
  BY <1>2 DEF Request, Task
<1>5. blurred' \in BOOLEAN
  BY <1>1
<1>6. {told', given'} \subseteq Statuses \cup {"nothing"}
  BY <1>1, <1>4 DEF IInv, TypeOK
<1>7. TypeOK'
  BY <1>1, <1>3, <1>5, <1>6 DEF IInv, TypeOK
<1>8. ASSUME NEW q \in Requests PROVE CopyOf(q)'
  <2>1. CASE q = r
    BY <2>1, <1>3, IdleIsRequest DEF CopyOf, Tells
  <2>2. CASE q # r
    <3>1. CopyOf(q)
      BY DEF IInv
    <3> QED
      BY <2>2, <3>1, <1>1, <1>3 DEF CopyOf, Tells
  <2> QED
    BY <2>1, <2>2
<1>9. LogFollows'
  <2>1. ASSUME ~req[r].overlapped, blurred => LogsStatus(r)
        PROVE  Tells(row.status)'
    <3>1. row = req[r].after /\ (~blurred => Tells(req[r].before.status))
      BY <2>1, <1>1 DEF IInv, CopyOf, Tells
    <3> QED
      BY <2>1, <3>1, <1>1 DEF LogsStatus, Tells
  <2>2. ~blurred' => ~req[r].overlapped /\ (blurred => LogsStatus(r))
    BY <1>1, <1>4
  <2>3. CASE blurred'
    BY <2>3 DEF LogFollows
  <2>4. CASE ~blurred'
    <3>1. Tells(row.status)'
      BY <2>1, <2>2, <2>4
    <3> QED
      BY <3>1 DEF LogFollows, Tells
  <2> QED
    BY <2>3, <2>4
<1>10. row.exists
  BY <1>1 DEF IInv, CopyOf
<1> QED
  BY <1>1, <1>7, <1>8, <1>9, <1>10 DEF IInv

LEMMA ReadForDeleteInvariant ==
  ASSUME IInv, NEW r \in Requests, ReadForDelete(r)
  PROVE  IInv'
<1> DEFINE request == [Idle EXCEPT !.at = "deleting"]
<1>1. /\ Free(r) /\ row.exists
      /\ req' = [req EXCEPT ![r] = request]
      /\ UNCHANGED <<row, told, given, blurred, deaths>>
  BY DEF ReadForDelete, Found
<1>2. request \in Request /\ request.at = "deleting"
  BY IdleIsRequest DEF Request
<1> HIDE DEF request
<1>3. /\ req' \in [Requests -> Request] /\ req'[r] = request
      /\ \A q \in Requests : q # r => req'[q] = req[q]
  BY <1>1, <1>2 DEF IInv, TypeOK
<1>4. TypeOK'
  BY <1>1, <1>3 DEF IInv, TypeOK
<1>5. ASSUME NEW q \in Requests PROVE CopyOf(q)'
  <2>1. CopyOf(q)
    BY DEF IInv
  <2> QED
    BY <2>1, <1>1, <1>2, <1>3 DEF CopyOf, Tells
<1>6. LogFollows'
  BY <1>1, <1>2, <1>3 DEF IInv, LogFollows, Free, Tells
<1> QED
  BY <1>1, <1>4, <1>5, <1>6 DEF IInv

LEMMA SaveDeleteInvariant ==
  ASSUME IInv, NEW r \in Requests, SaveDelete(r)
  PROVE  IInv'
<1>1. /\ req[r].at = "deleting" /\ row' = [row EXCEPT !.deleted = TRUE]
      /\ req' = [OthersOverlap(r) EXCEPT ![r] = Idle]
      /\ UNCHANGED <<told, given, blurred, deaths>>
  BY DEF SaveDelete
<1>2. /\ req' \in [Requests -> Request] /\ req'[r] = Idle
      /\ \A q \in Requests : q # r =>
           /\ req'[q].at = req[q].at /\ req'[q].before = req[q].before
           /\ req'[q].after = req[q].after /\ req'[q].lowers = req[q].lowers
           /\ req[q].at # "free" => req'[q].overlapped = TRUE
  BY <1>1, IdleIsRequest, OthersOverlapped DEF IInv
<1>3. row \in Task /\ row.exists /\ Agrees(row)
  BY <1>1 DEF IInv, TypeOK, CopyOf, Tells
<1>4. /\ row' \in Task /\ row'.exists = row.exists /\ row'.status = row.status
      /\ row'.progress = row.progress /\ row'.completed = row.completed
  BY <1>1, <1>3 DEF Task
<1>5. TypeOK'
  BY <1>1, <1>2, <1>4 DEF IInv, TypeOK
<1>6. ASSUME NEW q \in Requests PROVE CopyOf(q)'
  <2>1. CopyOf(q)
    BY DEF IInv
  <2> QED
    BY <2>1, <1>2, <1>3, <1>4, IdleIsRequest DEF CopyOf, Tells
<1>7. LogFollows'
  BY <1>1, <1>2, <1>4 DEF IInv, LogFollows, Tells
<1>8. Agrees(row')
  BY <1>3, <1>4 DEF Agrees
<1> QED
  BY <1>3, <1>4, <1>5, <1>6, <1>7, <1>8 DEF IInv

LEMMA DieInvariant ==
  ASSUME IInv, NEW r \in Requests, Die(r)
  PROVE  IInv'
<1>1. /\ deaths < MaxDeaths /\ deaths' = deaths + 1
      /\ blurred' = (blurred \/ req[r].at = "saved")
      /\ req' = [req EXCEPT ![r] = Idle]
      /\ UNCHANGED <<row, told, given>>
  BY DEF Die
<1>2. /\ req' \in [Requests -> Request] /\ req'[r] = Idle
      /\ \A q \in Requests : q # r => req'[q] = req[q]
  BY <1>1, IdleIsRequest DEF IInv, TypeOK
<1>3. deaths' \in 0..MaxDeaths
  BY <1>1, DeathsAssumption DEF IInv, TypeOK
<1>4. blurred' \in BOOLEAN
  BY <1>1
<1>5. TypeOK'
  BY <1>1, <1>2, <1>3, <1>4 DEF IInv, TypeOK
<1>6. ASSUME NEW q \in Requests PROVE CopyOf(q)'
  <2>1. CopyOf(q)
    BY DEF IInv
  <2> QED
    BY <2>1, <1>1, <1>2, IdleIsRequest DEF CopyOf, Tells
<1>7. LogFollows'
  BY <1>1, <1>2 DEF IInv, LogFollows, Tells
<1> QED
  BY <1>1, <1>5, <1>6, <1>7 DEF IInv

LEMMA NextInvariant == IInv /\ [Next]_vars => IInv'
<1> SUFFICES ASSUME IInv, [Next]_vars PROVE IInv'
  OBVIOUS
<1>1. ASSUME NEW r \in Requests, NEW s \in Statuses, NEW p \in Progress,
             NEW a \in Staff \cup {Admin}, Create(r, s, p, a)
      PROVE  IInv'
  BY <1>1, CreateInvariant
<1>2. ASSUME NEW s \in Statuses, NEW p \in Progress, NEW a \in Staff \cup {Admin},
             NEW r \in Requests, NEW who \in Staff \cup {Admin}, ReadForPatch(r, who, s, p, a)
      PROVE  IInv'
  BY <1>2, ReadForPatchInvariant
<1>3. ASSUME NEW r \in Requests,
             \/ LogCreation(r) \/ SavePatch(r) \/ Log(r)
             \/ ReadForDelete(r) \/ SaveDelete(r) \/ Die(r)
      PROVE  IInv'
  BY <1>3, LogCreationInvariant, SavePatchInvariant, LogInvariant, ReadForDeleteInvariant, SaveDeleteInvariant,
     DieInvariant
<1>4. CASE UNCHANGED vars
  BY <1>4 DEF vars, IInv, TypeOK, CopyOf, LogFollows, Tells
<1> QED
  BY <1>1, <1>2, <1>3, <1>4 DEF Next

(* The stored row, the copies of the requests and the log agree in every   *)
(* reachable state.                                                        *)
THEOREM InductiveInvariant == Spec => []IInv
BY InitInvariant, NextInvariant, PTL DEF Spec

(* Every reachable state is well-typed. *)
THEOREM TypeCorrect == Spec => []TypeOK
<1>1. IInv => TypeOK
  BY DEF IInv
<1> QED
  BY <1>1, InductiveInvariant, PTL

(* Status, progress and completed_at of the stored row agree, whichever    *)
(* stale copies are saved.                                                 *)
THEOREM DoneIsConsistent == Spec => []DoneAgrees
<1>1. IInv => DoneAgrees
  BY DEF IInv, DoneAgrees, Agrees
<1> QED
  BY <1>1, InductiveInvariant, PTL

(* Log and creation tell the task's status unless requests overlapped or   *)
(* died since; creation itself logs no status.                             *)
THEOREM LogIsRight == Spec => []LogTellsStatus
<1>1. IInv => LogTellsStatus
  BY DEF IInv, LogFollows, LogTellsStatus, Busy, Free
<1> QED
  BY <1>1, InductiveInvariant, PTL

(* What a step does to the stored row. *)
LEMMA RowStep ==
  ASSUME IInv, [Next]_vars, row' # row
  PROVE  \/ ~row.exists
         \/ \E r \in Requests : SavePatch(r) \/ SaveDelete(r)
<1>1. ASSUME NEW r \in Requests, LogCreation(r) \/ Log(r) \/ ReadForDelete(r) \/ Die(r)
      PROVE  row' = row
  BY <1>1 DEF LogCreation, Log, ReadForDelete, Die
<1>2. ASSUME NEW s \in Statuses, NEW p \in Progress, NEW a \in Staff \cup {Admin},
             NEW r \in Requests, NEW who \in Staff \cup {Admin}, ReadForPatch(r, who, s, p, a)
      PROVE  row' = row
  BY <1>2 DEF ReadForPatch
<1> QED
  BY <1>1, <1>2 DEF Next, Create, vars

(* A deletion is undone only by a PATCH that was overtaken by it. *)
THEOREM DeletionIsFinal == Spec => ReturnsOnlyByOverlap
<1>1. ASSUME IInv, [Next]_vars, row.deleted, ~row'.deleted
      PROVE  \E r \in Requests : req[r].at = "read" /\ req[r].overlapped
  <2>1. row.exists
    BY <1>1 DEF IInv, NoTask
  <2>2. row \in Task /\ row' # row
    BY <1>1 DEF IInv, TypeOK
  <2>3. ASSUME NEW r \in Requests, SaveDelete(r) PROVE FALSE
    BY <1>1, <2>2, <2>3 DEF SaveDelete, Task
  <2>4. PICK r \in Requests : SavePatch(r)
    BY <1>1, <2>1, <2>2, <2>3, RowStep
  <2>5. req[r].at = "read" /\ ~req[r].before.deleted
    BY <1>1, <2>4 DEF IInv, CopyOf, SavePatch, Tells
  <2>6. ~req[r].overlapped => row = req[r].before
    BY <1>1, <2>5 DEF IInv, CopyOf, Tells
  <2> QED
    BY <1>1, <2>5, <2>6
<1>2. IInv /\ [Next]_vars =>
        [row.deleted /\ ~row'.deleted =>
           \E r \in Requests : req[r].at = "read" /\ req[r].overlapped]_vars
  BY <1>1
<1> QED
  BY <1>2, InductiveInvariant, PTL DEF Spec, ReturnsOnlyByOverlap

(* A done task is reopened only by a PATCH that lowers its progress or     *)
(* that saves a stale copy.                                                *)
THEOREM DoneIsReopenedByProgress == Spec => ReopenedByProgress
<1>1. ASSUME IInv, [Next]_vars, row.status = "done", row'.status # "done"
      PROVE  \E r \in Requests : req[r].at = "read" /\ (req[r].lowers \/ req[r].overlapped)
  <2>1. row.exists /\ row.progress = "full"
    BY <1>1 DEF IInv, NoTask, Agrees
  <2>2. row \in Task /\ row' # row
    BY <1>1 DEF IInv, TypeOK
  <2>3. ASSUME NEW r \in Requests, SaveDelete(r) PROVE FALSE
    BY <1>1, <2>2, <2>3 DEF SaveDelete, Task
  <2>4. PICK r \in Requests : SavePatch(r)
    BY <1>1, <2>1, <2>2, <2>3, RowStep
  <2>5. /\ req[r].at = "read" /\ row' = req[r].after
        /\ req[r].before.progress = "full" /\ ~req[r].lowers => req[r].after.status = "done"
    BY <1>1, <2>4 DEF IInv, CopyOf, SavePatch, Tells
  <2>6. ~req[r].overlapped => row = req[r].before
    BY <1>1, <2>5 DEF IInv, CopyOf, Tells
  <2> QED
    BY <1>1, <2>1, <2>5, <2>6
<1>2. IInv /\ [Next]_vars =>
        [row.status = "done" /\ row'.status # "done" =>
           \E r \in Requests : req[r].at = "read" /\ (req[r].lowers \/ req[r].overlapped)]_vars
  BY <1>1
<1> QED
  BY <1>2, InductiveInvariant, PTL DEF Spec, ReopenedByProgress
=============================================================================
