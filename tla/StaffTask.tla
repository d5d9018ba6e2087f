------------------------------ MODULE StaffTask ------------------------------
(***************************************************************************)
(* One staff task: admins assign and edit it, its assignee reports status  *)
(* and progress, admins delete it softly.  Every request reads the row,    *)
(* works on its copy and saves it whole, in autocommit, then writes the    *)
(* activity log; nothing locks the row in between.                         *)
(***************************************************************************)
EXTENDS Naturals, FiniteSets

CONSTANTS
  Requests,  \* requests in progress
  Staff,     \* users a task may be assigned to
  Admin,     \* who else edits it; as an assignee: an admin, or nobody
  Statuses,  \* StaffTask.STATUS_CHOICES, or those the code tells apart
  MaxDeaths  \* bound: requests that die before they have logged

ASSUME StatusesAssumption ==
  {"todo", "in_progress", "done"} \subseteq Statuses /\ "nothing" \notin Statuses
ASSUME PeopleAssumption == Admin \notin Staff
ASSUME DeathsAssumption == MaxDeaths \in Nat

VARIABLES
  row,     \* the StaffTask
  req,     \* req[r]: the request r
  told,    \* the status the newest EVENT_STATUS entry of the activity log
           \* tells; "nothing" while there is no such entry
  given,   \* history: the status the task was created with, while there is
           \* no such entry
  blurred, \* history: requests overlapped or died since told was last right
  deaths   \* requests that died

vars == <<row, req, told, given, blurred, deaths>>

Progress == {"none", "some", "full"}   \* progress_percent: 0, 1..99, 100

Task == [exists : BOOLEAN, deleted : BOOLEAN, status : Statuses, progress : Progress,
         assignee : Staff \cup {Admin}, started : BOOLEAN, completed : BOOLEAN]

(* created: inserted the row; read, saved: a PATCH; deleting: a DELETE.    *)
(* lowers: the PATCH sets progress_percent below 100; overlapped: another  *)
(* request wrote the row or its status into the log since this one read    *)
(* the row (history).                                                      *)
Request == [at : {"free", "created", "read", "saved", "deleting"}, before : Task, after : Task,
            lowers : BOOLEAN, overlapped : BOOLEAN]

NoTask == [exists |-> FALSE, deleted |-> FALSE, status |-> "todo", progress |-> "none",
           assignee |-> Admin, started |-> FALSE, completed |-> FALSE]
Idle == [at |-> "free", before |-> NoTask, after |-> NoTask,
         lowers |-> FALSE, overlapped |-> FALSE]

TypeOK ==
  /\ row \in Task
  /\ req \in [Requests -> Request]
  /\ {told, given} \subseteq Statuses \cup {"nothing"}
  /\ blurred \in BOOLEAN
  /\ deaths \in 0..MaxDeaths

Init ==
  /\ row = NoTask /\ told = "nothing" /\ given = "nothing"
  /\ req = [r \in Requests |-> Idle]
  /\ blurred = FALSE /\ deaths = 0

Free(r) == req[r].at = "free"
(* The requests that have read the row. *)
Busy == {r \in Requests : req[r].at \in {"read", "saved", "deleting"}}

-----------------------------------------------------------------------------
(* StaffTask.save. *)

Done(t) == t.status = "done" \/ t.progress = "full"

(* Mutant of Saved: progress 100 does not make the task done. *)
Mut_Saved_StatusOnly(t) ==
  [t EXCEPT !.progress = IF t.status = "done" THEN "full" ELSE @,
            !.completed = t.status = "done",
            !.started = @ \/ t.status = "in_progress"]
(* What save makes of the fields before it writes them. *)
Saved(t) ==
  [exists |-> t.exists, deleted |-> t.deleted,
   status |-> IF Done(t) THEN "done" ELSE t.status,
   progress |-> IF Done(t) THEN "full" ELSE t.progress,
   assignee |-> t.assignee,
   started |-> t.started \/ (~Done(t) /\ t.status = "in_progress"),
   completed |-> Done(t)]

(* t with a payload's status, progress and assignee. *)
Edited(t, s, p, a) ==
  [exists |-> TRUE, deleted |-> t.deleted, status |-> s, progress |-> p,
   assignee |-> a, started |-> t.started, completed |-> t.completed]

(* r wrote: the copies the others hold are no longer current. *)
OthersOverlap(r) ==
  [q \in Requests |-> IF q = r \/ Free(q) THEN req[q] ELSE [req[q] EXCEPT !.overlapped = TRUE]]

-----------------------------------------------------------------------------
(* Mutant of Create: a deleted row is used again. *)
Mut_Create_ReusesDeleted(r, s, p, a) ==
  /\ Free(r) /\ (row.exists => row.deleted)
  /\ row' = Saved(Edited(NoTask, s, p, a)) /\ given' = row'.status
  /\ req' = [req EXCEPT ![r] = [Idle EXCEPT !.at = "created"]]
  /\ UNCHANGED <<told, blurred, deaths>>
(* POST, an admin's: the row is inserted, with whatever status and         *)
(* progress the payload gives.                                             *)
Create(r, s, p, a) ==
  /\ Free(r) /\ ~row.exists
  /\ row' = Saved(Edited(NoTask, s, p, a)) /\ given' = row'.status
  /\ req' = [req EXCEPT ![r] = [Idle EXCEPT !.at = "created"]]
  /\ UNCHANGED <<told, blurred, deaths>>

(* "Task created by" and "Task assigned to": no entry tells the status. *)
LogCreation(r) ==
  /\ req[r].at = "created"
  /\ req' = [req EXCEPT ![r] = Idle]
  /\ UNCHANGED <<row, told, given, blurred, deaths>>

(* get_object *)
Found == row.exists /\ ~row.deleted

(* PATCH reads the row; who is not an admin sees only tasks of his own and *)
(* may not pass the task on.  after: what will be saved.                   *)
ReadForPatch(r, who, s, p, a) ==
  /\ Free(r) /\ Found
  /\ who # Admin => row.assignee = who /\ a = row.assignee
  /\ req' = [req EXCEPT ![r] =
       [at |-> "read", before |-> row,
        after |-> Saved(Edited(row, s, p, a)),
        lowers |-> p # row.progress /\ p # "full", overlapped |-> Busy # {}]]
  /\ UNCHANGED <<row, told, given, blurred, deaths>>

SavePatch(r) ==
  /\ req[r].at = "read"
  /\ row' = req[r].after
  /\ req' = [OthersOverlap(r) EXCEPT ![r] = [req[r] EXCEPT !.at = "saved"]]
  /\ UNCHANGED <<told, given, blurred, deaths>>

(* Mutant of LogsStatus: a completed task is logged as progress only. *)
Mut_LogsStatus_NotDone(r) ==
  req[r].before.status # req[r].after.status /\ req[r].after.status # "done"
LogsStatus(r) == req[r].before.status # req[r].after.status

(* The activity entries: of these only the status is followed. *)
Log(r) ==
  /\ req[r].at = "saved"
  /\ told' = IF LogsStatus(r) THEN req[r].after.status ELSE told
  /\ given' = IF LogsStatus(r) THEN "nothing" ELSE given
  /\ blurred' = (req[r].overlapped \/ (blurred /\ ~LogsStatus(r)))
  /\ req' = [OthersOverlap(r) EXCEPT ![r] = Idle]
  /\ UNCHANGED <<row, deaths>>

(* DELETE reads the row and saves is_deleted alone. *)
ReadForDelete(r) ==
  /\ Free(r) /\ Found
  /\ req' = [req EXCEPT ![r] = [Idle EXCEPT !.at = "deleting"]]
  /\ UNCHANGED <<row, told, given, blurred, deaths>>

SaveDelete(r) ==
  /\ req[r].at = "deleting"
  /\ row' = [row EXCEPT !.deleted = TRUE]
  /\ req' = [OthersOverlap(r) EXCEPT ![r] = Idle]
  /\ UNCHANGED <<told, given, blurred, deaths>>

(* The process serving r dies. *)
Die(r) ==
  /\ ~Free(r) /\ deaths < MaxDeaths
  /\ deaths' = deaths + 1
  /\ blurred' = (blurred \/ req[r].at = "saved")
  /\ req' = [req EXCEPT ![r] = Idle]
  /\ UNCHANGED <<row, told, given>>

Next ==
  \/ \E r \in Requests, s \in Statuses, p \in Progress, a \in Staff \cup {Admin} :
       \/ Create(r, s, p, a)
       \/ \E who \in Staff \cup {Admin} : ReadForPatch(r, who, s, p, a)
  \/ \E r \in Requests :
       \/ LogCreation(r)
       \/ SavePatch(r) \/ Log(r)
       \/ ReadForDelete(r) \/ SaveDelete(r)
       \/ Die(r)

Spec == Init /\ [][Next]_vars

-----------------------------------------------------------------------------
(* Properties. *)

(* Status, progress and completed_at of the stored row agree, whatever the *)
(* payloads and however stale the copy that was saved.                     *)
DoneAgrees ==
  row.exists => /\ (row.status = "done") <=> (row.progress = "full")
                /\ row.completed <=> (row.status = "done")

(* A deleted task comes back only when a request that had read it before   *)
(* the deletion saves its copy: no later request finds it.                 *)
ReturnsOnlyByOverlap ==
  [][row.deleted /\ ~row'.deleted =>
       \E r \in Requests : req[r].at = "read" /\ req[r].overlapped]_vars

(* A done task is reopened only by a PATCH that lowers its progress, a new *)
(* status alone does not do it; or by a stale copy.                        *)
ReopenedByProgress ==
  [][row.status = "done" /\ row'.status # "done" =>
       \E r \in Requests : req[r].at = "read" /\ (req[r].lowers \/ req[r].overlapped)]_vars

(* The log tells s: its newest status entry says so, or it has none and    *)
(* the task was created with s.                                            *)
Tells(s) == told = s \/ (told = "nothing" /\ given = s)

(* The status of a task follows from its activity log and the status it    *)
(* was created with, which the log does not tell: every later change has   *)
(* its entry, the change that a progress of 100 implies included, unless   *)
(* requests overlapped or died after the save; the next status that is     *)
(* logged undisturbed makes the log right again.                           *)
LogTellsStatus ==
  row.exists /\ ~blurred /\ Busy = {} => Tells(row.status)

-----------------------------------------------------------------------------
(* The inductive invariant the proofs use. *)

Agrees(t) ==
  /\ (t.status = "done") <=> (t.progress = "full")
  /\ t.completed <=> (t.status = "done")

(* What a request will save, or has saved, is a task that save made; while *)
(* nobody overlapped it, it starts from the stored row and ends in it.     *)
CopyOf(r) ==
  /\ req[r].at \in {"created", "read", "saved", "deleting"} => row.exists
  /\ req[r].at \in {"read", "saved"} =>
       /\ Agrees(req[r].after) /\ req[r].after.exists
       /\ ~req[r].before.deleted
       /\ req[r].before.progress = "full" /\ ~req[r].lowers => req[r].after.status = "done"
  /\ req[r].at = "read" /\ ~req[r].overlapped =>
       /\ row = req[r].before
       /\ \A q \in Requests : req[q].at # "saved"
  /\ req[r].at = "saved" /\ ~req[r].overlapped =>
       /\ row = req[r].after
       /\ ~blurred => Tells(req[r].before.status)

(* With no save that is still to be logged the log is right, or blurred. *)
LogFollows ==
  row.exists /\ ~blurred /\ (\A r \in Requests : req[r].at # "saved") => Tells(row.status)

IInv ==
  /\ TypeOK
  /\ row.exists => Agrees(row)
  /\ ~row.exists => row = NoTask /\ told = "nothing"
  /\ \A r \in Requests : CopyOf(r)
  /\ LogFollows
=============================================================================
