------------------------------ MODULE AuditChain ------------------------------
(***************************************************************************)
(* The audit log of apps/audit: rows chained by previous_hash, written by  *)
(* concurrent requests, purged by enforce_retention_policies, checked by   *)
(* verify_audit_integrity.                                                 *)
(*                                                                         *)
(* AuditLog.save runs without a transaction or a lock and is split at the  *)
(* clock readings and statements it makes.  A row's hash stands for its    *)
(* content: it is represented by the row's id, and what was hashed is kept *)
(* beside what was stored.                                                 *)
(***************************************************************************)
EXTENDS Integers, FiniteSets

CONSTANTS
  Writers,     \* requests that may write an entry
  Users,       \* accounts an entry may name
  Nobody,      \* user = NULL
  Retention,   \* AUDIT_LOG_RETENTION_DAYS, in ticks of the clock
  MaxRows,     \* bound: rows ever inserted
  MaxClock     \* bound: the clock stops here

ASSUME NobodyAssumption == Nobody \notin Users
ASSUME BoundsAssumption == Retention \in Nat /\ MaxRows \in Nat /\ MaxClock \in Nat

VARIABLES
  clock,    \* timezone.now()
  logs,     \* ids of the rows in the table
  entry,    \* entry[i]: the row of id i, kept after it is purged
  nextId,   \* the id sequence
  writer,   \* writer[w]: the AuditLog object w is saving
  deleted   \* accounts deleted so far

vars == <<clock, logs, entry, nextId, writer, deleted>>

Ids == 1..MaxRows
AnyUser == Users \cup {Nobody}
Times == 0..MaxClock

(* What _hash_payload covers; the fields no two steps tell apart are left  *)
(* out.  response_time is an int when hashed, a float once read back.      *)
Payload == [user : AnyUser, stamp : Times, time : {"int", "float"}]

(* prev = 0 is previous_hash = ""; seen: nextId when the latest row was    *)
(* looked up (history).                                                    *)
Entry == [user : AnyUser, stamp : Times, prev : 0..MaxRows, signed : Payload,
          until : Nat, seen : 1..MaxRows + 1]

Stages == {"idle", "stamped", "linked", "ready"}
Writer == [stage : Stages, row : Entry]

BlankPayload == [user |-> Nobody, stamp |-> 0, time |-> "int"]
Blank == [user |-> Nobody, stamp |-> 0, prev |-> 0, signed |-> BlankPayload,
          until |-> 0, seen |-> 1]
IdleWriter == [stage |-> "idle", row |-> Blank]

TypeOK ==
  /\ clock \in Times
  /\ nextId \in 1..MaxRows + 1
  /\ logs \subseteq 1..nextId - 1
  /\ entry \in [Ids -> Entry]
  /\ writer \in [Writers -> Writer]
  /\ deleted \subseteq Users

Init ==
  /\ clock = 0
  /\ logs = {}
  /\ entry = [i \in Ids |-> Blank]
  /\ nextId = 1
  /\ writer = [w \in Writers |-> IdleWriter]
  /\ deleted = {}

-----------------------------------------------------------------------------
(* AuditLog.save. *)

(* The object is built; timestamp and retention_until are set.             *)
Stamp(w) ==
  /\ writer[w].stage = "idle"
  /\ \E u \in AnyUser \ deleted :
       writer' = [writer EXCEPT ![w] =
         [stage |-> "stamped",
          row |-> [Blank EXCEPT !.user = u, !.until = clock + Retention,
                     !.signed = [user |-> u, stamp |-> clock, time |-> "int"]]]]
  /\ UNCHANGED <<clock, logs, entry, nextId, deleted>>

NotAfter(i, j) ==
  \/ entry[i].stamp < entry[j].stamp
  \/ entry[i].stamp = entry[j].stamp /\ i <= j

(* Mutant of Latest: ascending instead of descending. *)
Mut_Latest_Ascending == {i \in logs : \A j \in logs : NotAfter(i, j)}
(* order_by("-timestamp", "-id").first() *)
Latest == {i \in logs : \A j \in logs : NotAfter(j, i)}

(* previous_hash is taken from the latest row; entry_hash is computed.     *)
Link(w) ==
  /\ writer[w].stage = "stamped"
  /\ \E p \in IF logs = {} THEN {0} ELSE Latest :
       writer' = [writer EXCEPT ![w] =
         [stage |-> "linked",
          row |-> [writer[w].row EXCEPT !.prev = p, !.seen = nextId]]]
  /\ UNCHANGED <<clock, logs, entry, nextId, deleted>>

(* pre_save of the auto_now_add field reads the clock again.               *)
PreSave(w) ==
  /\ writer[w].stage = "linked"
  /\ writer' = [writer EXCEPT ![w] =
       [stage |-> "ready", row |-> [writer[w].row EXCEPT !.stamp = clock]]]
  /\ UNCHANGED <<clock, logs, entry, nextId, deleted>>

(* The INSERT; it fails, its id spent, if the account it names is gone.    *)
Insert(w) ==
  /\ writer[w].stage = "ready"
  /\ nextId <= MaxRows
  /\ writer' = [writer EXCEPT ![w] = IdleWriter]
  /\ IF writer[w].row.user \in deleted
     THEN UNCHANGED <<logs, entry>>
     ELSE /\ logs' = logs \cup {nextId}
          /\ entry' = [entry EXCEPT ![nextId] = writer[w].row]
  /\ nextId' = nextId + 1
  /\ UNCHANGED <<clock, deleted>>

(* The request dies, or the middleware swallows an exception of save.      *)
Abandon(w) ==
  /\ writer[w].stage # "idle"
  /\ writer' = [writer EXCEPT ![w] = IdleWriter]
  /\ UNCHANGED <<clock, logs, entry, nextId, deleted>>

-----------------------------------------------------------------------------
(* Retention, account deletion, time. *)

Overdue == {i \in logs : entry[i].until < clock}

(* enforce_retention_policies, its audit_logs line. *)
Purge ==
  /\ Overdue # {}
  /\ logs' = logs \ Overdue
  /\ UNCHANGED <<clock, entry, nextId, writer, deleted>>

(* Deleting an account: on_delete = SET_NULL updates the rows in place.    *)
DeleteUser(u) ==
  /\ u \in Users \ deleted
  /\ deleted' = deleted \cup {u}
  /\ entry' = [i \in Ids |-> IF i \in logs /\ entry[i].user = u
                             THEN [entry[i] EXCEPT !.user = Nobody] ELSE entry[i]]
  /\ UNCHANGED <<clock, logs, nextId, writer>>

Tick ==
  /\ clock < MaxClock
  /\ clock' = clock + 1
  /\ UNCHANGED <<logs, entry, nextId, writer, deleted>>

Save(w) == Stamp(w) \/ Link(w) \/ PreSave(w) \/ Insert(w) \/ Abandon(w)

Next ==
  \/ \E w \in Writers : Save(w)
  \/ Purge
  \/ \E u \in Users : DeleteUser(u)
  \/ Tick

Spec == Init /\ [][Next]_vars

-----------------------------------------------------------------------------
(* verify_audit_integrity. *)

(* i comes immediately before j in the order of the check. *)
Precedes(i, j) ==
  /\ i # j /\ NotAfter(i, j)
  /\ \A k \in logs : NotAfter(k, i) \/ NotAfter(j, k)

First == {i \in logs : \A j \in logs : NotAfter(i, j)}

(* The previous_hash of each row is the entry_hash of the row before it.   *)
LinksVerify ==
  /\ \A i \in First : entry[i].prev = 0
  /\ \A i, j \in logs : Precedes(i, j) => entry[j].prev = i

(* The content of each row still hashes to its entry_hash.                 *)
Stored(i) == [user |-> entry[i].user, stamp |-> entry[i].stamp, time |-> "float"]
SignaturesVerify == \A i \in logs : Stored(i) = entry[i].signed

-----------------------------------------------------------------------------
(* Properties. *)

(* While no row is inserted between another's first clock reading and its  *)
(* INSERT the chain is whole: whatever is purged or abandoned, the only    *)
(* link the check can miss is the first row's, to a row that was purged.   *)
SavedSerially ==
  \A i \in 1..nextId - 1 :
    entry[i].seen = i /\ \A j \in 1..i : entry[j].until <= entry[i].until

SerialSavesChain ==
  SavedSerially =>
    /\ \A i, j \in logs : Precedes(i, j) => entry[j].prev = i
    /\ \A i \in First : entry[i].prev \in {0} \cup ((1..i - 1) \ logs)

(* Two rows name the same predecessor only if the later one had looked it  *)
(* up before the earlier one was inserted: a fork is always a race.        *)
ForkOnlyByOverlap ==
  \A a, b \in logs :
    a < b /\ entry[a].prev = entry[b].prev => entry[b].seen <= a

-----------------------------------------------------------------------------
(* The inductive invariant of the proof of ForkOnlyByOverlap. *)

(* A row or an object being saved comes after the row it is linked to.     *)
After(row, id, time) ==
  row.prev # 0 => row.prev < id /\ entry[row.prev].stamp <= time

RowsFollow ==
  \A i \in Ids :
    /\ entry[i].stamp <= clock
    /\ After(entry[i], i, entry[i].stamp)
    /\ i >= nextId => entry[i].prev = 0

WritersFollow ==
  \A w \in Writers :
    LET row == writer[w].row  stage == writer[w].stage
    IN  /\ row.seen <= nextId
        /\ stage = "linked" => After(row, nextId, clock)
        /\ stage = "ready" => row.stamp <= clock /\ After(row, nextId, row.stamp)
        /\ stage \in {"linked", "ready"} =>
             \A a \in logs : entry[a].prev = row.prev => row.seen <= a

IInv == TypeOK /\ RowsFollow /\ WritersFollow /\ ForkOnlyByOverlap
=============================================================================
