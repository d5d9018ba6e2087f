---------------------------- MODULE SupportTicket ----------------------------
(***************************************************************************)
(* One support ticket: staff and its client edit it and reply to it, and   *)
(* every such request ends by refreshing the ticket's SLA state.  Requests *)
(* work on the copy they read, each save writes only some columns (a PATCH *)
(* all of them), and nothing locks the row in between.  Time is counted    *)
(* from the creation of the ticket.                                        *)
(***************************************************************************)
EXTENDS Naturals

CONSTANTS
  Requests,    \* requests in progress
  Statuses,    \* SupportTicket.STATUS_CHOICES, or those the code tells apart
  Settled,     \* the statuses a ticket's clock does not run in: resolved, closed
  Priorities,  \* SupportTicket.PRIORITY_CHOICES
  First,       \* first_response_sla_for_priority
  Resolution,  \* resolution_sla_for_priority
  MaxTime,     \* bound: the clock
  MaxDeaths    \* bound: requests that die before they are done

ASSUME StatusesAssumption ==
  {"open", "in-progress"} \subseteq Statuses \ Settled /\ Settled \subseteq Statuses
ASSUME DeadlinesAssumption ==
  /\ First \in [Priorities -> Nat] /\ Resolution \in [Priorities -> Nat]
  /\ \A p \in Priorities : First[p] <= Resolution[p]
ASSUME PrioritiesAssumption == Priorities # {}
ASSUME BoundsAssumption == MaxTime \in Nat /\ MaxDeaths \in Nat

VARIABLES
  row,      \* the SupportTicket
  first,    \* created_at of the earliest stored reply of an admin
  req,      \* req[r]: the request r
  now,      \* the clock
  stored,   \* history: when the first reply of an admin was stored
  unheard,  \* history: an undisturbed client reply was not followed by a PATCH
  seen,     \* history: with no request at work, the time at which the one that
            \*   ended last looked at the deadlines; Never if others overlapped it
  blurred,  \* history: replies of admins overlapped other requests, or one died
  deaths    \* requests that died

vars == <<row, first, req, now, stored, unheard, seen, blurred, deaths>>

Times == 0..MaxTime + 1
Never == MaxTime + 1

(* due: the priority whose periods the two deadlines were computed from.   *)
Ticket == [exists : BOOLEAN, status : Statuses, due : Priorities,
           responded : Times, escalated : BOOLEAN]

(* overlapped: another request wrote the row or stored a reply of an admin *)
(* since this one read the row, or was at work then (history).             *)
Request == [at : {"free", "patch", "stamp", "insert", "answer", "clock", "query", "write"},
            role : {"admin", "client"}, copy : Ticket, stamp : Times, now : Times,
            changed : SUBSET {"responded", "escalation"}, overlapped : BOOLEAN]

Fields(exists, status, due, responded, escalated) ==
  [exists |-> exists, status |-> status, due |-> due, responded |-> responded,
   escalated |-> escalated]
NewTicket(p) == Fields(TRUE, "open", p, Never, FALSE)
NoTicket == Fields(FALSE, "open", CHOOSE p \in Priorities : TRUE, Never, FALSE)

Doing(at, role, copy, stamp, time, changed, overlapped) ==
  [at |-> at, role |-> role, copy |-> copy, stamp |-> stamp, now |-> time,
   changed |-> changed, overlapped |-> overlapped]
Idle == Doing("free", "client", NoTicket, Never, Never, {}, FALSE)
AtClock(copy, overlapped) == Doing("clock", "client", copy, Never, Never, {}, overlapped)

TypeOK ==
  /\ row \in Ticket
  /\ first \in Times /\ stored \in Times /\ seen \in Times
  /\ req \in [Requests -> Request]
  /\ now \in 0..MaxTime
  /\ unheard \in BOOLEAN /\ blurred \in BOOLEAN
  /\ deaths \in 0..MaxDeaths

Init ==
  /\ row = NoTicket /\ req = [r \in Requests |-> Idle]
  /\ first = Never /\ stored = Never /\ seen = Never
  /\ now = 0 /\ deaths = 0
  /\ unheard = FALSE /\ blurred = FALSE

Free(r) == req[r].at = "free"
Busy == {r \in Requests : ~Free(r)}

(* r goes on as q; if it wrote, the copies of the others are not current.  *)
Becomes(r, q) == req' = [req EXCEPT ![r] = q]
Overtaking(r, q) ==
  req' = [x \in Requests |->
            IF x = r THEN q
            ELSE IF Free(x) THEN req[x]
            ELSE Doing(req[x].at, req[x].role, req[x].copy, req[x].stamp, req[x].now,
                       req[x].changed, TRUE)]

-----------------------------------------------------------------------------
(* Creation, by whoever.  The refresh is still to come. *)
Create(r, p) ==
  /\ Free(r) /\ ~row.exists
  /\ row' = NewTicket(p)
  /\ Becomes(r, AtClock(NewTicket(p), Busy # {}))
  /\ UNCHANGED <<first, now, stored, unheard, seen, blurred, deaths>>

(* PATCH: the row is read, the payload applied to it.  due: the deadlines  *)
(* follow another priority when the payload sends them as null, since save *)
(* then computes them again, with the priority it has, from created_at.    *)
(* clears: the payload says is_escalated = false.  A client's PATCH sets a *)
(* settled status and nothing else, which is one of these.                 *)
Patched(t, s, due, clears) ==
  Fields(t.exists, s, due, t.responded, t.escalated /\ ~clears)

ReadForPatch(r, s, due, clears) ==
  /\ Free(r) /\ row.exists
  /\ Becomes(r, Doing("patch", "client", Patched(row, s, due, clears), Never, Never, {}, Busy # {}))
  /\ seen' = Never
  /\ UNCHANGED <<row, first, now, stored, unheard, blurred, deaths>>

(* serializer.save writes every column. *)
SavePatch(r) ==
  /\ req[r].at = "patch"
  /\ row' = req[r].copy
  /\ Overtaking(r, AtClock(req[r].copy, req[r].overlapped))
  /\ unheard' = FALSE
  /\ UNCHANGED <<first, now, stored, seen, blurred, deaths>>

-----------------------------------------------------------------------------
(* Reply: the row is read and the reply stored; an admin's gets its time   *)
(* before that.  Of a client's replies only their effects are followed.    *)
ReadForReply(r, role) ==
  /\ Free(r) /\ row.exists
  /\ Becomes(r, Doing(IF role = "admin" THEN "stamp" ELSE "answer", role, row,
                      Never, Never, {}, Busy # {}))
  /\ seen' = Never
  /\ UNCHANGED <<row, first, now, stored, unheard, blurred, deaths>>

Stamp(r) ==
  /\ req[r].at = "stamp"
  /\ Becomes(r, Doing("insert", req[r].role, req[r].copy, now, Never, {}, req[r].overlapped))
  /\ UNCHANGED <<row, first, now, stored, unheard, seen, blurred, deaths>>

Insert(r) ==
  /\ req[r].at = "insert"
  /\ first' = IF req[r].stamp < first THEN req[r].stamp ELSE first
  /\ stored' = IF stored = Never THEN now ELSE stored
  /\ blurred' = (blurred \/ req[r].overlapped)
  /\ Overtaking(r, Doing("answer", req[r].role, req[r].copy, req[r].stamp, Never, {},
                         req[r].overlapped))
  /\ UNCHANGED <<row, now, unheard, seen, deaths>>

(* An admin's reply takes up an open ticket: the status and, unless the    *)
(* copy has one, first_responded_at are written.                           *)
(* Mutant of FirstAnswer: a time that is known already is overwritten.     *)
Mut_FirstAnswer_Always(r, responded) == req[r].stamp
FirstAnswer(r, responded) == IF req[r].copy.responded = Never THEN req[r].stamp ELSE responded
Taken(r, t) == Fields(t.exists, "in-progress", t.due, FirstAnswer(r, t.responded), t.escalated)
TakeUp(r) ==
  /\ req[r].at = "answer" /\ req[r].role = "admin" /\ req[r].copy.status = "open"
  /\ row' = Taken(r, row)
  /\ blurred' = (blurred \/ req[r].overlapped)
  /\ Overtaking(r, AtClock(Taken(r, req[r].copy), req[r].overlapped))
  /\ UNCHANGED <<first, now, stored, unheard, seen, deaths>>

Opened(t) == Fields(t.exists, "open", t.due, t.responded, t.escalated)
(* A client's reply reopens a settled ticket. *)
Reopen(r) ==
  /\ req[r].at = "answer" /\ req[r].role = "client" /\ req[r].copy.status \in Settled
  /\ row' = Opened(row)
  /\ unheard' = (unheard \/ ~req[r].overlapped)
  /\ Overtaking(r, AtClock(Opened(req[r].copy), req[r].overlapped))
  /\ UNCHANGED <<first, now, stored, seen, blurred, deaths>>

LeaveStatus(r) ==
  /\ req[r].at = "answer"
  /\ ~(req[r].role = "admin" /\ req[r].copy.status = "open")
  /\ ~(req[r].role = "client" /\ req[r].copy.status \in Settled)
  /\ unheard' = (unheard \/ (req[r].role = "client" /\ ~req[r].overlapped))
  /\ Becomes(r, AtClock(req[r].copy, req[r].overlapped))
  /\ UNCHANGED <<row, first, now, stored, seen, blurred, deaths>>

-----------------------------------------------------------------------------
(* refresh_workflow_state: the clock is read, then the replies; what       *)
(* changes is set in the copy and written, if anything does.               *)
ReadClock(r) ==
  /\ req[r].at = "clock"
  /\ Becomes(r, Doing("query", "client", req[r].copy, Never, now, {}, req[r].overlapped))
  /\ UNCHANGED <<row, first, now, stored, unheard, seen, blurred, deaths>>

(* Mutant of Breach: a deadline is missed when it comes. *)
Mut_Breach_AtDeadline(t, time) ==
  IF t.status \in Settled THEN "none"
  ELSE IF t.responded = Never /\ time >= First[t.due] THEN "first"
  ELSE IF time >= Resolution[t.due] THEN "resolution" ELSE "none"
Breach(t, time) ==
  IF t.status \in Settled THEN "none"
  ELSE IF t.responded = Never /\ time > First[t.due] THEN "first"
  ELSE IF time > Resolution[t.due] THEN "resolution" ELSE "none"

Noticed(t) ==
  Fields(t.exists, t.status, t.due, IF t.responded = Never THEN first ELSE t.responded, t.escalated)

Recorded(t, breached) == Fields(t.exists, t.status, t.due, t.responded, t.escalated \/ breached)
(* Mutant of Refreshed: with the first response in time nothing is missed. *)
Mut_Refreshed_FirstOnly(t, time) == Recorded(Noticed(t), Breach(Noticed(t), time) = "first")
Refreshed(t, time) == Recorded(Noticed(t), Breach(Noticed(t), time) # "none")

Changed(t, u) ==
  {c \in {"responded", "escalation"} :
     \/ c = "responded" /\ u.responded # t.responded
     \/ c = "escalation" /\ u.escalated # t.escalated}

(* The end of r. *)
Ended(r) == seen' = IF req[r].overlapped \/ Busy # {r} THEN Never ELSE req[r].now

QueryReplies(r) ==
  /\ req[r].at = "query"
  /\ LET t == Refreshed(req[r].copy, req[r].now)
         changed == Changed(req[r].copy, t)
     IN /\ changed # {}
        /\ Becomes(r, Doing("write", "client", t, Never, req[r].now, changed, req[r].overlapped))
  /\ UNCHANGED <<row, first, now, stored, unheard, seen, blurred, deaths>>

NothingChanged(r) ==
  /\ req[r].at = "query"
  /\ Changed(req[r].copy, Refreshed(req[r].copy, req[r].now)) = {}
  /\ Becomes(r, Idle) /\ Ended(r)
  /\ UNCHANGED <<row, first, now, stored, unheard, blurred, deaths>>

(* Mutant of Written: the refresh saves every column. *)
Mut_Written_All(q) == q.copy
(* Only the changed columns are written. *)
Written(q) ==
  Fields(row.exists, row.status, row.due,
         IF "responded" \in q.changed THEN q.copy.responded ELSE row.responded,
         IF "escalation" \in q.changed THEN TRUE ELSE row.escalated)
WriteChanges(r) ==
  /\ req[r].at = "write"
  /\ row' = Written(req[r])
  /\ Overtaking(r, Idle) /\ Ended(r)
  /\ UNCHANGED <<first, now, stored, unheard, blurred, deaths>>

(* The process serving r dies. *)
Die(r) ==
  /\ ~Free(r) /\ deaths < MaxDeaths
  /\ deaths' = deaths + 1
  /\ Becomes(r, Idle)
  /\ seen' = Never /\ blurred' = TRUE
  /\ UNCHANGED <<row, first, now, stored, unheard>>

Tick ==
  /\ row.exists /\ now < MaxTime
  /\ now' = now + 1
  /\ UNCHANGED <<row, first, req, stored, unheard, seen, blurred, deaths>>

Next ==
  \/ \E r \in Requests :
       \/ \E p \in Priorities :
            \/ Create(r, p)
            \/ \E s \in Statuses, clears \in BOOLEAN : ReadForPatch(r, s, p, clears)
       \/ SavePatch(r)
       \/ \E role \in {"admin", "client"} : ReadForReply(r, role)
       \/ Stamp(r) \/ Insert(r)
       \/ TakeUp(r) \/ Reopen(r) \/ LeaveStatus(r)
       \/ ReadClock(r) \/ QueryReplies(r) \/ NothingChanged(r) \/ WriteChanges(r)
       \/ Die(r)
  \/ Tick

Spec == Init /\ [][Next]_vars

-----------------------------------------------------------------------------
(* Properties. *)

(* first_responded_at never claims an answer before there was one, and is  *)
(* the time of the earliest one unless that request overlapped another or  *)
(* a request died: who then answers next is taken for the first.           *)
RespondedIsFirst ==
  row.responded # Never =>
    /\ first # Never /\ first <= row.responded
    /\ ~blurred => row.responded = first

(* Once an admin has replied and no request is at work the ticket says so, *)
(* even if a PATCH that had read it before overwrote it: the refreshes     *)
(* repair that.  Only a request that dies can leave it out.                *)
AnswerKnown ==
  first # Never /\ Busy = {} /\ deaths = 0 => row.responded # Never

(* What the ticket says of its first answer is true, and is said.          *)
FirstAnswerTold == RespondedIsFirst /\ AnswerKnown

(* A first response is recorded as missed only if no reply of an admin was *)
(* stored by its deadline: the clock is read before the replies.           *)
MissedWasMissed ==
  \A r \in Requests :
    req[r].at = "write" /\ "escalation" \in req[r].changed /\ req[r].copy.responded = Never
      => stored > First[req[r].copy.due]

(* A ticket its client replied to, undisturbed, is not settled until it is *)
(* edited: no older reply or refresh settles it again.                     *)
UnheardStaysOpen == unheard => row.status \notin Settled

(* After a request nothing overlapped, a deadline that was over when it    *)
(* looked is recorded, also if it has just been shortened, the escalation  *)
(* cleared or the ticket reopened.                                         *)
EscalatedInTime ==
  Busy = {} /\ seen # Never /\ Breach(row, seen) # "none" => row.escalated
-----------------------------------------------------------------------------
(* The inductive invariant the proofs use. *)

(* first_responded_at of the row, or of a copy, against the replies. *)
Follows(t) ==
  /\ first <= t.responded
  /\ ~blurred /\ t.responded # Never => t.responded = first

(* What a request that nothing overlapped holds is the row. *)
CurrentOf(r) ==
  ~req[r].overlapped =>
    /\ req[r].at \in {"stamp", "insert", "answer", "clock", "query"} => req[r].copy = row
    /\ req[r].at = "write" => Written(req[r]) = req[r].copy

(* The time of r's reply against those that are stored. *)
StampOf(r) ==
  /\ req[r].at = "insert" =>
       /\ req[r].stamp <= now
       /\ first = Never \/ first <= req[r].stamp \/ req[r].overlapped
  /\ req[r].at = "answer" /\ req[r].role = "admin" => req[r].stamp <= now /\ first <= req[r].stamp

(* An undisturbed reply to an unanswered ticket is the first. *)
FirstOf(r) ==
  ~req[r].overlapped /\ ~blurred /\ req[r].copy.responded = Never =>
    /\ req[r].at \in {"stamp", "insert"} => first = Never
    /\ req[r].at = "answer" /\ req[r].role = "admin" => first = req[r].stamp

(* What r is about to record it has seen. *)
RecordOf(r) ==
  /\ req[r].at \in {"query", "write"} => req[r].now <= now
  /\ req[r].at = "write" =>
       /\ "responded" \in req[r].changed => req[r].copy.responded # Never
       /\ "escalation" \in req[r].changed /\ req[r].copy.responded = Never =>
            First[req[r].copy.due] < req[r].now /\ First[req[r].copy.due] < stored
       /\ req[r].copy.escalated \/ Breach(req[r].copy, req[r].now) = "none"

RequestOK(r) ==
  /\ ~Free(r) => row.exists /\ req[r].copy.exists /\ Follows(req[r].copy)
  /\ CurrentOf(r) /\ StampOf(r) /\ FirstOf(r) /\ RecordOf(r)

(* r will still write first_responded_at. *)
Pending(r) ==
  \/ req[r].at \in {"answer", "clock", "query"} /\ req[r].copy.responded = Never
  \/ req[r].at = "write" /\ "responded" \in req[r].changed

AnswerComes ==
  first # Never /\ deaths = 0 /\ row.responded = Never => \E r \in Requests : Pending(r)

IInv ==
  /\ TypeOK
  /\ \A r \in Requests : RequestOK(r)
  /\ first = Never \/ first <= now
  /\ first = Never <=> stored = Never
  /\ Follows(row)
  /\ AnswerComes
  /\ deaths > 0 => blurred
  /\ UnheardStaysOpen
  /\ EscalatedInTime
=============================================================================
