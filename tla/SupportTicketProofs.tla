------------------------ MODULE SupportTicketProofs ------------------------
(* Theorems about SupportTicket, for any number of requests, priorities    *)
(* and periods of which a first response is due before the resolution.     *)
EXTENDS SupportTicket, TLAPS

LEMMA TicketFields ==
  ASSUME NEW e \in BOOLEAN, NEW s \in Statuses, NEW d \in Priorities, NEW t \in Times,
         NEW x \in BOOLEAN
  PROVE  LET u == Fields(e, s, d, t, x)
         IN  /\ u \in Ticket
             /\ u.exists = e /\ u.status = s /\ u.due = d /\ u.responded = t /\ u.escalated = x
BY DEF Fields, Ticket

Steps == {"free", "patch", "stamp", "insert", "answer", "clock", "query", "write"}
Roles == {"admin", "client"}
Columns == {"responded", "escalation"}

LEMMA RequestFields ==
  ASSUME NEW a \in Steps, NEW o \in Roles, NEW c \in Ticket, NEW t \in Times, NEW n \in Times,
         NEW h \in SUBSET Columns, NEW v \in BOOLEAN
  PROVE  LET q == Doing(a, o, c, t, n, h, v)
         IN  /\ q \in Request
             /\ q.at = a /\ q.role = o /\ q.copy = c /\ q.stamp = t /\ q.now = n
             /\ q.changed = h /\ q.overlapped = v
BY DEF Doing, Request, Steps, Roles, Columns

LEMMA TimesAreNumbers ==
  /\ Never \in Times /\ 0 \in Times /\ Times \subseteq Nat /\ MaxTime \in Nat
  /\ \A t \in Times : t <= Never
  /\ \A t \in 0..MaxTime : t \in Times /\ t < Never
BY BoundsAssumption DEF Times, Never

LEMMA FieldsOfTypes ==
  /\ \A q \in Request :
       /\ q.at \in Steps /\ q.role \in Roles /\ q.copy \in Ticket /\ q.stamp \in Times
       /\ q.now \in Times /\ q.changed \in SUBSET Columns /\ q.overlapped \in BOOLEAN
  /\ \A t \in Ticket :
       /\ t.exists \in BOOLEAN /\ t.status \in Statuses /\ t.due \in Priorities
       /\ t.responded \in Times /\ t.escalated \in BOOLEAN
<1>1. \A q \in Request :
       /\ q.at \in Steps /\ q.role \in Roles /\ q.copy \in Ticket /\ q.stamp \in Times
       /\ q.now \in Times /\ q.changed \in SUBSET Columns /\ q.overlapped \in BOOLEAN
  BY DEF Request, Steps, Roles, Columns
<1>2. \A t \in Ticket :
       /\ t.exists \in BOOLEAN /\ t.status \in Statuses /\ t.due \in Priorities
       /\ t.responded \in Times /\ t.escalated \in BOOLEAN
  BY DEF Ticket
<1> QED
  BY <1>1, <1>2

LEMMA OpenStatuses == "open" \in Statuses /\ "in-progress" \in Statuses
                      /\ "open" \notin Settled /\ "in-progress" \notin Settled
BY StatusesAssumption

LEMMA NoTicketIsTicket ==
  NoTicket \in Ticket /\ NoTicket.exists = FALSE /\ NoTicket.status = "open"
  /\ NoTicket.responded = Never
<1>1. (CHOOSE p \in Priorities : TRUE) \in Priorities
  BY PrioritiesAssumption
<1> QED
  BY <1>1, OpenStatuses, TimesAreNumbers DEF NoTicket, Fields, Ticket

LEMMA NewTicketIsTicket ==
  ASSUME NEW p \in Priorities
  PROVE  /\ NewTicket(p) \in Ticket /\ NewTicket(p).exists = TRUE
         /\ NewTicket(p).status = "open" /\ NewTicket(p).responded = Never
BY OpenStatuses, TimesAreNumbers DEF NewTicket, Fields, Ticket

LEMMA IdleIsRequest == Idle \in Request /\ Idle.at = "free"
BY NoTicketIsTicket, TimesAreNumbers DEF Idle, Doing, Request

LEMMA AtClockIsRequest ==
  ASSUME NEW c \in Ticket, NEW v \in BOOLEAN
  PROVE  LET q == AtClock(c, v)
         IN  q \in Request /\ q.at = "clock" /\ q.copy = c /\ q.overlapped = v
<1>1. "clock" \in Steps /\ "client" \in Roles /\ {} \in SUBSET Columns /\ Never \in Times
  BY TimesAreNumbers DEF Steps, Roles
<1> QED
  BY <1>1, RequestFields DEF AtClock

-----------------------------------------------------------------------------
(* What a step of r does to the others. *)

(* Becomes leaves them alone. *)
LEMMA OthersKept ==
  ASSUME IInv, NEW r \in Requests, NEW q \in Request, Becomes(r, q),
         row' = row, first' = first, stored' = stored, now' = now, blurred => blurred'
  PROVE  /\ req' \in [Requests -> Request] /\ req'[r] = q
         /\ \A x \in Requests \ {r} : RequestOK(x)' /\ req'[x] = req[x]
<1>1. req \in [Requests -> Request]
  BY DEF IInv, TypeOK
<1>2. req' \in [Requests -> Request] /\ req'[r] = q /\ \A x \in Requests \ {r} : req'[x] = req[x]
  BY <1>1 DEF Becomes
<1>3. ASSUME NEW x \in Requests \ {r}
      PROVE  RequestOK(x)'
  <2>1. RequestOK(x) /\ req'[x] = req[x]
    BY <1>2 DEF IInv
  <2>2. Follows(req[x].copy) => Follows(req[x].copy)'
    BY <2>1 DEF Follows
  <2>3. (~Free(x) => row.exists /\ req[x].copy.exists /\ Follows(req[x].copy))'
    BY <2>1, <2>2 DEF RequestOK, Free
  <2>4. CurrentOf(x)'
    BY <2>1 DEF RequestOK, CurrentOf, Written
  <2>5. StampOf(x)' /\ FirstOf(x)'
    BY <2>1 DEF RequestOK, StampOf, FirstOf
  <2>6. RecordOf(x)'
    BY <2>1 DEF RequestOK, RecordOf, Breach
  <2> QED
    BY <2>3, <2>4, <2>5, <2>6 DEF RequestOK
<1> QED
  BY <1>2, <1>3

(* Overtaking only marks them, and what they have seen stays true. *)
LEMMA OthersOvertaken ==
  ASSUME IInv, NEW r \in Requests, NEW q \in Request, Overtaking(r, q),
         row'.exists, now' = now, first' \in Times, first' <= first,
         stored' = stored \/ (stored = Never /\ stored' = now),
         \A t \in Ticket : Follows(t) => Follows(t)'
  PROVE  /\ req' \in [Requests -> Request] /\ req'[r] = q
         /\ \A x \in Requests \ {r} :
              RequestOK(x)' /\ req'[x].at = req[x].at /\ req'[x].copy = req[x].copy
              /\ req'[x].changed = req[x].changed
<1>1. /\ req \in [Requests -> Request] /\ now \in 0..MaxTime
      /\ first \in Times /\ stored \in Times
  BY DEF IInv, TypeOK
<1>2. \A x \in Requests : req[x] \in Request
  BY <1>1
<1> DEFINE m(x) == Doing(req[x].at, req[x].role, req[x].copy, req[x].stamp, req[x].now,
                         req[x].changed, TRUE)
<1>3. ASSUME NEW x \in Requests
      PROVE  /\ m(x) \in Request
             /\ m(x).at = req[x].at /\ m(x).role = req[x].role /\ m(x).copy = req[x].copy
             /\ m(x).stamp = req[x].stamp /\ m(x).now = req[x].now
             /\ m(x).changed = req[x].changed /\ m(x).overlapped = TRUE
  <2>1. req[x] \in Request
    BY <1>2
  <2> QED
    BY <2>1 DEF Doing, Request
<1>4. req' = [x \in Requests |-> IF x = r THEN q ELSE IF Free(x) THEN req[x] ELSE m(x)]
  BY DEF Overtaking
<1> HIDE DEF m
<1>5. req' \in [Requests -> Request] /\ req'[r] = q
  BY <1>2, <1>3, <1>4
<1>6. ASSUME NEW x \in Requests \ {r}
      PROVE  RequestOK(x)' /\ req'[x].at = req[x].at /\ req'[x].copy = req[x].copy
             /\ req'[x].changed = req[x].changed
  <2>1. CASE Free(x)
    <3>1. req'[x] = req[x] /\ req[x].at = "free"
      BY <1>4, <2>1 DEF Free
    <3> QED
      BY <3>1 DEF RequestOK, Free, CurrentOf, StampOf, FirstOf, RecordOf
  <2>2. CASE ~Free(x)
    <3>1. /\ req'[x].at = req[x].at /\ req'[x].role = req[x].role /\ req'[x].copy = req[x].copy
          /\ req'[x].stamp = req[x].stamp /\ req'[x].now = req[x].now
          /\ req'[x].changed = req[x].changed /\ req'[x].overlapped = TRUE
      <4>1. req'[x] = m(x)
        BY <1>4, <2>2
      <4> QED
        BY <1>3, <4>1
    <3>2. RequestOK(x) /\ req[x].copy \in Ticket /\ req[x].stamp \in Times /\ req[x].now \in Times
      BY <1>2, FieldsOfTypes DEF IInv
    <3>3. (~Free(x) => row.exists /\ req[x].copy.exists /\ Follows(req[x].copy))'
      BY <2>2, <3>1, <3>2 DEF RequestOK, Free, Follows
    <3>4. CurrentOf(x)' /\ FirstOf(x)'
      BY <3>1 DEF CurrentOf, FirstOf
    <3>5. StampOf(x)'
      <4>1. StampOf(x)
        BY <3>2 DEF RequestOK
      <4>2. req[x].at = "insert" => req[x].stamp <= now
        BY <4>1 DEF StampOf
      <4>3. req[x].at = "answer" /\ req[x].role = "admin" =>
              req[x].stamp <= now /\ first' <= req[x].stamp
        <5>1. req[x].at = "answer" /\ req[x].role = "admin" =>
                req[x].stamp <= now /\ first <= req[x].stamp
          BY <4>1 DEF StampOf
        <5>2. first \in Nat /\ first' \in Nat /\ req[x].stamp \in Nat
          BY <1>1, <3>2, TimesAreNumbers
        <5> QED
          BY <5>1, <5>2
      <4> QED
        BY <3>1, <4>2, <4>3 DEF StampOf
    <3>6. RecordOf(x)'
      <4>1. First[req[x].copy.due] \in Nat
        BY <3>2, FieldsOfTypes, DeadlinesAssumption
      <4>2. Breach(req[x].copy, req[x].now)' = Breach(req[x].copy, req[x].now)
        BY <3>1 DEF Breach
      <4>3. RecordOf(x)
        BY <3>2 DEF RequestOK
      <4>4. First[req[x].copy.due] < req[x].now /\ req[x].now <= now
            /\ First[req[x].copy.due] < stored => First[req[x].copy.due] < stored'
        BY <1>1, <3>2, <4>1, TimesAreNumbers
      <4>5. req[x].at = "write" /\ "escalation" \in req[x].changed /\ req[x].copy.responded = Never
              => First[req[x].copy.due] < stored'
        BY <4>3, <4>4 DEF RecordOf
      <4> QED
        BY <3>1, <4>2, <4>3, <4>5 DEF RecordOf
    <3> QED
      BY <3>1, <3>3, <3>4, <3>5, <3>6 DEF RequestOK
  <2> QED
    BY <2>1, <2>2
<1> QED
  BY <1>5, <1>6

(* What the invariant says of the types of r and of the row. *)
LEMMA InvariantTypes ==
  ASSUME IInv, NEW r \in Requests
  PROVE  /\ req \in [Requests -> Request] /\ req[r] \in Request
         /\ req[r].at \in Steps /\ req[r].role \in Roles /\ req[r].copy \in Ticket
         /\ req[r].stamp \in Times /\ req[r].now \in Times
         /\ req[r].changed \in SUBSET Columns /\ req[r].overlapped \in BOOLEAN
         /\ row \in Ticket /\ row.responded \in Times /\ row.exists \in BOOLEAN
         /\ req[r].copy.responded \in Times
         /\ first \in Times /\ stored \in Times /\ seen \in Times /\ now \in 0..MaxTime
         /\ deaths \in 0..MaxDeaths /\ blurred \in BOOLEAN /\ unheard \in BOOLEAN
<1>1. TypeOK /\ req[r] \in Request
  BY DEF IInv, TypeOK
<1> QED
  BY <1>1, FieldsOfTypes DEF TypeOK

(* A step that disturbs nobody keeps the invariant if r itself is in order. *)
LEMMA QuietStep ==
  ASSUME IInv, NEW r \in Requests, NEW q \in Request, Becomes(r, q),
         UNCHANGED <<row, first, stored, now, deaths, blurred>>,
         seen' \in Times, unheard' \in BOOLEAN,
         RequestOK(r)', Pending(r) /\ first # Never => Pending(r)',
         UnheardStaysOpen', EscalatedInTime'
  PROVE  IInv'
<1>1. /\ req' \in [Requests -> Request]
      /\ \A x \in Requests \ {r} : RequestOK(x)' /\ req'[x] = req[x]
  BY OthersKept
<1>2. TypeOK'
  BY <1>1 DEF IInv, TypeOK
<1>3. (\A x \in Requests : RequestOK(x))'
  BY <1>1
<1>4. AnswerComes'
  <2>1. \A x \in Requests \ {r} : Pending(x) => Pending(x)'
    BY <1>1 DEF Pending
  <2> QED
    BY <2>1 DEF IInv, AnswerComes
<1>5. Follows(row)'
  BY DEF IInv, Follows
<1> QED
  BY <1>2, <1>3, <1>4, <1>5 DEF IInv

LEMMA BusyIsNotIdle ==
  ASSUME NEW r \in Requests, (req[r].at # "free")'
  PROVE  EscalatedInTime'
BY DEF EscalatedInTime, Busy, Free

LEMMA InitInvariant == Init => IInv
<1> SUFFICES ASSUME Init PROVE IInv
  OBVIOUS
<1>1. TypeOK
  <2>1. row \in Ticket /\ req \in [Requests -> Request]
    BY NoTicketIsTicket, IdleIsRequest DEF Init
  <2>2. first \in Times /\ stored \in Times /\ seen \in Times /\ now \in 0..MaxTime
    BY TimesAreNumbers DEF Init
  <2>3. deaths \in 0..MaxDeaths
    BY BoundsAssumption DEF Init
  <2>4. unheard \in BOOLEAN /\ blurred \in BOOLEAN
    BY DEF Init
  <2> QED
    BY <2>1, <2>2, <2>3, <2>4 DEF TypeOK
<1>2. \A r \in Requests : RequestOK(r)
  BY IdleIsRequest DEF Init, RequestOK, Free, CurrentOf, StampOf, FirstOf, RecordOf
<1>3. Follows(row)
  BY NoTicketIsTicket, TimesAreNumbers DEF Init, Follows
<1>4. AnswerComes /\ UnheardStaysOpen /\ EscalatedInTime
  BY DEF Init, AnswerComes, UnheardStaysOpen, EscalatedInTime
<1>5. ~(deaths > 0) /\ first = Never /\ stored = Never
  BY DEF Init
<1> QED
  BY <1>1, <1>2, <1>3, <1>4, <1>5 DEF IInv

LEMMA CreateInvariant ==
  ASSUME IInv, NEW r \in Requests, NEW p \in Priorities, Create(r, p)
  PROVE  IInv'
<1> DEFINE q == AtClock(NewTicket(p), Busy # {})
<1>1. /\ ~row.exists /\ row' = NewTicket(p) /\ Becomes(r, q)
      /\ UNCHANGED <<first, now, stored, unheard, seen, blurred, deaths>>
  BY DEF Create
<1>2. \A x \in Requests : req[x].at = "free"
  BY <1>1 DEF IInv, RequestOK, Free
<1>3. /\ NewTicket(p) \in Ticket /\ NewTicket(p).exists = TRUE
      /\ NewTicket(p).status = "open" /\ NewTicket(p).responded = Never
  BY NewTicketIsTicket
<1>4. q \in Request /\ q.at = "clock" /\ q.copy = NewTicket(p)
  BY <1>3, AtClockIsRequest
<1>5. req \in [Requests -> Request]
  BY DEF IInv, TypeOK
<1> HIDE DEF q
<1>6. req' \in [Requests -> Request] /\ req'[r] = q /\ \A x \in Requests \ {r} : req'[x] = req[x]
  BY <1>1, <1>4, <1>5 DEF Becomes
<1>7. TypeOK'
  BY <1>1, <1>3, <1>6 DEF IInv, TypeOK
<1>8. Follows(row)' /\ Follows(NewTicket(p))'
  BY <1>1, <1>3, TimesAreNumbers DEF IInv, TypeOK, Follows
<1>9. RequestOK(r)'
  BY <1>1, <1>3, <1>4, <1>6, <1>8 DEF RequestOK, CurrentOf, StampOf, FirstOf, RecordOf
<1>10. \A x \in Requests \ {r} : RequestOK(x)'
  BY <1>2, <1>6 DEF RequestOK, Free, CurrentOf, StampOf, FirstOf, RecordOf
<1>11. AnswerComes'
  BY <1>3, <1>4, <1>6 DEF AnswerComes, Pending
<1>12. UnheardStaysOpen'
  BY <1>1, <1>3, OpenStatuses DEF UnheardStaysOpen
<1>13. EscalatedInTime'
  BY <1>4, <1>6, BusyIsNotIdle
<1> QED
  BY <1>1, <1>7, <1>8, <1>9, <1>10, <1>11, <1>12, <1>13 DEF IInv

(* r reads the row: nobody else at work means every answer is in it. *)
LEMMA ReadingAlone ==
  ASSUME IInv, Busy = {}, ~blurred, row.responded = Never
  PROVE  first = Never
<1>1. deaths = 0
  BY BoundsAssumption DEF IInv, TypeOK
<1>2. \A x \in Requests : ~Pending(x)
  BY DEF Busy, Free, Pending
<1> QED
  BY <1>1, <1>2 DEF IInv, AnswerComes

LEMMA ReadForPatchInvariant ==
  ASSUME IInv, NEW r \in Requests, NEW s \in Statuses, NEW p \in Priorities,
         NEW clears \in BOOLEAN, ReadForPatch(r, s, p, clears)
  PROVE  IInv'
<1> DEFINE t == Patched(row, s, p, clears)
<1> DEFINE q == Doing("patch", "client", t, Never, Never, {}, Busy # {})
<1>1. /\ Free(r) /\ row.exists /\ Becomes(r, q) /\ seen' = Never
      /\ UNCHANGED <<row, first, now, stored, unheard, blurred, deaths>>
  BY DEF ReadForPatch
<1>2. t \in Ticket /\ t.responded = row.responded /\ t.exists = row.exists
  BY InvariantTypes DEF Patched, Fields, Ticket
<1> HIDE DEF t
<1>3. q \in Request /\ q.at = "patch" /\ q.copy = t
  BY <1>2, TimesAreNumbers DEF Doing, Request
<1> HIDE DEF q
<1>4. req'[r] = q
  BY <1>1, <1>3, OthersKept
<1>5. Follows(req[r].copy)'
  BY <1>1, <1>2, <1>3, <1>4 DEF IInv, Follows
<1>6. RequestOK(r)'
  BY <1>1, <1>2, <1>3, <1>4, <1>5 DEF RequestOK, CurrentOf, StampOf, FirstOf, RecordOf
<1>7. ~Pending(r)
  BY <1>1 DEF Free, Pending
<1>8. EscalatedInTime' /\ UnheardStaysOpen'
  BY <1>1, <1>3, <1>4, BusyIsNotIdle DEF IInv, UnheardStaysOpen
<1>9. seen' \in Times /\ unheard' \in BOOLEAN
  BY <1>1, InvariantTypes, TimesAreNumbers
<1> QED
  BY <1>1, <1>3, <1>6, <1>7, <1>8, <1>9, QuietStep

LEMMA ReadForReplyInvariant ==
  ASSUME IInv, NEW r \in Requests, NEW role \in {"admin", "client"}, ReadForReply(r, role)
  PROVE  IInv'
<1> DEFINE at == IF role = "admin" THEN "stamp" ELSE "answer"
<1> DEFINE q == Doing(at, role, row, Never, Never, {}, Busy # {})
<1>1. /\ Free(r) /\ row.exists /\ Becomes(r, q) /\ seen' = Never
      /\ UNCHANGED <<row, first, now, stored, unheard, blurred, deaths>>
  BY DEF ReadForReply
<1>2. /\ q \in Request /\ q.at = at /\ q.role = role /\ q.copy = row
      /\ q.overlapped = (Busy # {})
  BY InvariantTypes, TimesAreNumbers DEF Doing, Request
<1> HIDE DEF q
<1>3. req'[r] = q
  BY <1>1, <1>2, OthersKept
<1>4. Follows(row)'
  BY <1>1 DEF IInv, Follows
<1>5. ~q.overlapped /\ ~blurred /\ row.responded = Never => first = Never
  BY <1>2, ReadingAlone
<1>6. RequestOK(r)'
  <2>1. CurrentOf(r)' /\ StampOf(r)' /\ RecordOf(r)'
    BY <1>1, <1>2, <1>3 DEF CurrentOf, StampOf, RecordOf
  <2>2. FirstOf(r)'
    BY <1>1, <1>2, <1>3, <1>5 DEF FirstOf
  <2> QED
    BY <1>1, <1>2, <1>3, <1>4, <2>1, <2>2 DEF RequestOK
<1>7. ~Pending(r)
  BY <1>1 DEF Free, Pending
<1>8. EscalatedInTime' /\ UnheardStaysOpen'
  BY <1>1, <1>2, <1>3, BusyIsNotIdle DEF IInv, UnheardStaysOpen
<1>9. seen' \in Times /\ unheard' \in BOOLEAN
  BY <1>1, InvariantTypes, TimesAreNumbers
<1> QED
  BY <1>1, <1>2, <1>6, <1>7, <1>8, <1>9, QuietStep

LEMMA StampInvariant ==
  ASSUME IInv, NEW r \in Requests, Stamp(r)
  PROVE  IInv'
<1> DEFINE q == Doing("insert", req[r].role, req[r].copy, now, Never, {}, req[r].overlapped)
<1>1. /\ req[r].at = "stamp" /\ Becomes(r, q)
      /\ UNCHANGED <<row, first, now, stored, unheard, seen, blurred, deaths>>
  BY DEF Stamp
<1>2. /\ q \in Request /\ q.at = "insert" /\ q.role = req[r].role /\ q.copy = req[r].copy
      /\ q.stamp = now /\ q.overlapped = req[r].overlapped
  <2>1. now \in Times
    BY InvariantTypes, TimesAreNumbers
  <2> QED
    BY <2>1, InvariantTypes, TimesAreNumbers DEF Doing, Request, Steps, Roles
<1> HIDE DEF q
<1>3. req'[r] = q
  BY <1>1, <1>2, OthersKept
<1>4. RequestOK(r) /\ (first = Never \/ first <= now)
  BY DEF IInv
<1>5. RequestOK(r)'
  <2>1. (row.exists /\ req[r].copy.exists /\ Follows(req[r].copy))'
    BY <1>1, <1>2, <1>3, <1>4 DEF RequestOK, Free, Follows
  <2>2. CurrentOf(r)' /\ RecordOf(r)'
    BY <1>1, <1>2, <1>3, <1>4 DEF RequestOK, CurrentOf, RecordOf
  <2>3. FirstOf(r)'
    BY <1>1, <1>2, <1>3, <1>4 DEF RequestOK, FirstOf
  <2>4. StampOf(r)'
    <3>1. now <= now
      BY InvariantTypes
    <3> QED
      BY <1>1, <1>2, <1>3, <1>4, <3>1 DEF StampOf
  <2> QED
    BY <1>1, <1>2, <1>3, <2>1, <2>2, <2>3, <2>4 DEF RequestOK
<1>6. ~Pending(r)
  BY <1>1 DEF Pending
<1>7. EscalatedInTime' /\ UnheardStaysOpen'
  BY <1>1, <1>2, <1>3, BusyIsNotIdle DEF IInv, UnheardStaysOpen
<1> QED
  BY <1>1, <1>2, <1>5, <1>6, <1>7, InvariantTypes, QuietStep

LEMMA LeaveStatusInvariant ==
  ASSUME IInv, NEW r \in Requests, LeaveStatus(r)
  PROVE  IInv'
<1> DEFINE q == AtClock(req[r].copy, req[r].overlapped)
<1>1. /\ req[r].at = "answer" /\ Becomes(r, q)
      /\ req[r].role = "client" => req[r].copy.status \notin Settled
      /\ unheard' = (unheard \/ (req[r].role = "client" /\ ~req[r].overlapped))
      /\ UNCHANGED <<row, first, now, stored, seen, blurred, deaths>>
  BY DEF LeaveStatus
<1>2. q \in Request /\ q.at = "clock" /\ q.copy = req[r].copy /\ q.overlapped = req[r].overlapped
  BY InvariantTypes, AtClockIsRequest
<1> HIDE DEF q
<1>3. req'[r] = q
  BY <1>1, <1>2, OthersKept
<1>4. RequestOK(r)
  BY DEF IInv
<1>5. RequestOK(r)'
  <2>1. (row.exists /\ req[r].copy.exists /\ Follows(req[r].copy))'
    BY <1>1, <1>2, <1>3, <1>4 DEF RequestOK, Free, Follows
  <2>2. CurrentOf(r)'
    BY <1>1, <1>2, <1>3, <1>4 DEF RequestOK, CurrentOf
  <2>3. FirstOf(r)' /\ StampOf(r)' /\ RecordOf(r)'
    BY <1>1, <1>2, <1>3 DEF FirstOf, StampOf, RecordOf
  <2> QED
    BY <1>1, <1>2, <1>3, <2>1, <2>2, <2>3 DEF RequestOK
<1>6. Pending(r) => Pending(r)'
  BY <1>1, <1>2, <1>3 DEF Pending
<1>7. UnheardStaysOpen'
  <2>1. req[r].role = "client" /\ ~req[r].overlapped => row.status \notin Settled
    BY <1>1, <1>4 DEF RequestOK, CurrentOf
  <2> QED
    BY <1>1, <2>1 DEF IInv, UnheardStaysOpen
<1>8. EscalatedInTime'
  BY <1>2, <1>3, BusyIsNotIdle
<1>9. unheard' \in BOOLEAN
  BY <1>1, InvariantTypes
<1> QED
  BY <1>1, <1>2, <1>5, <1>6, <1>7, <1>8, <1>9, InvariantTypes, QuietStep

LEMMA ReadClockInvariant ==
  ASSUME IInv, NEW r \in Requests, ReadClock(r)
  PROVE  IInv'
<1> DEFINE q == Doing("query", "client", req[r].copy, Never, now, {}, req[r].overlapped)
<1>1. /\ req[r].at = "clock" /\ Becomes(r, q)
      /\ UNCHANGED <<row, first, now, stored, unheard, seen, blurred, deaths>>
  BY DEF ReadClock
<1>2. /\ q \in Request /\ q.at = "query" /\ q.copy = req[r].copy /\ q.now = now
      /\ q.overlapped = req[r].overlapped
  <2>1. now \in Times
    BY InvariantTypes, TimesAreNumbers
  <2> QED
    BY <2>1, InvariantTypes, TimesAreNumbers DEF Doing, Request
<1> HIDE DEF q
<1>3. req'[r] = q
  BY <1>1, <1>2, OthersKept
<1>4. RequestOK(r)
  BY DEF IInv
<1>5. RequestOK(r)'
  <2>1. (row.exists /\ req[r].copy.exists /\ Follows(req[r].copy))'
    BY <1>1, <1>2, <1>3, <1>4 DEF RequestOK, Free, Follows
  <2>2. CurrentOf(r)'
    BY <1>1, <1>2, <1>3, <1>4 DEF RequestOK, CurrentOf
  <2>3. FirstOf(r)' /\ StampOf(r)'
    BY <1>1, <1>2, <1>3 DEF FirstOf, StampOf
  <2>4. RecordOf(r)'
    <3>1. now <= now
      BY InvariantTypes
    <3> QED
      BY <1>1, <1>2, <1>3, <3>1 DEF RecordOf
  <2> QED
    BY <1>1, <1>2, <1>3, <2>1, <2>2, <2>3, <2>4 DEF RequestOK
<1>6. Pending(r) => Pending(r)'
  BY <1>1, <1>2, <1>3 DEF Pending
<1>7. EscalatedInTime' /\ UnheardStaysOpen'
  BY <1>1, <1>2, <1>3, BusyIsNotIdle DEF IInv, UnheardStaysOpen
<1> QED
  BY <1>1, <1>2, <1>5, <1>6, <1>7, InvariantTypes, QuietStep

-----------------------------------------------------------------------------
(* What a refresh makes of a copy. *)

LEMMA RefreshedTicket ==
  ASSUME NEW t \in Ticket, NEW n \in Times, first \in Times
  PROVE  LET u == Refreshed(t, n)
         IN  /\ u \in Ticket /\ u.exists = t.exists /\ u.status = t.status /\ u.due = t.due
             /\ u.responded = IF t.responded = Never THEN first ELSE t.responded
             /\ t.escalated => u.escalated
             /\ u.escalated \/ Breach(u, n) = "none"
             /\ u.escalated /\ ~t.escalated => Breach(u, n) # "none"
<1> DEFINE v == Noticed(t)
<1> DEFINE u == Refreshed(t, n)
<1>1. /\ v \in Ticket /\ v.exists = t.exists /\ v.status = t.status /\ v.due = t.due
      /\ v.responded = (IF t.responded = Never THEN first ELSE t.responded)
      /\ v.escalated = t.escalated
  BY DEF Noticed, Fields, Ticket
<1>2. u = Recorded(v, Breach(v, n) # "none")
  BY DEF Refreshed
<1> HIDE DEF v, u
<1>3. /\ u \in Ticket /\ u.exists = v.exists /\ u.status = v.status /\ u.due = v.due
      /\ u.responded = v.responded /\ u.escalated = (v.escalated \/ Breach(v, n) # "none")
  BY <1>1, <1>2 DEF Recorded, Fields, Ticket
<1>4. Breach(u, n) = Breach(v, n)
  BY <1>3 DEF Breach
<1>5. /\ u \in Ticket /\ u.exists = t.exists /\ u.status = t.status /\ u.due = t.due
      /\ u.responded = (IF t.responded = Never THEN first ELSE t.responded)
  BY <1>1, <1>3
<1>6. /\ t.escalated => u.escalated
      /\ u.escalated \/ Breach(u, n) = "none"
      /\ u.escalated /\ ~t.escalated => Breach(u, n) # "none"
  BY <1>1, <1>3, <1>4
<1> QED
  BY <1>5, <1>6 DEF u

LEMMA ChangedColumns ==
  ASSUME NEW t, NEW u
  PROVE  /\ Changed(t, u) \in SUBSET Columns
         /\ "responded" \in Changed(t, u) <=> u.responded # t.responded
         /\ "escalation" \in Changed(t, u) <=> u.escalated # t.escalated
BY DEF Changed, Columns

(* An unanswered ticket has no breach before its first response is due. *)
LEMMA BreachIsLate ==
  ASSUME NEW t \in Ticket, NEW n \in Times, t.responded = Never, Breach(t, n) # "none"
  PROVE  First[t.due] < n
<1>1. First[t.due] \in Nat /\ Resolution[t.due] \in Nat /\ First[t.due] <= Resolution[t.due]
  BY FieldsOfTypes, DeadlinesAssumption
<1>2. n \in Nat
  BY TimesAreNumbers
<1>3. n > First[t.due] \/ n > Resolution[t.due]
  BY DEF Breach
<1> QED
  BY <1>1, <1>2, <1>3

LEMMA QueryRepliesInvariant ==
  ASSUME IInv, NEW r \in Requests, QueryReplies(r)
  PROVE  IInv'
<1> DEFINE c == req[r].copy
<1> DEFINE n == req[r].now
<1> DEFINE t == Refreshed(c, n)
<1> DEFINE h == Changed(c, t)
<1> DEFINE q == Doing("write", "client", t, Never, n, h, req[r].overlapped)
<1>1. /\ req[r].at = "query" /\ Becomes(r, q)
      /\ UNCHANGED <<row, first, now, stored, unheard, seen, blurred, deaths>>
  BY DEF QueryReplies
<1>2. c \in Ticket /\ n \in Times /\ first \in Times /\ now \in 0..MaxTime /\ stored \in Times
  BY InvariantTypes
<1>3. /\ t \in Ticket /\ t.exists = c.exists /\ t.status = c.status /\ t.due = c.due
      /\ t.responded = (IF c.responded = Never THEN first ELSE c.responded)
      /\ c.escalated => t.escalated
      /\ t.escalated \/ Breach(t, n) = "none"
      /\ t.escalated /\ ~c.escalated => Breach(t, n) # "none"
  BY <1>2, RefreshedTicket
<1>4. /\ h \in SUBSET Columns
      /\ "responded" \in h <=> t.responded # c.responded
      /\ "escalation" \in h <=> t.escalated # c.escalated
  BY ChangedColumns
<1> HIDE DEF t, h
<1>5. /\ q \in Request /\ q.at = "write" /\ q.copy = t /\ q.now = n /\ q.changed = h
      /\ q.overlapped = req[r].overlapped
  BY <1>2, <1>3, <1>4, InvariantTypes, TimesAreNumbers DEF Doing, Request, Columns
<1> HIDE DEF q
<1>6. req'[r] = q
  BY <1>1, <1>5, OthersKept
<1>7. RequestOK(r) /\ n <= now /\ Follows(c) /\ row.exists /\ c.exists
  BY <1>1 DEF IInv, RequestOK, RecordOf, Free
<1>8. (row.exists /\ req[r].copy.exists /\ Follows(req[r].copy))'
  <2>1. first <= first
    BY <1>2, TimesAreNumbers
  <2> QED
    BY <1>1, <1>3, <1>5, <1>6, <1>7, <2>1 DEF Follows
<1>9. CurrentOf(r)'
  <2>1. ASSUME ~req[r].overlapped
        PROVE  /\ row.exists = t.exists /\ row.status = t.status /\ row.due = t.due
               /\ "responded" \notin h => row.responded = t.responded
               /\ row.escalated = c.escalated
    BY <1>1, <1>3, <1>4, <1>7, <2>1 DEF RequestOK, CurrentOf
  <2>2. c.escalated \in BOOLEAN /\ t.escalated \in BOOLEAN
    BY <1>2, <1>3, FieldsOfTypes
  <2>3. ASSUME ~req[r].overlapped
        PROVE  (IF "escalation" \in h THEN TRUE ELSE row.escalated) = t.escalated
    BY <1>3, <1>4, <2>1, <2>2, <2>3
  <2>4. t = Fields(t.exists, t.status, t.due, t.responded, t.escalated)
    BY <1>3 DEF Ticket, Fields
  <2>5. ASSUME ~req[r].overlapped
        PROVE  (Written(req[r]) = req[r].copy)'
    <3>1. (IF "responded" \in h THEN t.responded ELSE row.responded) = t.responded
      BY <2>1, <2>5
    <3>2. Fields(row.exists, row.status, row.due,
                 IF "responded" \in h THEN t.responded ELSE row.responded,
                 IF "escalation" \in h THEN TRUE ELSE row.escalated) = t
      BY <2>1, <2>3, <2>4, <2>5, <3>1
    <3> QED
      BY <1>1, <1>5, <1>6, <3>2 DEF Written
  <2> QED
    BY <1>5, <1>6, <2>5 DEF CurrentOf
<1>10. StampOf(r)' /\ FirstOf(r)'
  BY <1>5, <1>6 DEF StampOf, FirstOf
<1>11. RecordOf(r)'
  <2>1. "responded" \in h => t.responded # Never
    BY <1>3, <1>4
  <2>2. ASSUME "escalation" \in h, t.responded = Never
        PROVE  First[t.due] < n /\ First[t.due] < stored
    <3>1. first = Never /\ stored = Never
      BY <1>3, <2>2 DEF IInv
    <3>2. t.escalated /\ ~c.escalated
      BY <1>2, <1>3, <1>4, <2>2, FieldsOfTypes
    <3>3. First[t.due] < n
      BY <1>2, <1>3, <2>2, <3>2, BreachIsLate
    <3>4. First[t.due] \in Nat
      BY <1>3, FieldsOfTypes, DeadlinesAssumption
    <3>5. n \in Nat /\ Never \in Nat /\ n <= Never
      BY <1>2, TimesAreNumbers
    <3> QED
      BY <3>1, <3>3, <3>4, <3>5
  <2>3. t.escalated \/ Breach(t, n) = "none"
    BY <1>3
  <2>4. Breach(req[r].copy, req[r].now)' = Breach(t, n)
    BY <1>5, <1>6 DEF Breach
  <2> QED
    BY <1>1, <1>5, <1>6, <1>7, <2>1, <2>2, <2>3, <2>4 DEF RecordOf
<1>12. RequestOK(r)'
  BY <1>8, <1>9, <1>10, <1>11 DEF RequestOK
<1>13. Pending(r) /\ first # Never => Pending(r)'
  BY <1>1, <1>3, <1>4, <1>5, <1>6 DEF Pending
<1>14. EscalatedInTime' /\ UnheardStaysOpen'
  BY <1>1, <1>5, <1>6, BusyIsNotIdle DEF IInv, UnheardStaysOpen
<1> QED
  BY <1>1, <1>5, <1>12, <1>13, <1>14, InvariantTypes, QuietStep

(* A request that is over asks for nothing. *)
LEMMA IdleIsOK ==
  ASSUME NEW r \in Requests, (req[r] = Idle)'
  PROVE  RequestOK(r)'
BY IdleIsRequest DEF RequestOK, Free, CurrentOf, StampOf, FirstOf, RecordOf

LEMMA NothingChangedInvariant ==
  ASSUME IInv, NEW r \in Requests, NothingChanged(r)
  PROVE  IInv'
<1> DEFINE c == req[r].copy
<1> DEFINE n == req[r].now
<1> DEFINE t == Refreshed(c, n)
<1>1. /\ req[r].at = "query" /\ Changed(c, t) = {} /\ Becomes(r, Idle) /\ Ended(r)
      /\ UNCHANGED <<row, first, now, stored, unheard, blurred, deaths>>
  BY DEF NothingChanged
<1>2. c \in Ticket /\ n \in Times /\ first \in Times
  BY InvariantTypes
<1>3. /\ t \in Ticket /\ t.status = c.status /\ t.due = c.due
      /\ t.responded = (IF c.responded = Never THEN first ELSE c.responded)
      /\ t.escalated \/ Breach(t, n) = "none"
  BY <1>2, RefreshedTicket
<1>4. t.responded = c.responded /\ t.escalated = c.escalated
  BY <1>1, ChangedColumns
<1>5. c.escalated \/ Breach(c, n) = "none"
  BY <1>3, <1>4 DEF Breach
<1>6. req'[r] = Idle
  BY <1>1, IdleIsRequest, OthersKept
<1>7. RequestOK(r)'
  BY <1>6, IdleIsOK
<1>8. Pending(r) => first = Never
  BY <1>1, <1>3, <1>4 DEF Pending
<1>9. seen' \in Times
  BY <1>1, <1>2, TimesAreNumbers DEF Ended
<1>10. UnheardStaysOpen' /\ unheard' \in BOOLEAN
  BY <1>1, InvariantTypes DEF IInv, UnheardStaysOpen
<1>11. EscalatedInTime'
  <2> SUFFICES ASSUME seen' # Never
               PROVE  Breach(row, seen)' # "none" => row'.escalated
    BY DEF EscalatedInTime
  <2>1. ~req[r].overlapped /\ seen' = n
    BY <1>1 DEF Ended
  <2>2. row' = c
    BY <1>1, <2>1 DEF IInv, RequestOK, CurrentOf
  <2>3. Breach(row, seen)' = Breach(c, n)
    BY <1>1, <2>1, <2>2 DEF Breach
  <2> QED
    BY <1>5, <2>2, <2>3
<1> QED
  BY <1>1, <1>7, <1>8, <1>9, <1>10, <1>11, IdleIsRequest, QuietStep

LEMMA DieInvariant ==
  ASSUME IInv, NEW r \in Requests, Die(r)
  PROVE  IInv'
<1>1. /\ deaths < MaxDeaths /\ deaths' = deaths + 1 /\ Becomes(r, Idle)
      /\ seen' = Never /\ blurred' = TRUE
      /\ UNCHANGED <<row, first, now, stored, unheard>>
  BY DEF Die
<1>2. /\ req' \in [Requests -> Request] /\ req'[r] = Idle
      /\ \A x \in Requests \ {r} : RequestOK(x)'
  BY <1>1, IdleIsRequest, OthersKept
<1>3. deaths' \in 0..MaxDeaths /\ deaths' # 0
  BY <1>1, InvariantTypes, BoundsAssumption
<1>4. TypeOK'
  BY <1>1, <1>2, <1>3, TimesAreNumbers DEF IInv, TypeOK
<1>5. (\A x \in Requests : RequestOK(x))'
  BY <1>2, IdleIsOK
<1>6. Follows(row)'
  BY <1>1 DEF IInv, Follows
<1>7. AnswerComes' /\ EscalatedInTime' /\ UnheardStaysOpen'
  BY <1>1, <1>3 DEF IInv, AnswerComes, EscalatedInTime, UnheardStaysOpen
<1> QED
  BY <1>1, <1>4, <1>5, <1>6, <1>7 DEF IInv

LEMMA TickInvariant ==
  ASSUME IInv, Tick
  PROVE  IInv'
<1>1. /\ now < MaxTime /\ now' = now + 1
      /\ UNCHANGED <<row, first, req, stored, unheard, seen, blurred, deaths>>
  BY DEF Tick
<1>2. TypeOK /\ now \in 0..MaxTime /\ first \in Times
  BY DEF IInv, TypeOK
<1>3. now \in Nat /\ now' \in 0..MaxTime /\ now <= now' /\ first \in Nat
  BY <1>1, <1>2, TimesAreNumbers
<1>4. TypeOK'
  BY <1>1, <1>2, <1>3 DEF TypeOK
<1>5. ASSUME NEW x \in Requests
      PROVE  RequestOK(x)'
  <2>1. RequestOK(x) /\ req[x].stamp \in Nat /\ req[x].now \in Nat
    BY InvariantTypes, TimesAreNumbers DEF IInv
  <2>2. (~Free(x) => row.exists /\ req[x].copy.exists /\ Follows(req[x].copy))' /\ CurrentOf(x)' /\ FirstOf(x)'
    BY <1>1, <2>1 DEF RequestOK, Free, Follows, CurrentOf, Written, FirstOf
  <2>3. StampOf(x)'
    <3>1. req[x].at = "insert" => req[x].stamp <= now'
      BY <1>3, <2>1 DEF RequestOK, StampOf
    <3>2. req[x].at = "answer" /\ req[x].role = "admin" => req[x].stamp <= now'
      BY <1>3, <2>1 DEF RequestOK, StampOf
    <3> QED
      BY <1>1, <2>1, <3>1, <3>2 DEF RequestOK, StampOf
  <2>4. RecordOf(x)'
    <3>1. req[x].at \in {"query", "write"} => req[x].now <= now'
      BY <1>3, <2>1 DEF RequestOK, RecordOf
    <3> QED
      BY <1>1, <2>1, <3>1 DEF RequestOK, RecordOf, Breach
  <2> QED
    BY <2>2, <2>3, <2>4 DEF RequestOK
<1>6. (first = Never \/ first <= now)'
  BY <1>1, <1>3 DEF IInv
<1>7. AnswerComes' /\ EscalatedInTime' /\ UnheardStaysOpen' /\ Follows(row)'
  BY <1>1 DEF IInv, AnswerComes, Pending, EscalatedInTime, Busy, Free, Breach,
             UnheardStaysOpen, Follows
<1> QED
  BY <1>1, <1>4, <1>5, <1>6, <1>7 DEF IInv

-----------------------------------------------------------------------------
(* The steps that write the row or store a reply. *)

(* Writing the row, with the replies as they were. *)
LEMMA WriteStep ==
  ASSUME IInv, NEW r \in Requests, NEW q \in Request, Overtaking(r, q),
         row' \in Ticket, row'.exists, UNCHANGED <<first, stored, now, deaths>>,
         blurred' \in BOOLEAN, blurred => blurred', seen' \in Times, unheard' \in BOOLEAN,
         RequestOK(r)', Follows(row)',
         \/ row'.responded # Never
         \/ Pending(r)'
         \/ row'.responded = row.responded /\ ~Pending(r),
         UnheardStaysOpen', EscalatedInTime'
  PROVE  IInv'
<1>1. /\ first \in Times /\ stored \in Times /\ first <= first
      /\ first = Never \/ first <= now
      /\ first = Never <=> stored = Never
  BY TimesAreNumbers DEF IInv, TypeOK
<1>2. \A t \in Ticket : Follows(t) => Follows(t)'
  BY DEF Follows
<1>3. /\ req' \in [Requests -> Request]
      /\ \A x \in Requests \ {r} :
           RequestOK(x)' /\ req'[x].at = req[x].at /\ req'[x].copy = req[x].copy
           /\ req'[x].changed = req[x].changed
  BY <1>1, <1>2, OthersOvertaken
<1>4. AnswerComes'
  <2>1. \A x \in Requests \ {r} : Pending(x) => Pending(x)'
    BY <1>3 DEF Pending
  <2> QED
    BY <2>1 DEF IInv, AnswerComes
<1>5. TypeOK'
  BY <1>3 DEF IInv, TypeOK
<1>6. (\A x \in Requests : RequestOK(x))'
  BY <1>3
<1>7. (first = Never \/ first <= now)' /\ (first = Never <=> stored = Never)'
  BY <1>1
<1>8. (deaths > 0 => blurred)'
  BY DEF IInv
<1> QED
  BY <1>4, <1>5, <1>6, <1>7, <1>8 DEF IInv

(* A request whose next step is to look at the clock holds what it wrote. *)
LEMMA AtClockIsOK ==
  ASSUME NEW r \in Requests,
         (/\ req[r].at = "clock" /\ row.exists /\ req[r].copy.exists /\ Follows(req[r].copy)
          /\ ~req[r].overlapped => req[r].copy = row)'
  PROVE  RequestOK(r)'
BY DEF RequestOK, CurrentOf, StampOf, FirstOf, RecordOf

LEMMA SavePatchInvariant ==
  ASSUME IInv, NEW r \in Requests, SavePatch(r)
  PROVE  IInv'
<1> DEFINE c == req[r].copy
<1> DEFINE q == AtClock(c, req[r].overlapped)
<1>1. /\ req[r].at = "patch" /\ row' = c /\ Overtaking(r, q) /\ unheard' = FALSE
      /\ UNCHANGED <<first, now, stored, seen, blurred, deaths>>
  BY DEF SavePatch
<1>2. c \in Ticket /\ c.responded \in Times
  BY InvariantTypes
<1>3. q \in Request /\ q.at = "clock" /\ q.copy = c /\ q.overlapped = req[r].overlapped
  BY <1>2, InvariantTypes, AtClockIsRequest
<1> HIDE DEF q
<1>4. Follows(c) /\ c.exists
  BY <1>1 DEF IInv, RequestOK, Free
<1>5. req'[r] = q
  BY <1>1 DEF Overtaking
<1>6. Follows(row)' /\ Follows(req[r].copy)'
  BY <1>1, <1>3, <1>4, <1>5 DEF Follows
<1>7. RequestOK(r)'
  BY <1>1, <1>3, <1>4, <1>5, <1>6, AtClockIsOK
<1>8. row'.responded # Never \/ Pending(r)'
  BY <1>1, <1>3, <1>5 DEF Pending
<1>9. UnheardStaysOpen' /\ EscalatedInTime' /\ unheard' \in BOOLEAN
  BY <1>1, <1>3, <1>5, BusyIsNotIdle DEF UnheardStaysOpen
<1> QED
  BY <1>1, <1>2, <1>3, <1>4, <1>6, <1>7, <1>8, <1>9, InvariantTypes, WriteStep

LEMMA ReopenInvariant ==
  ASSUME IInv, NEW r \in Requests, Reopen(r)
  PROVE  IInv'
<1> DEFINE c == req[r].copy
<1> DEFINE q == AtClock(Opened(c), req[r].overlapped)
<1>1. /\ req[r].at = "answer" /\ row' = Opened(row) /\ Overtaking(r, q)
      /\ unheard' = (unheard \/ ~req[r].overlapped)
      /\ UNCHANGED <<first, now, stored, seen, blurred, deaths>>
  BY DEF Reopen
<1>2. \A t \in Ticket : /\ Opened(t) \in Ticket /\ Opened(t).status = "open"
                       /\ Opened(t).responded = t.responded /\ Opened(t).exists = t.exists
  BY OpenStatuses DEF Opened, Fields, Ticket
<1>3. /\ q \in Request /\ q.at = "clock" /\ q.copy = Opened(c)
      /\ q.overlapped = req[r].overlapped
  BY <1>2, InvariantTypes, AtClockIsRequest
<1> HIDE DEF q
<1>4. RequestOK(r) /\ Follows(c) /\ c.exists /\ row.exists /\ Follows(row)
  BY <1>1 DEF IInv, RequestOK, Free
<1>5. req'[r] = q
  BY <1>1 DEF Overtaking
<1>6. Follows(row)' /\ Follows(req[r].copy)'
  BY <1>1, <1>2, <1>3, <1>4, <1>5, InvariantTypes DEF Follows
<1>7. row' \in Ticket /\ row'.exists /\ row'.status = "open" /\ row'.responded = row.responded
  BY <1>1, <1>2, <1>4, InvariantTypes
<1>8. RequestOK(r)'
  <2>1. ~req[r].overlapped => c = row
    BY <1>1, <1>4 DEF RequestOK, CurrentOf
  <2> QED
    BY <1>1, <1>2, <1>3, <1>4, <1>5, <1>6, <1>7, <2>1, InvariantTypes, AtClockIsOK
<1>9. Pending(r) => Pending(r)'
  BY <1>1, <1>2, <1>3, <1>5, InvariantTypes DEF Pending
<1>10. UnheardStaysOpen' /\ EscalatedInTime' /\ unheard' \in BOOLEAN
  BY <1>1, <1>3, <1>5, <1>7, BusyIsNotIdle, OpenStatuses DEF UnheardStaysOpen
<1> QED
  BY <1>1, <1>3, <1>6, <1>7, <1>8, <1>9, <1>10, InvariantTypes, WriteStep

LEMMA TakeUpInvariant ==
  ASSUME IInv, NEW r \in Requests, TakeUp(r)
  PROVE  IInv'
<1> DEFINE c == req[r].copy
<1> DEFINE q == AtClock(Taken(r, c), req[r].overlapped)
<1>1. /\ req[r].at = "answer" /\ req[r].role = "admin"
      /\ row' = Taken(r, row) /\ Overtaking(r, q)
      /\ blurred' = (blurred \/ req[r].overlapped)
      /\ UNCHANGED <<first, now, stored, unheard, seen, deaths>>
  BY DEF TakeUp
<1>2. ASSUME NEW t \in Ticket
      PROVE  /\ Taken(r, t) \in Ticket /\ Taken(r, t).status = "in-progress"
             /\ Taken(r, t).exists = t.exists
             /\ Taken(r, t).responded = IF c.responded = Never THEN req[r].stamp ELSE t.responded
  <2>1. FirstAnswer(r, t.responded) \in Times
    BY InvariantTypes, FieldsOfTypes DEF FirstAnswer
  <2>2. FirstAnswer(r, t.responded) = IF c.responded = Never THEN req[r].stamp ELSE t.responded
    BY DEF FirstAnswer
  <2> QED
    BY <2>1, <2>2, OpenStatuses DEF Taken, Fields, Ticket
<1>3. /\ q \in Request /\ q.at = "clock" /\ q.copy = Taken(r, c)
      /\ q.overlapped = req[r].overlapped
  BY <1>2, InvariantTypes, AtClockIsRequest
<1> HIDE DEF q
<1>4. RequestOK(r) /\ Follows(c) /\ c.exists /\ row.exists /\ Follows(row)
  BY <1>1 DEF IInv, RequestOK, Free
<1>5. req'[r] = q
  BY <1>1 DEF Overtaking
<1>6. first <= req[r].stamp /\ req[r].stamp <= now
  BY <1>1, <1>4 DEF RequestOK, StampOf
<1>7. c.responded = Never /\ ~blurred' => first = req[r].stamp
  BY <1>1, <1>4 DEF RequestOK, FirstOf
<1>8. ASSUME NEW t \in Ticket, Follows(t)
      PROVE  /\ first <= Taken(r, t).responded
             /\ ~blurred' /\ Taken(r, t).responded # Never => Taken(r, t).responded = first
  BY <1>1, <1>2, <1>6, <1>7, <1>8 DEF Follows
<1>9. Follows(row)' /\ Follows(req[r].copy)'
  BY <1>1, <1>3, <1>4, <1>5, <1>8, InvariantTypes DEF Follows
<1>10. row' \in Ticket /\ row'.exists /\ row'.status = "in-progress"
  BY <1>1, <1>2, <1>4, InvariantTypes
<1>11. RequestOK(r)'
  <2>1. ~req[r].overlapped => c = row
    BY <1>1, <1>4 DEF RequestOK, CurrentOf
  <2>2. Taken(r, c).exists
    BY <1>2, <1>4, InvariantTypes
  <2> QED
    BY <1>1, <1>3, <1>5, <1>9, <1>10, <2>1, <2>2, AtClockIsOK
<1>12. row'.responded # Never \/ (row'.responded = row.responded /\ ~Pending(r))
  <2>1. CASE c.responded = Never
    <3>1. row'.responded = req[r].stamp
      BY <1>1, <1>2, <2>1, InvariantTypes
    <3>2. now < Never /\ now \in Nat /\ Never \in Nat /\ req[r].stamp \in Nat
      BY InvariantTypes, TimesAreNumbers
    <3> QED
      BY <1>6, <3>1, <3>2
  <2>2. CASE c.responded # Never
    BY <1>1, <1>2, <2>2, InvariantTypes DEF Pending
  <2> QED
    BY <2>1, <2>2
<1>13. UnheardStaysOpen' /\ EscalatedInTime'
  BY <1>1, <1>3, <1>5, <1>10, BusyIsNotIdle, OpenStatuses DEF UnheardStaysOpen
<1>14. blurred' \in BOOLEAN /\ (blurred => blurred')
  BY <1>1, InvariantTypes
<1> QED
  BY <1>1, <1>3, <1>9, <1>10, <1>11, <1>12, <1>13, <1>14, InvariantTypes, WriteStep

LEMMA WriteChangesInvariant ==
  ASSUME IInv, NEW r \in Requests, WriteChanges(r)
  PROVE  IInv'
<1> DEFINE c == req[r].copy
<1> DEFINE h == req[r].changed
<1> DEFINE w == Written(req[r])
<1>1. /\ req[r].at = "write" /\ row' = w /\ Overtaking(r, Idle) /\ Ended(r)
      /\ UNCHANGED <<first, now, stored, unheard, blurred, deaths>>
  BY DEF WriteChanges
<1>2. /\ w \in Ticket /\ w.exists = row.exists /\ w.status = row.status
      /\ w.responded = IF "responded" \in h THEN c.responded ELSE row.responded
  BY InvariantTypes DEF Written, Fields, Ticket
<1> HIDE DEF w
<1>3. RequestOK(r) /\ Follows(c) /\ row.exists /\ Follows(row)
  BY <1>1 DEF IInv, RequestOK, Free
<1>4. "responded" \in h => c.responded # Never
  BY <1>1, <1>3 DEF RequestOK, RecordOf
<1>5. req'[r] = Idle
  BY <1>1 DEF Overtaking
<1>6. RequestOK(r)'
  BY <1>5, IdleIsOK
<1>7. Follows(row)'
  BY <1>1, <1>2, <1>3 DEF Follows
<1>8. row'.responded # Never \/ (row'.responded = row.responded /\ ~Pending(r))
  BY <1>1, <1>2, <1>4 DEF Pending
<1>9. seen' \in Times
  BY <1>1, InvariantTypes, TimesAreNumbers DEF Ended
<1>10. UnheardStaysOpen' /\ unheard' \in BOOLEAN /\ blurred' \in BOOLEAN /\ (blurred => blurred')
  BY <1>1, <1>2, InvariantTypes DEF IInv, UnheardStaysOpen
<1>11. EscalatedInTime'
  <2> SUFFICES ASSUME seen' # Never
               PROVE  Breach(row, seen)' # "none" => row'.escalated
    BY DEF EscalatedInTime
  <2>1. ~req[r].overlapped /\ seen' = req[r].now
    BY <1>1 DEF Ended
  <2>2. row' = c
    BY <1>1, <1>3, <2>1 DEF RequestOK, CurrentOf, w
  <2>3. c.escalated \/ Breach(c, req[r].now) = "none"
    BY <1>1, <1>3 DEF RequestOK, RecordOf
  <2>4. Breach(row, seen)' = Breach(c, req[r].now)
    BY <2>1, <2>2 DEF Breach
  <2> QED
    BY <2>2, <2>3, <2>4
<1> QED
  BY <1>1, <1>2, <1>3, <1>6, <1>7, <1>8, <1>9, <1>10, <1>11, IdleIsRequest, WriteStep

LEMMA InsertInvariant ==
  ASSUME IInv, NEW r \in Requests, Insert(r)
  PROVE  IInv'
<1> DEFINE c == req[r].copy
<1> DEFINE stamp == req[r].stamp
<1> DEFINE q == Doing("answer", req[r].role, c, stamp, Never, {}, req[r].overlapped)
<1>1. /\ req[r].at = "insert" /\ Overtaking(r, q)
      /\ first' = IF stamp < first THEN stamp ELSE first
      /\ stored' = IF stored = Never THEN now ELSE stored
      /\ blurred' = (blurred \/ req[r].overlapped)
      /\ UNCHANGED <<row, now, unheard, seen, deaths>>
  BY DEF Insert
<1>2. /\ q \in Request /\ q.at = "answer" /\ q.role = req[r].role /\ q.copy = c
      /\ q.stamp = stamp /\ q.overlapped = req[r].overlapped
  BY InvariantTypes, TimesAreNumbers DEF Doing, Request, Steps, Roles
<1> HIDE DEF q
<1>3. /\ first \in Nat /\ stamp \in Nat /\ now \in Nat /\ Never \in Nat /\ now < Never
      /\ first \in Times /\ stamp \in Times /\ first <= Never
  BY InvariantTypes, TimesAreNumbers
<1>4. RequestOK(r) /\ Follows(c) /\ c.exists /\ row.exists /\ Follows(row)
  BY <1>1 DEF IInv, RequestOK, Free
<1>5. /\ stamp <= now
      /\ first = Never \/ first <= stamp \/ req[r].overlapped
  BY <1>1, <1>4 DEF RequestOK, StampOf
<1>6. first' \in Times /\ first' <= first /\ first' <= stamp /\ first' <= now /\ first' # Never
  BY <1>1, <1>3, <1>5
<1>7. ~blurred' => /\ ~blurred /\ ~req[r].overlapped
                   /\ first # Never => first' = first
                   /\ first = Never => first' = stamp
  <2>1. ~blurred' => ~blurred /\ ~req[r].overlapped
    BY <1>1
  <2>2. first # Never /\ first <= stamp => first' = first
    BY <1>1, <1>3
  <2>3. first = Never => first' = stamp
    BY <1>1, <1>3, <1>5
  <2>4. ~req[r].overlapped => first = Never \/ first <= stamp
    BY <1>5
  <2> QED
    BY <2>1, <2>2, <2>3, <2>4
<1>8. ASSUME NEW t \in Ticket, Follows(t)
      PROVE  Follows(t)'
  <2>1. t.responded \in Nat
    BY FieldsOfTypes, TimesAreNumbers
  <2>2. first' <= t.responded
    <3>1. first <= t.responded
      BY <1>8 DEF Follows
    <3>2. first' \in Nat /\ first' <= first
      BY <1>6, TimesAreNumbers
    <3> QED
      BY <1>3, <2>1, <3>1, <3>2
  <2>3. ~blurred' /\ t.responded # Never => t.responded = first'
    BY <1>7, <1>8 DEF Follows
  <2> QED
    BY <2>2, <2>3 DEF Follows
<1>9. stored' = stored \/ (stored = Never /\ stored' = now)
  BY <1>1
<1>10. /\ req' \in [Requests -> Request] /\ req'[r] = q
       /\ \A x \in Requests \ {r} :
            RequestOK(x)' /\ req'[x].at = req[x].at /\ req'[x].copy = req[x].copy
            /\ req'[x].changed = req[x].changed
  BY <1>1, <1>2, <1>4, <1>6, <1>8, <1>9, OthersOvertaken
<1>11. TypeOK'
  <2>1. stored' \in Times /\ blurred' \in BOOLEAN
    BY <1>1, InvariantTypes, TimesAreNumbers
  <2> QED
    BY <1>1, <1>6, <1>10, <2>1 DEF IInv, TypeOK
<1>12. Follows(row)' /\ Follows(req[r].copy)'
  BY <1>1, <1>2, <1>4, <1>8, <1>10, InvariantTypes DEF Follows
<1>13. RequestOK(r)'
  <2>1. CurrentOf(r)' /\ RecordOf(r)'
    BY <1>1, <1>2, <1>4, <1>10 DEF RequestOK, CurrentOf, RecordOf
  <2>2. StampOf(r)'
    BY <1>1, <1>2, <1>5, <1>6, <1>10 DEF StampOf
  <2>3. FirstOf(r)'
    <3>1. ~req[r].overlapped /\ ~blurred /\ c.responded = Never => first = Never
      BY <1>1, <1>4 DEF RequestOK, FirstOf
    <3> QED
      BY <1>2, <1>7, <1>10, <3>1 DEF FirstOf
  <2> QED
    BY <1>1, <1>2, <1>4, <1>10, <1>12, <2>1, <2>2, <2>3 DEF RequestOK
<1>14. AnswerComes'
  <2>1. CASE c.responded = Never
    BY <1>2, <1>10, <2>1 DEF AnswerComes, Pending
  <2>2. CASE c.responded # Never
    <3>1. first # Never
      <4>1. c.responded \in Times
        BY InvariantTypes
      <4>2. c.responded \in Nat /\ c.responded < Never
        BY <2>2, <4>1, BoundsAssumption DEF Times, Never
      <4>3. first <= c.responded
        BY <1>4 DEF Follows
      <4> QED
        BY <1>3, <4>2, <4>3
    <3>2. \A x \in Requests : Pending(x) => x # r /\ Pending(x)'
      BY <1>1, <1>10 DEF Pending
    <3> QED
      BY <1>1, <3>1, <3>2 DEF IInv, AnswerComes
  <2> QED
    BY <2>1, <2>2
<1>15. UnheardStaysOpen' /\ EscalatedInTime'
  BY <1>1, <1>2, <1>10, BusyIsNotIdle DEF IInv, UnheardStaysOpen
<1>16. (first = Never \/ first <= now)' /\ (first = Never <=> stored = Never)'
  BY <1>1, <1>3, <1>6
<1>17. (deaths > 0 => blurred)'
  BY <1>1 DEF IInv
<1>18. (\A x \in Requests : RequestOK(x))'
  BY <1>10, <1>13
<1> QED
  BY <1>11, <1>12, <1>14, <1>15, <1>16, <1>17, <1>18 DEF IInv

-----------------------------------------------------------------------------
LEMMA StutterInvariant == IInv /\ UNCHANGED vars => IInv'
<1> SUFFICES ASSUME IInv, UNCHANGED vars PROVE IInv'
  OBVIOUS
<1>1. UNCHANGED <<row, first, req, now, stored, unheard, seen, blurred, deaths>>
  BY DEF vars
<1>2. TypeOK' /\ (\A r \in Requests : RequestOK(r))'
  <2>1. TypeOK'
    BY <1>1 DEF IInv, TypeOK
  <2>2. ASSUME NEW r \in Requests PROVE RequestOK(r)'
    <3>1. RequestOK(r)
      BY DEF IInv
    <3>2. (~Free(r) => row.exists /\ req[r].copy.exists /\ Follows(req[r].copy))'
      BY <1>1, <3>1 DEF RequestOK, Free, Follows
    <3>3. CurrentOf(r)'
      BY <1>1, <3>1 DEF RequestOK, CurrentOf, Written
    <3>4. StampOf(r)' /\ FirstOf(r)'
      BY <1>1, <3>1 DEF RequestOK, StampOf, FirstOf
    <3>5. RecordOf(r)'
      BY <1>1, <3>1 DEF RequestOK, RecordOf, Breach
    <3> QED
      BY <3>2, <3>3, <3>4, <3>5 DEF RequestOK
  <2> QED
    BY <2>1, <2>2
<1>3. AnswerComes' /\ EscalatedInTime' /\ UnheardStaysOpen' /\ Follows(row)'
  BY <1>1 DEF IInv, AnswerComes, Pending, EscalatedInTime, Busy, Free, Breach,
             UnheardStaysOpen, Follows
<1> QED
  BY <1>1, <1>2, <1>3 DEF IInv

(* A request nothing overlapped holds the row it read; what it records of  *)
(* the deadlines and the first answer it has seen; and an answer that was  *)
(* overwritten will be written again by a request that is still at work.   *)
THEOREM InductiveInvariant == Spec => []IInv
<1>1. Init => IInv
  BY InitInvariant
<1>2. IInv /\ [Next]_vars => IInv'
  <2> SUFFICES ASSUME IInv, [Next]_vars PROVE IInv'
    OBVIOUS
  <2>1. ASSUME NEW r \in Requests, NEW p \in Priorities, Create(r, p) PROVE IInv'
    BY <2>1, CreateInvariant
  <2>2. ASSUME NEW r \in Requests, NEW p \in Priorities, NEW s \in Statuses,
               NEW clears \in BOOLEAN, ReadForPatch(r, s, p, clears)
        PROVE IInv'
    BY <2>2, ReadForPatchInvariant
  <2>3. ASSUME NEW r \in Requests, NEW role \in {"admin", "client"}, ReadForReply(r, role)
        PROVE IInv'
    BY <2>3, ReadForReplyInvariant
  <2>4. ASSUME NEW r \in Requests, SavePatch(r) \/ Stamp(r) \/ Insert(r) \/ TakeUp(r)
        PROVE IInv'
    BY <2>4, SavePatchInvariant, StampInvariant, InsertInvariant, TakeUpInvariant
  <2>5. ASSUME NEW r \in Requests, Reopen(r) \/ LeaveStatus(r) \/ ReadClock(r) \/ QueryReplies(r)
        PROVE IInv'
    BY <2>5, ReopenInvariant, LeaveStatusInvariant, ReadClockInvariant, QueryRepliesInvariant
  <2>6. ASSUME NEW r \in Requests, NothingChanged(r) \/ WriteChanges(r) \/ Die(r)
        PROVE IInv'
    BY <2>6, NothingChangedInvariant, WriteChangesInvariant, DieInvariant
  <2>7. CASE Tick
    BY <2>7, TickInvariant
  <2>8. CASE UNCHANGED vars
    BY <2>8, StutterInvariant
  <2> QED
    BY <2>1, <2>2, <2>3, <2>4, <2>5, <2>6, <2>7, <2>8 DEF Next
<1> QED
  BY <1>1, <1>2, PTL DEF Spec

(* Every reachable state is well-typed. *)
THEOREM TypeCorrect == Spec => []TypeOK
<1>1. IInv => TypeOK
  BY DEF IInv
<1> QED
  BY <1>1, InductiveInvariant, PTL

(* first_responded_at never precedes the first answer, and is its time     *)
(* unless the requests that answered overlapped others or one died.        *)
THEOREM FirstResponseIsFirst == Spec => []RespondedIsFirst
<1>1. IInv => RespondedIsFirst
  <2> SUFFICES ASSUME IInv, row.responded # Never
               PROVE  /\ first # Never /\ first <= row.responded
                      /\ ~blurred => row.responded = first
    BY DEF RespondedIsFirst
  <2>1. first \in Times /\ row.responded \in Times
    BY FieldsOfTypes DEF IInv, TypeOK
  <2>2. first <= row.responded /\ (~blurred => row.responded = first)
    BY DEF IInv, Follows
  <2>3. row.responded < Never /\ first \in Nat /\ row.responded \in Nat /\ Never \in Nat
    BY <2>1, BoundsAssumption DEF Times, Never
  <2> QED
    BY <2>2, <2>3
<1> QED
  BY <1>1, InductiveInvariant, PTL

(* With nobody at work and nobody dead a ticket an admin has answered says *)
(* so, whichever stale copies were saved over the answer.                  *)
THEOREM AnswerIsKnown == Spec => []AnswerKnown
<1>1. IInv => AnswerKnown
  BY DEF IInv, AnswerComes, AnswerKnown, Pending, Busy, Free
<1> QED
  BY <1>1, InductiveInvariant, PTL

(* What the ticket says of its first answer is true, and is said. *)
THEOREM FirstAnswerIsTold == Spec => []FirstAnswerTold
BY FirstResponseIsFirst, AnswerIsKnown, PTL DEF FirstAnswerTold

(* A first response is recorded as missed only if none was stored in time. *)
THEOREM MissedIsMissed == Spec => []MissedWasMissed
<1>1. IInv => MissedWasMissed
  <2> SUFFICES ASSUME IInv, NEW r \in Requests,
                      req[r].at = "write", "escalation" \in req[r].changed,
                      req[r].copy.responded = Never
               PROVE  stored > First[req[r].copy.due]
    BY DEF MissedWasMissed
  <2>1. First[req[r].copy.due] < stored
    BY DEF IInv, RequestOK, RecordOf
  <2> QED
    BY <2>1
<1> QED
  BY <1>1, InductiveInvariant, PTL

(* A ticket its client replied to undisturbed stays open until a PATCH. *)
THEOREM ReplyKeepsOpen == Spec => []UnheardStaysOpen
<1>1. IInv => UnheardStaysOpen
  BY DEF IInv
<1> QED
  BY <1>1, InductiveInvariant, PTL

(* A request nothing overlapped leaves no breach it saw unrecorded. *)
THEOREM BreachIsRecorded == Spec => []EscalatedInTime
<1>1. IInv => EscalatedInTime
  BY DEF IInv
<1> QED
  BY <1>1, InductiveInvariant, PTL
=============================================================================
