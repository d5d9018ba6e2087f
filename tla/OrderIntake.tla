----------------------------- MODULE OrderIntake -----------------------------
(***************************************************************************)
(* Orders, inquiries and client profiles: a client submits an inquiry,     *)
(* staff convert it to an order, orders are placed directly, edited and    *)
(* deleted, and each client's active_projects is kept in step.             *)
(*                                                                         *)
(* Creating, converting and editing run in one PostgreSQL transaction each *)
(* (READ COMMITTED): a request carries what it has written until Commit,   *)
(* holds the rows it wrote locked, waits for those of others, and is       *)
(* rolled back by a unique constraint or as the victim of a deadlock.      *)
(* That an admin may also type active_projects is left to ClientRecords.   *)
(***************************************************************************)
EXTENDS Naturals, FiniteSets

CONSTANTS
  Requests,    \* requests in progress
  Clients,     \* e-mail addresses, each of at most one ClientProfile
  Inquiries,   \* inquiries that may be submitted
  Orders,      \* rows that may be inserted in Order
  NoRequest, NoClient, NoInquiry, NoOrder,
  Limit,       \* the first number wider than the padding: 1000 in the code
  Base,        \* the base numbers are written in: 10 in the code
  Operations,  \* bound: the operations the environment calls, and what their
               \* payloads may change ("client", "inquiry", "status", "contact")
  MaxDay       \* bound: midnights

ASSUME NothingAssumption ==
  /\ NoRequest \notin Requests /\ NoClient \notin Clients
  /\ NoInquiry \notin Inquiries /\ NoOrder \notin Orders
ASSUME NumbersAssumption ==
  /\ Base \in Nat /\ Base > 1 /\ Limit \in Nat
  /\ MaxDay \in Nat /\ IsFiniteSet(Orders) /\ Cardinality(Orders) + 1 < Limit * Base

VARIABLES
  day,      \* timezone.localdate()
  client,   \* client[c]: the committed ClientProfile of c
  lock,     \* lock[c]: the request that inserted or updated the row of c
  inquiry,  \* inquiry[i]: the client of i, or NoClient before it is submitted
  order,    \* order[o]: the committed Order
  req,      \* req[r]: the request r
  owed,     \* history: clients with an order deleted or moved away since
            \* their metrics were last synchronised
  loose     \* history: clients last synchronised by an overlapped request

vars == <<day, client, lock, inquiry, order, req, owed, loose>>

Days == 0..MaxDay

Client == [exists : BOOLEAN, active : Nat]

(* open: the status is one sync_client_metrics counts as active. *)
Order == [state : {"unused", "live", "gone"}, client : Clients \cup {NoClient},
          inquiry : Inquiries \cup {NoInquiry}, day : Days, seq : Nat, open : BOOLEAN]

NewOrder(state, c, i) ==
  [state |-> state, client |-> c, inquiry |-> i, day |-> 0, seq |-> 0, open |-> TRUE]
NoRow(state) == NewOrder(state, NoClient, NoInquiry)

Stages == {"free", "start", "looked", "ready", "referenced", "written", "counted"}

(* row: the order being written; known: active_projects of the client      *)
(* object in memory; edits: the contact data differ from the profile's;    *)
(* overlapped: another committed or deleted since this began (history).    *)
Request == [op : {"none", "create", "convert", "update"}, at : Stages,
            order : Orders \cup {NoOrder}, row : Order, edits : BOOLEAN,
            known : Nat, count : Nat, overlapped : BOOLEAN]

NewRequest(op, stage, o, row, e, n) ==
  [op |-> op, at |-> stage, order |-> o, row |-> row, edits |-> e,
   known |-> n, count |-> 0, overlapped |-> FALSE]
Idle == NewRequest("none", "free", NoOrder, NoRow("unused"), FALSE, 0)

TypeOK ==
  /\ day \in Days
  /\ client \in [Clients -> Client]
  /\ lock \in [Clients -> Requests \cup {NoRequest}]
  /\ inquiry \in [Inquiries -> Clients \cup {NoClient}]
  /\ order \in [Orders -> Order]
  /\ req \in [Requests -> Request]
  /\ owed \subseteq Clients /\ loose \subseteq Clients

Init ==
  /\ day = 0 /\ owed = {} /\ loose = {}
  /\ client = [c \in Clients |-> [exists |-> FALSE, active |-> 0]]
  /\ lock = [c \in Clients |-> NoRequest]
  /\ inquiry = [i \in Inquiries |-> NoClient]
  /\ order = [o \in Orders |-> NoRow("unused")]
  /\ req = [r \in Requests |-> Idle]

Free(r) == req[r].at = "free"
Live == {o \in Orders : order[o].state = "live"}
Submitted == {i \in Inquiries : inquiry[i] # NoClient}
ClientOf(r) == req[r].row.client
Turns(r, next) == req' = [req EXCEPT ![r] = next]

-----------------------------------------------------------------------------
(* Requests begin. *)

(* POST of an inquiry, in autocommit: the profile is there, then the row.  *)
SubmitInquiry(r, i, c) ==
  /\ Free(r) /\ "submit" \in Operations
  /\ inquiry[i] = NoClient /\ lock[c] = NoRequest
  /\ client' = [client EXCEPT ![c].exists = TRUE]
  /\ inquiry' = [inquiry EXCEPT ![i] = c]
  /\ UNCHANGED <<day, lock, order, req, owed, loose>>

Fresh == {o \in Orders : order[o].state = "unused"
                         /\ \A q \in Requests : req[q].order # o}

(* Bound: requests that insert begin only while there are rows for all. *)
RoomForOrder ==
  Cardinality({q \in Requests : req[q].op \in {"create", "convert"} /\ req[q].order = NoOrder})
    < Cardinality(Fresh)

Begin(r, op, stage, o, row, e, n) ==
  /\ Free(r) /\ op \in Operations /\ (e => "contact" \in Operations)
  /\ Turns(r, NewRequest(op, stage, o, row, e, n))
  /\ UNCHANGED <<day, client, lock, inquiry, order, owed, loose>>

(* POST of an order: OrderCreateSerializer takes no inquiry. *)
StartCreate(r, c, e) ==
  /\ RoomForOrder
  /\ Begin(r, "create", "start", NoOrder, NewOrder("live", c, NoInquiry), e, 0)

(* convert_inquiry_to_order finds no order and takes the inquiry's client; *)
(* with an order it answers with that and changes nothing.                 *)
StartConvert(r, i) ==
  /\ RoomForOrder /\ i \in Submitted
  /\ \A o \in Live : order[o].inquiry # i
  /\ Begin(r, "convert", "ready", NoOrder, NewOrder("live", inquiry[i], i), FALSE,
           client[inquiry[i]].active)

(* PATCH of an order: the row is read before the transaction; the e-mail,  *)
(* the inquiry and the status may change.                                  *)
StartUpdate(r, o, c, i, open, e) ==
  /\ o \in Live
  /\ i \in Submitted \cup {NoInquiry}
  /\ {n \in {"client", "inquiry", "status"} :
        \/ n = "client" /\ c # order[o].client
        \/ n = "inquiry" /\ i # order[o].inquiry
        \/ n = "status" /\ open # order[o].open} \subseteq Operations
  /\ Begin(r, "update", "start", o,
           [order[o] EXCEPT !.client = c, !.inquiry = i, !.open = open], e, 0)

-----------------------------------------------------------------------------
(* The client's profile. *)

(* get_or_create: the row is read, or inserted and then locked.  While     *)
(* another request has inserted it the INSERT waits.                       *)
LookUpClient(r) ==
  /\ req[r].at = "start"
  /\ \/ /\ client[ClientOf(r)].exists
        /\ Turns(r, [req[r] EXCEPT !.at = IF req[r].edits THEN "looked" ELSE "ready",
                                    !.known = client[ClientOf(r)].active])
        /\ UNCHANGED lock
     \/ /\ ~client[ClientOf(r)].exists /\ lock[ClientOf(r)] = NoRequest
        /\ Turns(r, [req[r] EXCEPT !.at = "ready", !.known = 0])
        /\ lock' = [lock EXCEPT ![ClientOf(r)] = r]
  /\ UNCHANGED <<day, client, inquiry, order, owed, loose>>

(* The contact data differ and are saved, which locks the row. *)
SaveContact(r) ==
  /\ req[r].at = "looked"
  /\ lock[ClientOf(r)] = NoRequest
  /\ lock' = [lock EXCEPT ![ClientOf(r)] = r]
  /\ Turns(r, [req[r] EXCEPT !.at = "ready"])
  /\ UNCHANGED <<day, client, inquiry, order, owed, loose>>

-----------------------------------------------------------------------------
(* The order's row. *)

(* References are compared as strings: below Limit all are padded to one   *)
(* width; a wider number sorts by its leading digits.                      *)
Key(n) == IF n < Limit THEN n * Base ELSE n
SortsBefore(m, n) == Key(m) < Key(n) \/ (Key(m) = Key(n) /\ m <= n)

SeqsOf(d) == {order[o].seq : o \in {p \in Live : order[p].day = d}}
Latest(d) == {n \in SeqsOf(d) : \A m \in SeqsOf(d) : SortsBefore(m, n)}

(* Mutant of NextSeq: the day is that on which the process started. *)
Mut_NextSeq_StaleDay(d) ==
  IF SeqsOf(0) = {} THEN 1 ELSE (CHOOSE n \in Latest(0) : TRUE) + 1
(* generate_reference *)
NextSeq(d) == IF SeqsOf(d) = {} THEN 1 ELSE (CHOOSE n \in Latest(d) : TRUE) + 1

TakeReference(r) ==
  /\ req[r].at = "ready" /\ req[r].op # "update"
  /\ Turns(r, [req[r] EXCEPT !.at = "referenced",
                              !.row = [@ EXCEPT !.day = day, !.seq = NextSeq(day)]])
  /\ UNCHANGED <<day, client, lock, inquiry, order, owed, loose>>

(* Mutants of Conflicts: one of the two unique constraints dropped. *)
Mut_Conflicts_NoReference(x, y) == x.inquiry = y.inquiry /\ x.inquiry # NoInquiry
Mut_Conflicts_NoInquiry(x, y) == x.day = y.day /\ x.seq = y.seq
(* reference is unique, inquiry is a OneToOneField. *)
Conflicts(x, y) ==
  \/ x.day = y.day /\ x.seq = y.seq
  \/ x.inquiry = y.inquiry /\ x.inquiry # NoInquiry

Written(r) == req[r].at \in {"written", "counted"}
Writing(r) == req[r].at = "referenced" \/ (req[r].at = "ready" /\ req[r].op = "update")

(* Uncommitted rows the statement of r waits for. *)
Ahead(r) == {q \in Requests \ {r} :
               Written(q) /\ (req[q].order = req[r].order
                              \/ Conflicts(req[q].row, req[r].row))}

Duplicate(r) == \E o \in Live : o # req[r].order /\ Conflicts(order[o], req[r].row)

(* INSERT, or the save of a PATCH: an UPDATE, or when the row is gone an   *)
(* INSERT under its old id.                                                *)
WriteOrder(r) ==
  /\ Writing(r) /\ Ahead(r) = {} /\ ~Duplicate(r)
  /\ \E o \in IF req[r].op = "update" THEN {req[r].order} ELSE Fresh :
       Turns(r, [req[r] EXCEPT !.at = "written", !.order = o])
  /\ UNCHANGED <<day, client, lock, inquiry, order, owed, loose>>

(* All that r wrote is undone and its locks are released. *)
Rollback(r) ==
  /\ Turns(r, Idle)
  /\ lock' = [c \in Clients |-> IF lock[c] = r THEN NoRequest ELSE lock[c]]
  /\ UNCHANGED <<day, client, inquiry, order, owed, loose>>

(* Mutant of DuplicateFails: the save is tried again with the reference.   *)
Mut_DuplicateFails_SameAgain(r) ==
  /\ Writing(r) /\ Ahead(r) = {} /\ Duplicate(r)
  /\ UNCHANGED vars
(* IntegrityError. *)
DuplicateFails(r) ==
  /\ Writing(r) /\ Ahead(r) = {} /\ Duplicate(r)
  /\ Rollback(r)

-----------------------------------------------------------------------------
(* The client's metrics, and the end of the transaction. *)

OpenOrders(c) == {o \in Live : order[o].client = c /\ order[o].open}

(* Mutant of CountOrders: the request's own order counted on top. *)
Mut_CountOrders_OwnTwice(r) ==
  Cardinality(OpenOrders(ClientOf(r)) \ {req[r].order}) + 2
(* The orders of the client as this transaction sees them. *)
CountOrders(r) ==
  Cardinality(OpenOrders(ClientOf(r)) \ {req[r].order})
    + (IF req[r].row.open THEN 1 ELSE 0)

Count(r) ==
  /\ req[r].at = "written"
  /\ Turns(r, [req[r] EXCEPT !.at = "counted", !.count = CountOrders(r)])
  /\ UNCHANGED <<day, client, lock, inquiry, order, owed, loose>>

Changed(r) == req[r].known # req[r].count

\* q, when another request commits or deletes.
Overtaken(q) == [req[q] EXCEPT !.overlapped = ~Free(q)]

(* sync_client_metrics saves when the count differs from the object in     *)
(* memory; the transaction commits.                                        *)
Commit(r) ==
  /\ req[r].at = "counted"
  /\ Changed(r) => lock[ClientOf(r)] \in {NoRequest, r}
  /\ client' = [client EXCEPT ![ClientOf(r)] =
       [exists |-> TRUE, active |-> IF Changed(r) THEN req[r].count ELSE @.active]]
  /\ order' = [order EXCEPT ![req[r].order] = req[r].row]
  /\ lock' = [c \in Clients |-> IF lock[c] = r THEN NoRequest ELSE lock[c]]
  /\ req' = [q \in Requests |-> IF q = r THEN Idle ELSE Overtaken(q)]
  /\ owed' = {c \in owed \cup {order[req[r].order].client} :
                c # ClientOf(r) /\ (c \in owed \/ req[r].order \in OpenOrders(c))}
  /\ loose' = IF req[r].overlapped THEN loose \cup {ClientOf(r)} ELSE loose \ {ClientOf(r)}
  /\ UNCHANGED <<day, inquiry>>

(* DELETE of an order: nothing is synchronised. *)
DeleteOrder(r, o) ==
  /\ Free(r) /\ "delete" \in Operations
  /\ o \in Live
  /\ \A q \in Requests : ~(Written(q) /\ req[q].order = o)
  /\ order' = [order EXCEPT ![o] = NoRow("gone")]
  /\ owed' = IF order[o].open THEN owed \cup {order[o].client} ELSE owed
  /\ req' = [q \in Requests |-> Overtaken(q)]
  /\ UNCHANGED <<day, client, lock, inquiry, loose>>

-----------------------------------------------------------------------------
(* The environment. *)

(* Requests whose locks r waits for. *)
WaitsFor(r) ==
  CASE req[r].at = "start" /\ ~client[ClientOf(r)].exists -> {lock[ClientOf(r)]}
    [] req[r].at = "looked"                               -> {lock[ClientOf(r)]}
    [] Writing(r)                                         -> Ahead(r)
    [] req[r].at = "counted" /\ Changed(r)                -> {lock[ClientOf(r)]} \ {r}
    [] OTHER                                              -> {}

Stuck(S) == S # {} /\ \A q \in S : WaitsFor(q) \cap S # {}
Cycles == {S \in SUBSET Requests : Stuck(S) /\ \A T \in SUBSET S : Stuck(T) => T = S}

(* PostgreSQL rolls back one request of a deadlock. *)
DeadlockVictim(r) == (\E S \in Cycles : r \in S) /\ Rollback(r)

(* The process serving r dies. *)
Abort(r) == ~Free(r) /\ Rollback(r)

Midnight ==
  /\ day < MaxDay
  /\ day' = day + 1
  /\ UNCHANGED <<client, lock, inquiry, order, req, owed, loose>>

Continue(r) ==
  \/ LookUpClient(r) \/ SaveContact(r) \/ TakeReference(r)
  \/ WriteOrder(r) \/ DuplicateFails(r) \/ Count(r) \/ Commit(r)
  \/ DeadlockVictim(r)

Start(r) ==
  \/ \E i \in Inquiries : StartConvert(r, i) \/ \E c \in Clients : SubmitInquiry(r, i, c)
  \/ \E c \in Clients, e \in BOOLEAN : StartCreate(r, c, e)
  \/ \E o \in Orders, c \in Clients, i \in Inquiries \cup {NoInquiry}, open, e \in BOOLEAN :
       StartUpdate(r, o, c, i, open, e)
  \/ \E o \in Orders : DeleteOrder(r, o)

Next ==
  \/ \E r \in Requests : Start(r) \/ Continue(r) \/ Abort(r)
  \/ Midnight

Spec == Init /\ [][Next]_vars

(* A request that can go on is served, also when what it waits for is taken *)
(* again and again: PostgreSQL queues those that wait for a lock.           *)
FairSpec == Spec /\ \A r \in Requests : SF_vars(Continue(r))

-----------------------------------------------------------------------------
(* Properties. *)

(* active_projects is the number of the client's active orders, except for *)
(* clients an order was deleted or moved away from since.  Nothing locks   *)
(* the client while its orders are counted: until midnight concurrent      *)
(* creations are kept apart by the reference both would take.              *)
MetricsCurrent ==
  day = 0 => \A c \in Clients \ owed : client[c].active = Cardinality(OpenOrders(c))

(* The same for edits and deletions that overlap, except for clients that  *)
(* were last synchronised by a request another one overtook.               *)
MetricsSettle ==
  \A c \in Clients \ (owed \cup loose) : client[c].active = Cardinality(OpenOrders(c))

(* However conversions and edits overlap, an inquiry has one order at most. *)
OneOrderPerInquiry ==
  \A x, y \in Live : order[x].inquiry = order[y].inquiry /\ x # y => order[x].inquiry = NoInquiry

(* A new order is refused as a duplicate only if another request committed *)
(* since it began, or the day ran out of padded numbers.                   *)
RefusedOnlyByOverlap ==
  \A r \in Requests :
    Writing(r) /\ Duplicate(r) /\ req[r].op # "update" =>
      req[r].overlapped \/ Limit \in SeqsOf(req[r].row.day)

(* Requests wait for each other in a circle only when one of them changed  *)
(* the contact data of a client.                                           *)
DeadlockNeedsContactChange ==
  \A S \in Cycles : \E r \in S : req[r].edits

(* No request is refused, and none waits in a circle, without such a cause. *)
FailuresHaveCause == RefusedOnlyByOverlap /\ DeadlockNeedsContactChange

(* Every request ends: with its order, refused or as a victim. *)
RequestsEnd == \A r \in Requests : ~Free(r) ~> Free(r)
=============================================================================
