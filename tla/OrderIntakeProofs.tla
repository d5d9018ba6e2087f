-------------------------- MODULE OrderIntakeProofs --------------------------
(***************************************************************************)
(* Proofs about OrderIntake, for any number of requests, clients,          *)
(* inquiries, orders and days.                                             *)
(***************************************************************************)
EXTENDS OrderIntake, FiniteSetTheorems, WellFoundedInduction, TLAPS

\* What a request at work is for.
Shaped(r) ==
  /\ req[r].op = "none" <=> Free(r)
  /\ ~Free(r) => req[r].row.state = "live" /\ ClientOf(r) \in Clients
  /\ req[r].order \in Orders <=> req[r].op = "update" \/ Written(r)
  /\ req[r].op = "create" => req[r].row.inquiry = NoInquiry
  /\ req[r].at = "looked" => req[r].edits

AllShaped ==
  /\ \A r \in Requests : Shaped(r)
  /\ \A o \in Live : order[o].client \in Clients

\* Neither committed nor uncommitted rows break a unique constraint.
Distinct ==
  /\ \A o, p \in Live : o # p => ~Conflicts(order[o], order[p])
  /\ \A r \in Requests, o \in Live :
       Written(r) /\ o # req[r].order => ~Conflicts(order[o], req[r].row)
  /\ \A q, r \in Requests :
       Written(q) /\ Written(r) /\ q # r =>
         req[q].order # req[r].order /\ ~Conflicts(req[q].row, req[r].row)

\* Past the look-up of the client its profile is there, or one's own.
PastLookUp == {"looked", "ready", "referenced", "written", "counted"}

\* A profile is locked by who has inserted it, or edits it.
Locked ==
  /\ \A i \in Submitted : client[inquiry[i]].exists
  /\ \A c \in Clients, q \in Requests : lock[c] = q =>
       /\ ClientOf(q) = c /\ req[q].at \in PastLookUp \ {"looked"}
       /\ client[c].exists => req[q].edits
  /\ \A r \in Requests : req[r].at \in PastLookUp =>
       client[ClientOf(r)].exists \/ lock[ClientOf(r)] = r

\* What a request nobody overtook has read still holds.
Unused(r) ==
  /\ req[r].at = "referenced" /\ req[r].op # "update" =>
       Limit \in SeqsOf(req[r].row.day) \/ req[r].row.seq \notin SeqsOf(req[r].row.day)
  /\ req[r].op = "convert" => \A o \in Live : order[o].inquiry # req[r].row.inquiry
Counted(r) ==
  /\ req[r].at \in PastLookUp => req[r].known = client[ClientOf(r)].active
  /\ req[r].at = "counted" => req[r].count = CountOrders(r)

Current == \A r \in Requests : ~req[r].overlapped => Unused(r) /\ Counted(r)

Settled ==
  /\ \A c \in Clients : ~client[c].exists => client[c].active = 0
  /\ MetricsSettle

\* The inductive invariant.
IInv == TypeOK /\ AllShaped /\ Distinct /\ Locked /\ Current /\ Settled

-----------------------------------------------------------------------------
(* References: the number that is taken is free, up to the width.          *)

LEMMA KeyNat == \A n \in Nat : Key(n) \in Nat
  BY NumbersAssumption DEF Key

LEMMA KeyGrows == \A n \in Nat : n + 1 # Limit => Key(n) < Key(n + 1)
<1> SUFFICES ASSUME NEW n \in Nat, n + 1 # Limit PROVE Key(n) < Key(n + 1)
  OBVIOUS
<1>1. CASE n + 1 < Limit
  <2>1. (n + 1) * Base = n * Base + Base
    BY NumbersAssumption
  <2>2. Key(n) = n * Base /\ Key(n + 1) = (n + 1) * Base
    BY <1>1, NumbersAssumption DEF Key
  <2>3. n * Base \in Nat
    BY NumbersAssumption
  <2>4. QED
    BY <2>1, <2>2, <2>3, NumbersAssumption
<1>2. CASE ~(n + 1 < Limit)
  BY <1>2, NumbersAssumption DEF Key
<1>3. QED
  BY <1>1, <1>2

LEMMA SeqsAreNumbers ==
  ASSUME TypeOK, NEW d
  PROVE  SeqsOf(d) \subseteq Nat /\ IsFiniteSet(SeqsOf(d))
<1> DEFINE L == {p \in Live : order[p].day = d}
           f == [o \in L |-> order[o].seq]
<1>1. L \subseteq Orders
  BY DEF Live
<1>2. IsFiniteSet(L)
  BY <1>1, NumbersAssumption, FS_Subset
<1>3. SeqsOf(d) = {order[o].seq : o \in L}
  BY DEF SeqsOf
<1>4. \A o \in L : order[o].seq \in Nat
  BY <1>1 DEF TypeOK, Order
<1>5. SeqsOf(d) \subseteq Nat
  BY <1>3, <1>4
<1>6. f \in Surjection(L, SeqsOf(d))
  BY <1>3 DEF Surjection
<1>7. IsFiniteSet(SeqsOf(d))
  BY <1>2, <1>6, FS_Surjection
<1>8. QED
  BY <1>5, <1>7

LEMMA LatestExists ==
  ASSUME TypeOK, NEW d, SeqsOf(d) # {}
  PROVE  Latest(d) # {}
<1> DEFINE S == SeqsOf(d)
           After(n) == {m \in S : ~SortsBefore(m, n)}
           T == {After(n) : n \in S}
<1>1. S \subseteq Nat /\ IsFiniteSet(S) /\ S # {}
  BY SeqsAreNumbers
<1>2. IsWellFoundedOn(StrictSubsetOrdering(S), SUBSET S)
  BY <1>1, FS_StrictSubsetOrderingWellFounded, FS_FiniteSubsetsOfFinite
<1>3. T \subseteq SUBSET S /\ T # {}
  BY <1>1
<1>4. \E X \in T : \A Y \in T : <<Y, X>> \notin StrictSubsetOrdering(S)
  BY <1>2, <1>3, WFMin
<1>5. PICK n \in S : \A m \in S : <<After(m), After(n)>> \notin StrictSubsetOrdering(S)
  BY <1>4
<1>6. ASSUME NEW m \in S, ~SortsBefore(m, n) PROVE FALSE
  <2>1. After(m) \subseteq After(n)
    BY <1>1, <1>6, KeyNat DEF SortsBefore
  <2>2. m \in After(n) /\ m \notin After(m)
    BY <1>1, <1>6, KeyNat DEF SortsBefore
  <2>3. <<After(m), After(n)>> \in StrictSubsetOrdering(S)
    BY <2>1, <2>2 DEF StrictSubsetOrdering
  <2>4. QED
    BY <1>5, <2>3
<1>7. n \in Latest(d)
  BY <1>6 DEF Latest
<1>8. QED
  BY <1>7

LEMMA NextSeqIsFree ==
  ASSUME TypeOK, NEW d
  PROVE  /\ NextSeq(d) \in Nat
         /\ Limit \in SeqsOf(d) \/ NextSeq(d) \notin SeqsOf(d)
<1>1. CASE SeqsOf(d) = {}
  BY <1>1 DEF NextSeq
<1>2. CASE SeqsOf(d) # {}
  <2> DEFINE n == CHOOSE k \in Latest(d) : TRUE
  <2>1. n \in Latest(d)
    BY <1>2, LatestExists
  <2>2. n \in SeqsOf(d) /\ \A m \in SeqsOf(d) : SortsBefore(m, n)
    BY <2>1 DEF Latest
  <2>3. NextSeq(d) = n + 1
    BY <1>2 DEF NextSeq
  <2> HIDE DEF n
  <2>4. n \in Nat
    BY <2>2, SeqsAreNumbers
  <2>5. ASSUME n + 1 \in SeqsOf(d), n + 1 # Limit PROVE FALSE
    <3>1. SortsBefore(n + 1, n)
      BY <2>2, <2>5
    <3>2. Key(n) < Key(n + 1) /\ Key(n) \in Nat /\ Key(n + 1) \in Nat
      BY <2>4, <2>5, KeyGrows, KeyNat
    <3>3. QED
      BY <3>1, <3>2, <2>4 DEF SortsBefore
  <2>6. QED
    BY <2>3, <2>4, <2>5
<1>3. QED
  BY <1>1, <1>2

-----------------------------------------------------------------------------
(* What the statements of a request do to it.                              *)

LEMMA Turned ==
  ASSUME TypeOK, NEW r \in Requests, NEW next, Turns(r, next)
  PROVE  req'[r] = next /\ \A q \in Requests \ {r} : req'[q] = req[q]
  BY DEF TypeOK, Turns

LEMMA TurnedType ==
  ASSUME TypeOK, NEW r \in Requests, NEW next \in Request, Turns(r, next)
  PROVE  req' \in [Requests -> Request]
  BY DEF TypeOK, Turns

LEMMA NewRequestType ==
  ASSUME NEW op \in {"none", "create", "convert", "update"}, NEW stage \in Stages,
         NEW o \in Orders \cup {NoOrder}, NEW row \in Order, NEW e \in BOOLEAN, NEW n \in Nat
  PROVE  NewRequest(op, stage, o, row, e, n) \in Request
  BY DEF NewRequest, Request

LEMMA NewOrderType ==
  ASSUME NEW state \in {"unused", "live", "gone"}, NEW c \in Clients \cup {NoClient},
         NEW i \in Inquiries \cup {NoInquiry}
  PROVE  NewOrder(state, c, i) \in Order
  BY NumbersAssumption DEF NewOrder, Order, Days

LEMMA IdleType == Idle \in Request
<1>1. NoRow("unused") \in Order
  BY NewOrderType DEF NoRow
<1>2. QED
  BY <1>1, NewRequestType DEF Idle, Stages

LEMMA IdleFields ==
  Idle.op = "none" /\ Idle.at = "free" /\ Idle.order \notin Orders /\ ~Idle.overlapped
  BY NothingAssumption DEF Idle, NewRequest

\* r goes on with what it is for.
Serves(r) ==
  /\ \A q \in Requests \ {r} : req'[q] = req[q]
  /\ req'[r].op = req[r].op /\ req'[r].edits = req[r].edits
  /\ req'[r].overlapped = req[r].overlapped
  /\ req'[r].row.state = req[r].row.state /\ req'[r].row.client = req[r].row.client
  /\ req'[r].row.inquiry = req[r].row.inquiry /\ req'[r].row.open = req[r].row.open

LEMMA LookedUp ==
  ASSUME TypeOK, NEW r \in Requests, Shaped(r), LookUpClient(r)
  PROVE  /\ req' \in [Requests -> Request] /\ Serves(r) /\ req[r].at = "start"
         /\ req'[r].row = req[r].row /\ req'[r].order = req[r].order
         /\ \/ /\ client[ClientOf(r)].exists
               /\ req'[r].at = IF req[r].edits THEN "looked" ELSE "ready"
               /\ req'[r].known = client[ClientOf(r)].active
               /\ lock' = lock
            \/ /\ ~client[ClientOf(r)].exists /\ lock[ClientOf(r)] = NoRequest
               /\ req'[r].at = "ready" /\ req'[r].known = 0
               /\ lock' = [lock EXCEPT ![ClientOf(r)] = r]
         /\ UNCHANGED <<day, client, inquiry, order, owed, loose>>
<1>1. req[r] \in Request
  BY DEF TypeOK
<1>2. CASE client[ClientOf(r)].exists
  <2> DEFINE next == [req[r] EXCEPT !.at = IF req[r].edits THEN "looked" ELSE "ready",
                                    !.known = client[ClientOf(r)].active]
  <2>1. Turns(r, next) /\ lock' = lock
    BY <1>2 DEF LookUpClient
  <2>2. client[ClientOf(r)].active \in Nat
    BY DEF TypeOK, Client, LookUpClient, Shaped, Free
  <2>3. /\ next \in Request
        /\ next.op = req[r].op /\ next.edits = req[r].edits /\ next.overlapped = req[r].overlapped
        /\ next.row = req[r].row /\ next.order = req[r].order
        /\ next.at = (IF req[r].edits THEN "looked" ELSE "ready")
        /\ next.known = client[ClientOf(r)].active
    BY <1>1, <2>2 DEF Request, Stages
  <2> HIDE DEF next
  <2>4. QED
    BY <1>2, <2>1, <2>3, Turned, TurnedType DEF Serves, LookUpClient
<1>3. CASE ~client[ClientOf(r)].exists
  <2> DEFINE next == [req[r] EXCEPT !.at = "ready", !.known = 0]
  <2>1. Turns(r, next)
    BY <1>3 DEF LookUpClient
  <2>2. /\ next \in Request
        /\ next.op = req[r].op /\ next.edits = req[r].edits /\ next.overlapped = req[r].overlapped
        /\ next.row = req[r].row /\ next.order = req[r].order /\ next.at = "ready" /\ next.known = 0
    BY <1>1 DEF Request, Stages
  <2> HIDE DEF next
  <2>3. QED
    BY <1>3, <2>1, <2>2, Turned, TurnedType DEF Serves, LookUpClient
<1>4. QED
  BY <1>2, <1>3

LEMMA ContactSaved ==
  ASSUME TypeOK, NEW r \in Requests, SaveContact(r)
  PROVE  /\ req' \in [Requests -> Request] /\ Serves(r) /\ req[r].at = "looked"
         /\ req'[r].at = "ready" /\ req'[r].row = req[r].row /\ req'[r].order = req[r].order
         /\ req'[r].known = req[r].known
         /\ lock[ClientOf(r)] = NoRequest /\ lock' = [lock EXCEPT ![ClientOf(r)] = r]
         /\ UNCHANGED <<day, client, inquiry, order, owed, loose>>
<1> DEFINE next == [req[r] EXCEPT !.at = "ready"]
<1>1. Turns(r, next)
  BY DEF SaveContact
<1>2. /\ next \in Request
      /\ next.op = req[r].op /\ next.edits = req[r].edits /\ next.overlapped = req[r].overlapped
      /\ next.row = req[r].row /\ next.order = req[r].order /\ next.at = "ready"
      /\ next.known = req[r].known
  BY DEF TypeOK, Request, Stages
<1> HIDE DEF next
<1>3. QED
  BY <1>1, <1>2, Turned, TurnedType DEF Serves, SaveContact

LEMMA ReferenceTaken ==
  ASSUME TypeOK, NEW r \in Requests, TakeReference(r)
  PROVE  /\ req' \in [Requests -> Request] /\ Serves(r) /\ req[r].at = "ready"
         /\ req[r].op # "update" /\ req'[r].at = "referenced"
         /\ req'[r].order = req[r].order /\ req'[r].known = req[r].known
         /\ req'[r].row.day = day /\ req'[r].row.seq = NextSeq(day)
         /\ UNCHANGED <<day, client, lock, inquiry, order, owed, loose>>
<1> DEFINE row == [req[r].row EXCEPT !.day = day, !.seq = NextSeq(day)]
           next == [req[r] EXCEPT !.at = "referenced", !.row = row]
<1>1. Turns(r, next)
  BY DEF TakeReference
<1>2. req[r] \in Request /\ req[r].row \in Order /\ day \in Days
  BY DEF TypeOK, Request
<1>3. NextSeq(day) \in Nat
  BY NextSeqIsFree
<1>4. /\ row \in Order
      /\ row.state = req[r].row.state /\ row.client = req[r].row.client
      /\ row.inquiry = req[r].row.inquiry /\ row.open = req[r].row.open
      /\ row.day = day /\ row.seq = NextSeq(day)
  BY <1>2, <1>3 DEF Order
<1> HIDE DEF row
<1>5. /\ next \in Request
      /\ next.op = req[r].op /\ next.edits = req[r].edits /\ next.overlapped = req[r].overlapped
      /\ next.row = row /\ next.order = req[r].order /\ next.at = "referenced"
      /\ next.known = req[r].known
  BY <1>2, <1>4 DEF Request, Stages
<1> HIDE DEF next
<1>6. QED
  BY <1>1, <1>4, <1>5, Turned, TurnedType DEF Serves, TakeReference

LEMMA OrderWritten ==
  ASSUME TypeOK, NEW r \in Requests, Shaped(r), WriteOrder(r)
  PROVE  /\ req' \in [Requests -> Request] /\ Serves(r) /\ Writing(r)
         /\ Ahead(r) = {} /\ ~Duplicate(r) /\ req'[r].at = "written"
         /\ req'[r].row = req[r].row /\ req'[r].known = req[r].known
         /\ req'[r].order \in Orders
         /\ IF req[r].op = "update" THEN req'[r].order = req[r].order
                                    ELSE req'[r].order \in Fresh
         /\ UNCHANGED <<day, client, lock, inquiry, order, owed, loose>>
<1>1. PICK o \in IF req[r].op = "update" THEN {req[r].order} ELSE Fresh :
        Turns(r, [req[r] EXCEPT !.at = "written", !.order = o])
  BY DEF WriteOrder
<1>2. o \in Orders /\ IF req[r].op = "update" THEN o = req[r].order ELSE o \in Fresh
  BY <1>1 DEF Shaped, Fresh
<1> DEFINE next == [req[r] EXCEPT !.at = "written", !.order = o]
<1>3. /\ next \in Request
      /\ next.op = req[r].op /\ next.edits = req[r].edits /\ next.overlapped = req[r].overlapped
      /\ next.row = req[r].row /\ next.order = o /\ next.at = "written"
      /\ next.known = req[r].known
  BY <1>2 DEF TypeOK, Request, Stages
<1>4. Turns(r, next)
  BY <1>1
<1> HIDE DEF next
<1>5. QED
  BY <1>2, <1>3, <1>4, Turned, TurnedType DEF Serves, WriteOrder

LEMMA OpenOrdersFinite ==
  ASSUME NEW c
  PROVE  OpenOrders(c) \subseteq Orders /\ IsFiniteSet(OpenOrders(c))
<1>1. OpenOrders(c) \subseteq Orders
  BY DEF OpenOrders, Live
<1>2. QED
  BY <1>1, NumbersAssumption, FS_Subset

LEMMA CountType ==
  ASSUME NEW r \in Requests
  PROVE  CountOrders(r) \in Nat
<1> DEFINE S == OpenOrders(ClientOf(r)) \ {req[r].order}
<1>1. IsFiniteSet(S)
  BY OpenOrdersFinite, FS_RemoveElement
<1>2. Cardinality(S) \in Nat
  BY <1>1, FS_CardinalityType
<1> HIDE DEF S
<1>3. CountOrders(r) = Cardinality(S) + (IF req[r].row.open THEN 1 ELSE 0)
  BY DEF CountOrders, S
<1>4. QED
  BY <1>2, <1>3

LEMMA OrdersCounted ==
  ASSUME TypeOK, NEW r \in Requests, Count(r)
  PROVE  /\ req' \in [Requests -> Request] /\ Serves(r) /\ req[r].at = "written"
         /\ req'[r].at = "counted" /\ req'[r].row = req[r].row /\ req'[r].order = req[r].order
         /\ req'[r].known = req[r].known /\ req'[r].count = CountOrders(r)
         /\ UNCHANGED <<day, client, lock, inquiry, order, owed, loose>>
<1> DEFINE next == [req[r] EXCEPT !.at = "counted", !.count = CountOrders(r)]
<1>1. Turns(r, next)
  BY DEF Count
<1>2. CountOrders(r) \in Nat
  BY CountType
<1>3. /\ next \in Request
      /\ next.op = req[r].op /\ next.edits = req[r].edits /\ next.overlapped = req[r].overlapped
      /\ next.row = req[r].row /\ next.order = req[r].order /\ next.at = "counted"
      /\ next.known = req[r].known /\ next.count = CountOrders(r)
  BY <1>2 DEF TypeOK, Request, Stages
<1> HIDE DEF next
<1>4. QED
  BY <1>1, <1>3, Turned, TurnedType DEF Serves, Count

\* A new request: what the three kinds have in common.
Begun(r) ==
  /\ Free(r) /\ ~Free(r)' /\ ~Written(r)' /\ ~req'[r].overlapped
  /\ \A q \in Requests \ {r} : req'[q] = req[q]
  /\ req'[r].op \in {"create", "convert", "update"}
  /\ req'[r].at \in {"start", "ready"}
  /\ req'[r].row.state = "live" /\ req'[r].row.client \in Clients
  /\ UNCHANGED <<day, client, lock, inquiry, order, owed, loose>>

LEMMA Began ==
  ASSUME TypeOK, NEW r \in Requests, NEW op \in {"create", "convert", "update"},
         NEW stage \in {"start", "ready"}, NEW o \in Orders \cup {NoOrder}, NEW row \in Order,
         NEW e \in BOOLEAN, NEW n \in Nat, row.state = "live", row.client \in Clients,
         Begin(r, op, stage, o, row, e, n)
  PROVE  /\ req' \in [Requests -> Request] /\ Begun(r)
         /\ req'[r].op = op /\ req'[r].at = stage /\ req'[r].order = o /\ req'[r].row = row
         /\ req'[r].known = n
<1> DEFINE next == NewRequest(op, stage, o, row, e, n)
<1>1. Turns(r, next)
  BY DEF Begin
<1>2. next \in Request
  BY NewRequestType DEF Stages
<1>3. /\ next.op = op /\ next.at = stage /\ next.order = o /\ next.row = row
      /\ next.known = n /\ ~next.overlapped
  BY DEF NewRequest
<1> HIDE DEF next
<1>4. QED
  BY <1>1, <1>2, <1>3, Turned, TurnedType DEF Begun, Begin, Free, Written

LEMMA CreateStarted ==
  ASSUME TypeOK, NEW r \in Requests, NEW c \in Clients, NEW e \in BOOLEAN, StartCreate(r, c, e)
  PROVE  /\ req' \in [Requests -> Request] /\ Begun(r) /\ req'[r].op = "create"
         /\ req'[r].at = "start" /\ req'[r].order = NoOrder
         /\ req'[r].row.inquiry = NoInquiry
<1> DEFINE row == NewOrder("live", c, NoInquiry)
<1>1. row \in Order
  BY NewOrderType
<1>2. row.state = "live" /\ row.client = c /\ row.inquiry = NoInquiry
  BY DEF NewOrder
<1>3. Begin(r, "create", "start", NoOrder, row, e, 0)
  BY DEF StartCreate
<1> HIDE DEF row
<1>4. QED
  BY <1>1, <1>2, <1>3, Began

LEMMA ConvertStarted ==
  ASSUME TypeOK, NEW r \in Requests, NEW i \in Inquiries, StartConvert(r, i)
  PROVE  /\ req' \in [Requests -> Request] /\ Begun(r) /\ req'[r].op = "convert"
         /\ req'[r].at = "ready" /\ req'[r].order = NoOrder
         /\ req'[r].row.inquiry = i /\ i \in Submitted
         /\ req'[r].row.client = inquiry[i] /\ req'[r].known = client[inquiry[i]].active
         /\ \A o \in Live : order[o].inquiry # i
<1> DEFINE row == NewOrder("live", inquiry[i], i)
<1>1. inquiry[i] \in Clients
  BY DEF StartConvert, Submitted, TypeOK
<1>2. row \in Order
  BY <1>1, NewOrderType
<1>3. row.state = "live" /\ row.client = inquiry[i] /\ row.inquiry = i
  BY DEF NewOrder
<1>4. client[inquiry[i]].active \in Nat
  BY <1>1 DEF TypeOK, Client
<1>5. PICK e \in BOOLEAN : Begin(r, "convert", "ready", NoOrder, row, e, client[inquiry[i]].active)
  <2>1. Begin(r, "convert", "ready", NoOrder, row, FALSE, client[inquiry[i]].active)
    BY DEF StartConvert
  <2> HIDE DEF row
  <2>2. QED
    BY <2>1
<1> HIDE DEF row
<1>6. /\ req' \in [Requests -> Request] /\ Begun(r) /\ req'[r].op = "convert"
      /\ req'[r].at = "ready" /\ req'[r].row = row /\ req'[r].order = NoOrder
      /\ req'[r].known = client[inquiry[i]].active
  BY <1>1, <1>2, <1>3, <1>4, <1>5, Began
<1>7. i \in Submitted /\ \A o \in Live : order[o].inquiry # i
  BY DEF StartConvert
<1>8. QED
  BY <1>3, <1>6, <1>7

LEMMA UpdateStarted ==
  ASSUME TypeOK, NEW r \in Requests, NEW o \in Orders, NEW c \in Clients,
         NEW i \in Inquiries \cup {NoInquiry}, NEW open \in BOOLEAN, NEW e \in BOOLEAN,
         StartUpdate(r, o, c, i, open, e)
  PROVE  /\ req' \in [Requests -> Request] /\ Begun(r) /\ req'[r].op = "update"
         /\ req'[r].at = "start" /\ req'[r].order = o
<1> DEFINE row == [order[o] EXCEPT !.client = c, !.inquiry = i, !.open = open]
<1>1. order[o] \in Order /\ order[o].state = "live"
  BY DEF StartUpdate, Live, TypeOK
<1>2. row \in Order /\ row.state = "live" /\ row.client = c
  BY <1>1 DEF Order
<1>3. Begin(r, "update", "start", o, row, e, 0)
  BY DEF StartUpdate
<1> HIDE DEF row
<1>4. QED
  BY <1>2, <1>3, Began

LEMMA RolledBack ==
  ASSUME TypeOK, NEW r \in Requests, Rollback(r)
  PROVE  /\ req' \in [Requests -> Request] /\ req'[r] = Idle
         /\ \A q \in Requests \ {r} : req'[q] = req[q]
         /\ lock' = [c \in Clients |-> IF lock[c] = r THEN NoRequest ELSE lock[c]]
         /\ UNCHANGED <<day, client, inquiry, order, owed, loose>>
  BY Turned, TurnedType, IdleType DEF Rollback

\* Another request commits or deletes.
Overtakes(q) ==
  /\ req'[q].op = req[q].op /\ req'[q].at = req[q].at /\ req'[q].order = req[q].order
  /\ req'[q].row = req[q].row /\ req'[q].edits = req[q].edits
  /\ req'[q].known = req[q].known /\ req'[q].count = req[q].count
  /\ req'[q].overlapped = ~Free(q)

LEMMA OvertakenFields ==
  ASSUME TypeOK, NEW q \in Requests
  PROVE  /\ Overtaken(q) \in Request
         /\ req'[q] = Overtaken(q) => Overtakes(q)
<1>1. req[q] \in Request
  BY DEF TypeOK
<1>2. Overtaken(q) \in Request
  BY <1>1 DEF Overtaken, Request
<1> DEFINE next == Overtaken(q)
<1>3. /\ next.op = req[q].op /\ next.at = req[q].at /\ next.order = req[q].order
      /\ next.row = req[q].row /\ next.edits = req[q].edits
      /\ next.known = req[q].known /\ next.count = req[q].count
      /\ next.overlapped = ~Free(q)
  BY <1>1 DEF Overtaken, Request
<1>4. QED
  BY <1>2, <1>3 DEF Overtakes

LEMMA Committed ==
  ASSUME TypeOK, NEW r \in Requests, Shaped(r), Commit(r)
  PROVE  /\ req' \in [Requests -> Request] /\ req'[r] = Idle /\ req[r].at = "counted"
         /\ \A q \in Requests \ {r} : Overtakes(q)
         /\ ClientOf(r) \in Clients /\ req[r].order \in Orders /\ req[r].row \in Order
         /\ order' \in [Orders -> Order] /\ order'[req[r].order] = req[r].row
         /\ \A o \in Orders \ {req[r].order} : order'[o] = order[o]
         /\ client' \in [Clients -> Client] /\ client'[ClientOf(r)].exists
         /\ client'[ClientOf(r)].active =
              IF Changed(r) THEN req[r].count ELSE client[ClientOf(r)].active
         /\ \A c \in Clients \ {ClientOf(r)} : client'[c] = client[c]
         /\ lock' = [c \in Clients |-> IF lock[c] = r THEN NoRequest ELSE lock[c]]
         /\ UNCHANGED <<day, inquiry>>
<1> DEFINE C == ClientOf(r)
           profile == [exists |-> TRUE, active |-> IF Changed(r) THEN req[r].count
                                                   ELSE client[C].active]
<1>1. req[r].at = "counted" /\ C \in Clients /\ req[r].order \in Orders
  BY DEF Commit, Shaped, Free, Written
<1>2. req[r].row \in Order /\ req[r].count \in Nat
  BY DEF TypeOK, Request
<1>3. client[C].active \in Nat
  BY <1>1 DEF TypeOK, Client
<1>4. profile \in Client /\ profile.exists
      /\ profile.active = (IF Changed(r) THEN req[r].count ELSE client[C].active)
  BY <1>2, <1>3 DEF Client
<1>5. client' = [client EXCEPT ![C] = profile]
  BY DEF Commit
<1> HIDE DEF profile, C
<1>6. /\ client' \in [Clients -> Client] /\ client'[C] = profile
      /\ \A c \in Clients \ {C} : client'[c] = client[c]
  BY <1>1, <1>4, <1>5 DEF TypeOK
<1>7. order' = [order EXCEPT ![req[r].order] = req[r].row]
  BY DEF Commit
<1>8. /\ order' \in [Orders -> Order] /\ order'[req[r].order] = req[r].row
      /\ \A o \in Orders \ {req[r].order} : order'[o] = order[o]
  BY <1>1, <1>2, <1>7 DEF TypeOK
<1>9. req' = [q \in Requests |-> IF q = r THEN Idle ELSE Overtaken(q)]
  BY DEF Commit
<1>10. /\ req' \in [Requests -> Request] /\ req'[r] = Idle
       /\ \A q \in Requests \ {r} : req'[q] = Overtaken(q)
  BY <1>9, IdleType, OvertakenFields
<1>11. \A q \in Requests \ {r} : Overtakes(q)
  BY <1>10, OvertakenFields
<1>12. /\ lock' = [c \in Clients |-> IF lock[c] = r THEN NoRequest ELSE lock[c]]
       /\ UNCHANGED <<day, inquiry>>
  BY DEF Commit
<1>13. QED
  BY <1>1, <1>2, <1>4, <1>6, <1>8, <1>10, <1>11, <1>12 DEF C

LEMMA Deleted ==
  ASSUME TypeOK, NEW r \in Requests, NEW o \in Orders, DeleteOrder(r, o)
  PROVE  /\ req' \in [Requests -> Request] /\ \A q \in Requests : Overtakes(q)
         /\ o \in Live /\ order' \in [Orders -> Order] /\ order'[o].state = "gone"
         /\ \A p \in Orders \ {o} : order'[p] = order[p]
         /\ \A q \in Requests : ~(Written(q) /\ req[q].order = o)
         /\ owed' = IF order[o].open THEN owed \cup {order[o].client} ELSE owed
         /\ UNCHANGED <<day, client, lock, inquiry, loose>>
<1>1. NoRow("gone") \in Order /\ NoRow("gone").state = "gone"
  BY NewOrderType DEF NoRow, NewOrder
<1>2. order' = [order EXCEPT ![o] = NoRow("gone")]
  BY DEF DeleteOrder
<1>3. /\ order' \in [Orders -> Order] /\ order'[o].state = "gone"
      /\ \A p \in Orders \ {o} : order'[p] = order[p]
  BY <1>1, <1>2 DEF TypeOK
<1>4. req' = [q \in Requests |-> Overtaken(q)]
  BY DEF DeleteOrder
<1>5. req' \in [Requests -> Request] /\ \A q \in Requests : Overtakes(q)
  BY <1>4, OvertakenFields
<1>6. QED
  BY <1>3, <1>5 DEF DeleteOrder

LEMMA SubmittedBy ==
  ASSUME TypeOK, NEW r \in Requests, NEW i \in Inquiries, NEW c \in Clients,
         SubmitInquiry(r, i, c)
  PROVE  /\ client' \in [Clients -> Client] /\ client'[c].exists
         /\ client'[c].active = client[c].active
         /\ \A d \in Clients \ {c} : client'[d] = client[d]
         /\ inquiry' \in [Inquiries -> Clients \cup {NoClient}] /\ inquiry'[i] = c
         /\ \A j \in Inquiries \ {i} : inquiry'[j] = inquiry[j]
         /\ lock[c] = NoRequest
         /\ UNCHANGED <<day, lock, order, req, owed, loose>>
<1> DEFINE profile == [client[c] EXCEPT !.exists = TRUE]
<1>1. profile \in Client /\ profile.exists /\ profile.active = client[c].active
  BY DEF TypeOK, Client
<1>2. client' = [client EXCEPT ![c] = profile]
  BY DEF SubmitInquiry
<1> HIDE DEF profile
<1>3. /\ client' \in [Clients -> Client] /\ client'[c] = profile
      /\ \A d \in Clients \ {c} : client'[d] = client[d]
  BY <1>1, <1>2 DEF TypeOK
<1>4. /\ inquiry' \in [Inquiries -> Clients \cup {NoClient}] /\ inquiry'[i] = c
      /\ \A j \in Inquiries \ {i} : inquiry'[j] = inquiry[j]
  BY DEF SubmitInquiry, TypeOK
<1>5. QED
  BY <1>1, <1>3, <1>4 DEF SubmitInquiry

-----------------------------------------------------------------------------
(* A step is a statement of a request, its beginning, a roll-back, a        *)
(* commit, a deletion, a submission or midnight.                            *)

Statement(r) ==
  LookUpClient(r) \/ SaveContact(r) \/ TakeReference(r) \/ WriteOrder(r) \/ Count(r)

Starts(r) ==
  \/ \E c \in Clients, e \in BOOLEAN : StartCreate(r, c, e)
  \/ \E i \in Inquiries : StartConvert(r, i)
  \/ \E o \in Orders, c \in Clients, i \in Inquiries \cup {NoInquiry}, open, e \in BOOLEAN :
       StartUpdate(r, o, c, i, open, e)

LEMMA Steps ==
  ASSUME [Next]_vars
  PROVE  \/ \E r \in Requests :
              \/ Starts(r) \/ Statement(r) \/ Rollback(r) \/ Commit(r)
              \/ \E o \in Orders : DeleteOrder(r, o)
              \/ \E i \in Inquiries, c \in Clients : SubmitInquiry(r, i, c)
         \/ Midnight
         \/ UNCHANGED vars
<1>1. CASE \E r \in Requests : Start(r)
  BY <1>1 DEF Start, Starts
<1>2. CASE \E r \in Requests : Continue(r) \/ Abort(r)
  BY <1>2 DEF Continue, Statement, DuplicateFails, DeadlockVictim, Abort
<1>3. QED
  BY <1>1, <1>2 DEF Next

LEMMA Started ==
  ASSUME TypeOK, NEW r \in Requests, Starts(r)
  PROVE  req' \in [Requests -> Request] /\ Begun(r)
<1>1. CASE \E c \in Clients, e \in BOOLEAN : StartCreate(r, c, e)
  BY <1>1, CreateStarted
<1>2. CASE \E i \in Inquiries : StartConvert(r, i)
  BY <1>2, ConvertStarted
<1>3. CASE \E o \in Orders, c \in Clients, i \in Inquiries \cup {NoInquiry}, open, e \in BOOLEAN :
             StartUpdate(r, o, c, i, open, e)
  BY <1>3, UpdateStarted
<1>4. QED
  BY <1>1, <1>2, <1>3 DEF Starts

LEMMA Stated ==
  ASSUME TypeOK, NEW r \in Requests, Shaped(r), Statement(r)
  PROVE  /\ req' \in [Requests -> Request] /\ Serves(r)
         /\ UNCHANGED <<day, client, inquiry, order, owed, loose>>
  BY LookedUp, ContactSaved, ReferenceTaken, OrderWritten, OrdersCounted DEF Statement

LEMMA TypeStep ==
  ASSUME TypeOK, AllShaped, [Next]_vars
  PROVE  TypeOK'
<1>1. ASSUME NEW r \in Requests, Starts(r) PROVE TypeOK'
  BY <1>1, Started DEF Begun, TypeOK
<1>2. ASSUME NEW r \in Requests, Statement(r) PROVE TypeOK'
  <2>1. Shaped(r)
    BY DEF AllShaped
  <2>2. req' \in [Requests -> Request] /\ UNCHANGED <<day, client, inquiry, order, owed, loose>>
    BY <1>2, <2>1, Stated
  <2>3. lock' \in [Clients -> Requests \cup {NoRequest}]
    <3>1. CASE LookUpClient(r)
      BY <3>1, <2>1, LookedUp DEF TypeOK
    <3>2. CASE SaveContact(r)
      BY <3>2, ContactSaved DEF TypeOK
    <3>3. CASE TakeReference(r) \/ WriteOrder(r) \/ Count(r)
      BY <3>3 DEF TypeOK, TakeReference, WriteOrder, Count
    <3>4. QED
      BY <1>2, <3>1, <3>2, <3>3 DEF Statement
  <2>4. QED
    BY <2>2, <2>3 DEF TypeOK
<1>3. ASSUME NEW r \in Requests, Rollback(r) PROVE TypeOK'
  BY <1>3, RolledBack DEF TypeOK
<1>4. ASSUME NEW r \in Requests, Commit(r) PROVE TypeOK'
  <2>1. Shaped(r)
    BY DEF AllShaped
  <2>2. /\ req' \in [Requests -> Request] /\ order' \in [Orders -> Order]
        /\ client' \in [Clients -> Client] /\ ClientOf(r) \in Clients
        /\ lock' = [c \in Clients |-> IF lock[c] = r THEN NoRequest ELSE lock[c]]
        /\ UNCHANGED <<day, inquiry>>
    BY <1>4, <2>1, Committed
  <2>3. lock' \in [Clients -> Requests \cup {NoRequest}]
    BY <2>2 DEF TypeOK
  <2>4. owed' \subseteq Clients /\ loose' \subseteq Clients
    <3>1. \A c \in owed' : c \in owed \/ c \in Clients
      BY <1>4 DEF Commit, OpenOrders, Live, AllShaped
    <3>2. QED
      BY <1>4, <2>2, <3>1 DEF Commit, TypeOK
  <2>5. QED
    BY <2>2, <2>3, <2>4 DEF TypeOK
<1>5. ASSUME NEW r \in Requests, NEW o \in Orders, DeleteOrder(r, o) PROVE TypeOK'
  BY <1>5, Deleted DEF TypeOK, AllShaped
<1>6. ASSUME NEW r \in Requests, NEW i \in Inquiries, NEW c \in Clients, SubmitInquiry(r, i, c)
      PROVE  TypeOK'
  BY <1>6, SubmittedBy DEF TypeOK
<1>7. CASE Midnight
  BY <1>7, NumbersAssumption DEF Midnight, TypeOK, Days
<1>8. CASE UNCHANGED vars
  BY <1>8 DEF vars, TypeOK
<1>9. QED
  BY <1>1, <1>2, <1>3, <1>4, <1>5, <1>6, <1>7, <1>8, Steps

-----------------------------------------------------------------------------
(* Requests keep their shape.                                              *)

LEMMA ShapeKept ==
  ASSUME NEW q, Shaped(q), req'[q] = req[q] \/ Overtakes(q)
  PROVE  Shaped(q)'
  BY DEF Shaped, Overtakes, Free, Written, ClientOf

LEMMA BegunShape ==
  ASSUME TypeOK, NEW r \in Requests, Starts(r)
  PROVE  Shaped(r)'
<1>1. CASE \E c \in Clients, e \in BOOLEAN : StartCreate(r, c, e)
  <2>1. /\ Begun(r) /\ req'[r].op = "create" /\ req'[r].at = "start"
        /\ req'[r].order = NoOrder /\ req'[r].row.inquiry = NoInquiry
    BY <1>1, CreateStarted
  <2>2. QED
    BY <2>1, NothingAssumption DEF Begun, Shaped, Free, Written, ClientOf
<1>2. CASE \E i \in Inquiries : StartConvert(r, i)
  <2>1. Begun(r) /\ req'[r].op = "convert" /\ req'[r].at = "ready" /\ req'[r].order = NoOrder
    BY <1>2, ConvertStarted
  <2>2. QED
    BY <2>1, NothingAssumption DEF Begun, Shaped, Free, Written, ClientOf
<1>3. CASE \E o \in Orders, c \in Clients, i \in Inquiries \cup {NoInquiry}, open, e \in BOOLEAN :
             StartUpdate(r, o, c, i, open, e)
  <2>1. Begun(r) /\ req'[r].op = "update" /\ req'[r].at = "start" /\ req'[r].order \in Orders
    BY <1>3, UpdateStarted
  <2>2. QED
    BY <2>1 DEF Begun, Shaped, Free, Written, ClientOf
<1>4. QED
  BY <1>1, <1>2, <1>3 DEF Starts

LEMMA StatedShape ==
  ASSUME TypeOK, NEW r \in Requests, Shaped(r), Statement(r)
  PROVE  Shaped(r)'
<1>1. CASE LookUpClient(r)
  BY <1>1, LookedUp DEF Serves, Shaped, Free, Written, ClientOf
<1>2. CASE SaveContact(r)
  BY <1>2, ContactSaved DEF Serves, Shaped, Free, Written, ClientOf
<1>3. CASE TakeReference(r)
  BY <1>3, ReferenceTaken DEF Serves, Shaped, Free, Written, ClientOf
<1>4. CASE WriteOrder(r)
  BY <1>4, OrderWritten DEF Serves, Shaped, Free, Written, ClientOf, Writing
<1>5. CASE Count(r)
  BY <1>5, OrdersCounted DEF Serves, Shaped, Free, Written, ClientOf
<1>6. QED
  BY <1>1, <1>2, <1>3, <1>4, <1>5 DEF Statement

LEMMA IdleShape ==
  ASSUME NEW r, req'[r] = Idle
  PROVE  Shaped(r)'
  BY IdleFields DEF Shaped, Free, Written

LEMMA ShapedStep ==
  ASSUME TypeOK, AllShaped, [Next]_vars
  PROVE  AllShaped'
<1>1. ASSUME NEW r \in Requests, Starts(r) PROVE AllShaped'
  <2>1. Begun(r) /\ Shaped(r)'
    BY <1>1, Started, BegunShape
  <2>2. order' = order /\ \A q \in Requests \ {r} : Shaped(q)'
    BY <2>1, ShapeKept DEF Begun, AllShaped
  <2>3. QED
    BY <2>1, <2>2 DEF AllShaped, Live
<1>2. ASSUME NEW r \in Requests, Statement(r) PROVE AllShaped'
  <2>1. Serves(r) /\ order' = order /\ Shaped(r)'
    BY <1>2, Stated, StatedShape DEF AllShaped
  <2>2. \A q \in Requests \ {r} : Shaped(q)'
    BY <2>1, ShapeKept DEF Serves, AllShaped
  <2>3. QED
    BY <2>1, <2>2 DEF AllShaped, Live
<1>3. ASSUME NEW r \in Requests, Rollback(r) PROVE AllShaped'
  <2>1. req'[r] = Idle /\ (\A q \in Requests \ {r} : req'[q] = req[q]) /\ order' = order
    BY <1>3, RolledBack
  <2>2. \A q \in Requests : Shaped(q)'
    BY <2>1, ShapeKept, IdleShape DEF AllShaped
  <2>3. QED
    BY <2>1, <2>2 DEF AllShaped, Live
<1>4. ASSUME NEW r \in Requests, Commit(r) PROVE AllShaped'
  <2>1. Shaped(r)
    BY DEF AllShaped
  <2>2. /\ req'[r] = Idle /\ \A q \in Requests \ {r} : Overtakes(q)
        /\ ClientOf(r) \in Clients /\ req[r].order \in Orders
        /\ order'[req[r].order] = req[r].row
        /\ \A o \in Orders \ {req[r].order} : order'[o] = order[o]
    BY <1>4, <2>1, Committed
  <2>3. \A q \in Requests : Shaped(q)'
    BY <2>2, ShapeKept, IdleShape DEF AllShaped
  <2>4. \A o \in Live' : order'[o].client \in Clients
    BY <2>2 DEF Live, AllShaped, ClientOf
  <2>5. QED
    BY <2>3, <2>4 DEF AllShaped
<1>5. ASSUME NEW r \in Requests, NEW o \in Orders, DeleteOrder(r, o) PROVE AllShaped'
  <2>1. /\ \A q \in Requests : Overtakes(q)
        /\ order'[o].state = "gone" /\ \A p \in Orders \ {o} : order'[p] = order[p]
    BY <1>5, Deleted
  <2>2. \A q \in Requests : Shaped(q)'
    BY <2>1, ShapeKept DEF AllShaped
  <2>3. QED
    BY <2>1, <2>2 DEF AllShaped, Live
<1>6. CASE UNCHANGED <<order, req>>
  <2>1. \A q \in Requests : Shaped(q)'
    BY <1>6, ShapeKept DEF AllShaped
  <2>2. QED
    BY <1>6, <2>1 DEF AllShaped, Live
<1>7. QED
  BY <1>1, <1>2, <1>3, <1>4, <1>5, <1>6, Steps DEF SubmitInquiry, Midnight, vars

-----------------------------------------------------------------------------
(* The unique constraints hold, among rows that wait for their commit too. *)

LEMMA ConflictsSymmetric == \A x, y : Conflicts(x, y) <=> Conflicts(y, x)
  BY DEF Conflicts

\* No row is written or committed in the step.
LEMMA DistinctKept ==
  ASSUME Distinct, \A o \in Live' : o \in Live /\ order'[o] = order[o],
         \A q \in Requests : Written(q)' =>
           Written(q) /\ req'[q].order = req[q].order /\ req'[q].row = req[q].row
  PROVE  Distinct'
<1> HIDE DEF Conflicts
<1>1. \A o, p \in Live' : o # p => ~Conflicts(order'[o], order'[p])
  BY DEF Distinct
<1>2. \A q \in Requests, o \in Live' :
        Written(q)' /\ o # req'[q].order => ~Conflicts(order'[o], req'[q].row)
  BY DEF Distinct
<1>3. \A p, q \in Requests :
        Written(p)' /\ Written(q)' /\ p # q =>
          req'[p].order # req'[q].order /\ ~Conflicts(req'[p].row, req'[q].row)
  BY DEF Distinct
<1>4. QED
  BY <1>1, <1>2, <1>3 DEF Distinct, Conflicts

LEMMA WriteDistinct ==
  ASSUME TypeOK, NEW r \in Requests, Shaped(r), Distinct, WriteOrder(r)
  PROVE  Distinct'
<1> DEFINE o == req'[r].order
           row == req[r].row
<1>1. /\ Serves(r) /\ Writing(r) /\ Ahead(r) = {} /\ ~Duplicate(r)
      /\ req'[r].row = row /\ o \in Orders
      /\ IF req[r].op = "update" THEN o = req[r].order ELSE o \in Fresh
      /\ order' = order
  BY OrderWritten
<1>2. \A q \in Requests \ {r} : req'[q] = req[q]
  BY <1>1 DEF Serves
<1>3. \A p \in Live : p # o => ~Conflicts(order[p], row)
  <2>1. \A p \in Live : p # req[r].order => ~Conflicts(order[p], row)
    BY <1>1 DEF Duplicate
  <2>2. req[r].op # "update" => req[r].order \notin Live
    BY <1>1 DEF Shaped, Live, Writing, Written
  <2>3. QED
    BY <1>1, <2>1, <2>2
<1>4. \A q \in Requests \ {r} :
        Written(q) => req[q].order # o /\ ~Conflicts(req[q].row, row)
  <2>1. \A q \in Requests \ {r} :
          Written(q) => req[q].order # req[r].order /\ ~Conflicts(req[q].row, row)
    BY <1>1 DEF Ahead
  <2>2. o \in Fresh => \A q \in Requests : req[q].order # o
    BY DEF Fresh
  <2>3. QED
    BY <1>1, <2>1, <2>2
<1> HIDE DEF o, row
<1>5. req'[r].order = o /\ req'[r].row = row
  BY <1>1 DEF o
<1>6. \A q \in Requests \ {r} : Written(q)' <=> Written(q)
  BY <1>2 DEF Written
<1>7. \A p, q \in Live' : p # q => ~Conflicts(order'[p], order'[q])
  BY <1>1 DEF Distinct, Live
<1>8. \A q \in Requests, p \in Live' :
        Written(q)' /\ p # req'[q].order => ~Conflicts(order'[p], req'[q].row)
  BY <1>1, <1>2, <1>3, <1>5, <1>6 DEF Distinct, Live
<1>9. \A p, q \in Requests :
        Written(p)' /\ Written(q)' /\ p # q =>
          req'[p].order # req'[q].order /\ ~Conflicts(req'[p].row, req'[q].row)
  BY <1>2, <1>4, <1>5, <1>6, ConflictsSymmetric DEF Distinct
<1>10. QED
  BY <1>7, <1>8, <1>9 DEF Distinct, Conflicts

LEMMA DistinctStep ==
  ASSUME TypeOK, AllShaped, Distinct, [Next]_vars
  PROVE  Distinct'
<1>1. ASSUME NEW r \in Requests, Starts(r) PROVE Distinct'
  BY <1>1, Started, DistinctKept DEF Begun, Live, Written
<1>2. ASSUME NEW r \in Requests, Statement(r) PROVE Distinct'
  <2>1. Shaped(r)
    BY DEF AllShaped
  <2>2. CASE WriteOrder(r)
    BY <2>1, <2>2, WriteDistinct
  <2>3. CASE LookUpClient(r) \/ SaveContact(r) \/ TakeReference(r) \/ Count(r)
    <3>1. order' = order /\ \A q \in Requests \ {r} : req'[q] = req[q]
      BY <1>2, <2>1, Stated DEF Serves
    <3>2. Written(r)' => Written(r) /\ req'[r].order = req[r].order /\ req'[r].row = req[r].row
      BY <2>1, <2>3, LookedUp, ContactSaved, ReferenceTaken, OrdersCounted DEF Written
    <3>3. QED
      BY <3>1, <3>2, DistinctKept DEF Live, Written
  <2>4. QED
    BY <1>2, <2>2, <2>3 DEF Statement
<1>3. ASSUME NEW r \in Requests, Rollback(r) PROVE Distinct'
  BY <1>3, RolledBack, IdleFields, DistinctKept DEF Live, Written
<1>4. ASSUME NEW r \in Requests, Commit(r) PROVE Distinct'
  <2>1. Shaped(r)
    BY DEF AllShaped
  <2> DEFINE o == req[r].order
             row == req[r].row
  <2>2. /\ req'[r] = Idle /\ req[r].at = "counted" /\ \A q \in Requests \ {r} : Overtakes(q)
        /\ o \in Orders /\ order'[o] = row /\ \A p \in Orders \ {o} : order'[p] = order[p]
    BY <1>4, <2>1, Committed
  <2>3. Written(r) /\ ~Written(r)'
    BY <2>2, IdleFields DEF Written
  <2>4. \A q \in Requests : Written(q)' =>
          q # r /\ Written(q) /\ req'[q].order = req[q].order /\ req'[q].row = req[q].row
    BY <2>2, <2>3 DEF Overtakes, Written
  <2>5. \A p \in Live' : p # o => p \in Live /\ order'[p] = order[p]
    BY <2>2 DEF Live
  <2>6. /\ \A p \in Live : p # o => ~Conflicts(order[p], row)
        /\ \A q \in Requests : Written(q) /\ q # r =>
             req[q].order # o /\ ~Conflicts(row, req[q].row)
    BY <2>3 DEF Distinct
  <2> HIDE DEF o, row
  <2>7. \A p, q \in Live' : p # q => ~Conflicts(order'[p], order'[q])
    BY <2>2, <2>5, <2>6, ConflictsSymmetric DEF Distinct
  <2>8. \A q \in Requests, p \in Live' :
          Written(q)' /\ p # req'[q].order => ~Conflicts(order'[p], req'[q].row)
    BY <2>2, <2>4, <2>5, <2>6 DEF Distinct
  <2>9. \A p, q \in Requests :
          Written(p)' /\ Written(q)' /\ p # q =>
            req'[p].order # req'[q].order /\ ~Conflicts(req'[p].row, req'[q].row)
    BY <2>4 DEF Distinct
  <2>10. QED
    BY <2>7, <2>8, <2>9 DEF Distinct, Conflicts
<1>5. ASSUME NEW r \in Requests, NEW o \in Orders, DeleteOrder(r, o) PROVE Distinct'
  BY <1>5, Deleted, DistinctKept DEF Live, Written, Overtakes
<1>6. CASE UNCHANGED <<order, req>>
  BY <1>6, DistinctKept DEF Live, Written
<1>7. QED
  BY <1>1, <1>2, <1>3, <1>4, <1>5, <1>6, Steps DEF SubmitInquiry, Midnight, vars

-----------------------------------------------------------------------------
(* Locks.                                                                  *)

\* Who holds a lock, and who is past the look-up, as a fact of one request.
Holds(q, c) ==
  /\ ClientOf(q) = c /\ req[q].at \in PastLookUp \ {"looked"}
  /\ client[c].exists => req[q].edits
HasProfile(q) ==
  req[q].at \in PastLookUp => client[ClientOf(q)].exists \/ lock[ClientOf(q)] = q

LEMMA LockedParts ==
  Locked <=> /\ \A i \in Submitted : client[inquiry[i]].exists
             /\ \A c \in Clients, q \in Requests : lock[c] = q => Holds(q, c)
             /\ \A q \in Requests : HasProfile(q)
  BY DEF Locked, Holds, HasProfile

\* A request that does not move keeps what it has while profiles only appear.
LEMMA ProfileKept ==
  ASSUME NEW q, req'[q] = req[q] \/ Overtakes(q), HasProfile(q),
         client[ClientOf(q)].exists => client'[ClientOf(q)].exists,
         lock[ClientOf(q)] = q => lock'[ClientOf(q)] = q
  PROVE  HasProfile(q)'
  BY DEF HasProfile, Overtakes, ClientOf

LEMMA HoldKept ==
  ASSUME NEW q, NEW c, req'[q] = req[q] \/ Overtakes(q), Holds(q, c),
         client'[c].exists => client[c].exists
  PROVE  Holds(q, c)'
  BY DEF Holds, Overtakes, ClientOf

LEMMA StatedLocked ==
  ASSUME TypeOK, NEW r \in Requests, Shaped(r), Locked, Statement(r)
  PROVE  Locked'
<1>1. /\ Serves(r) /\ UNCHANGED <<client, inquiry>>
      /\ \A q \in Requests \ {r} : req'[q] = req[q]
      /\ ClientOf(r)' = ClientOf(r)
  BY Stated DEF Serves, ClientOf
<1>2. req[r].at # "free" /\ ClientOf(r) \in Clients
  BY DEF Statement, LookUpClient, SaveContact, TakeReference, WriteOrder, Writing, Count, Shaped, Free
<1>3. req'[r].at \in PastLookUp /\ req'[r].edits = req[r].edits
  BY LookedUp, ContactSaved, ReferenceTaken, OrderWritten, OrdersCounted
     DEF Statement, PastLookUp, Serves
<1>4. ASSUME lock' = lock, client[ClientOf(r)].exists \/ req[r].at \in PastLookUp,
             req[r].at \in PastLookUp => req'[r].at # "looked"
      PROVE  Locked'
  <2>1. HasProfile(r)'
    BY <1>1, <1>4, LockedParts DEF HasProfile
  <2>2. \A q \in Requests : HasProfile(q)'
    BY <1>1, <1>4, <2>1, ProfileKept, LockedParts
  <2>3. \A c \in Clients : lock[c] = r => Holds(r, c)'
    BY <1>1, <1>3, <1>4, LockedParts DEF Holds
  <2>4. \A c \in Clients, q \in Requests : lock'[c] = q => Holds(q, c)'
    BY <1>1, <1>4, <2>3, HoldKept, LockedParts
  <2>5. \A i \in Submitted' : client'[inquiry'[i]].exists
    BY <1>1 DEF Locked, Submitted
  <2>6. QED
    BY <2>2, <2>4, <2>5, LockedParts DEF Locked, Holds, HasProfile
<1>5. ASSUME lock[ClientOf(r)] = NoRequest, lock' = [lock EXCEPT ![ClientOf(r)] = r],
             req'[r].at = "ready", client[ClientOf(r)].exists => req[r].edits
      PROVE  Locked'
  <2>1. lock'[ClientOf(r)] = r /\ \A c \in Clients \ {ClientOf(r)} : lock'[c] = lock[c]
    BY <1>2, <1>5 DEF TypeOK
  <2>2. HasProfile(r)'
    BY <1>1, <2>1 DEF HasProfile
  <2>3. \A q \in Requests \ {r} : HasProfile(q)'
    <3> SUFFICES ASSUME NEW q \in Requests \ {r} PROVE HasProfile(q)'
      OBVIOUS
    <3>1. HasProfile(q)
      BY LockedParts
    <3>2. lock[ClientOf(q)] = q => lock'[ClientOf(q)] = q
      BY <1>5, NothingAssumption DEF TypeOK
    <3>3. QED
      BY <1>1, <3>1, <3>2, ProfileKept
  <2>4. \A c \in Clients : lock'[c] = r => Holds(r, c)'
    <3> SUFFICES ASSUME NEW c \in Clients, lock'[c] = r PROVE Holds(r, c)'
      OBVIOUS
    <3>1. CASE c = ClientOf(r)
      BY <3>1, <1>1, <1>3, <1>5 DEF Holds, PastLookUp
    <3>2. CASE c # ClientOf(r)
      BY <3>2, <2>1, LockedParts DEF Holds
    <3>3. QED
      BY <3>1, <3>2
  <2>5. \A c \in Clients, q \in Requests \ {r} : lock'[c] = q => Holds(q, c)'
    BY <1>1, <2>1, HoldKept, LockedParts
  <2>6. \A i \in Submitted' : client'[inquiry'[i]].exists
    BY <1>1 DEF Locked, Submitted
  <2>7. QED
    BY <2>2, <2>3, <2>4, <2>5, <2>6 DEF Locked, Holds, HasProfile
<1>6. CASE LookUpClient(r)
  <2>1. CASE client[ClientOf(r)].exists
    BY <1>4, <1>6, <2>1, LookedUp DEF PastLookUp
  <2>2. CASE ~client[ClientOf(r)].exists
    BY <1>5, <1>6, <2>2, LookedUp
  <2>3. QED
    BY <2>1, <2>2
<1>7. CASE SaveContact(r)
  BY <1>5, <1>7, ContactSaved DEF Shaped
<1>8. CASE TakeReference(r)
  BY <1>4, <1>8, ReferenceTaken DEF PastLookUp
<1>9. CASE WriteOrder(r)
  BY <1>4, <1>9, OrderWritten DEF PastLookUp, Writing
<1>10. CASE Count(r)
  BY <1>4, <1>10, OrdersCounted DEF PastLookUp
<1>11. QED
  BY <1>6, <1>7, <1>8, <1>9, <1>10 DEF Statement

LEMMA BegunLocked ==
  ASSUME TypeOK, NEW r \in Requests, Locked, Starts(r)
  PROVE  Locked'
<1>1. /\ Begun(r) /\ UNCHANGED <<client, inquiry, lock>>
      /\ \A q \in Requests \ {r} : req'[q] = req[q]
  BY Started DEF Begun
<1>2. HasProfile(r)'
  <2>1. CASE \E i \in Inquiries : StartConvert(r, i)
    <3>1. \E i \in Submitted : req'[r].row.client = inquiry[i]
      BY <2>1, ConvertStarted
    <3>2. QED
      BY <1>1, <3>1 DEF HasProfile, Locked, ClientOf
  <2>2. CASE ~\E i \in Inquiries : StartConvert(r, i)
    <3>1. req'[r].at = "start"
      BY <2>2, CreateStarted, UpdateStarted DEF Starts
    <3>2. QED
      BY <3>1 DEF HasProfile, PastLookUp
  <2>3. QED
    BY <2>1, <2>2
<1>3. \A c \in Clients : lock[c] # r
  BY <1>1 DEF Begun, Free, Locked, PastLookUp
<1>4. \A q \in Requests : HasProfile(q)'
  BY <1>1, <1>2, ProfileKept, LockedParts
<1>5. \A c \in Clients, q \in Requests : lock'[c] = q => Holds(q, c)'
  BY <1>1, <1>3, HoldKept, LockedParts
<1>6. QED
  BY <1>1, <1>4, <1>5 DEF Locked, Holds, HasProfile, Submitted

\* r's locks are released; the others do not move.
LEMMA ReleasedLocked ==
  ASSUME TypeOK, NEW r \in Requests, Locked, inquiry' = inquiry, req'[r] = Idle,
         \A q \in Requests \ {r} : req'[q] = req[q] \/ Overtakes(q),
         lock' = [c \in Clients |-> IF lock[c] = r THEN NoRequest ELSE lock[c]],
         \A q \in Requests : ~Free(q) => ClientOf(q) \in Clients,
         \A c \in Clients : client[c].exists => client'[c].exists,
         \A c \in Clients : client'[c].exists =>
           client[c].exists \/ lock[c] \in {NoRequest, r}
  PROVE  Locked'
<1>1. HasProfile(r)'
  BY IdleFields DEF HasProfile, PastLookUp
<1>2. ASSUME NEW q \in Requests \ {r} PROVE HasProfile(q)'
  <2>1. CASE Free(q)
    BY <2>1, <1>2 DEF HasProfile, PastLookUp, Free, Overtakes
  <2>2. CASE ~Free(q)
    <3>1. ClientOf(q) \in Clients /\ HasProfile(q)
      BY <2>2, LockedParts
    <3>2. lock[ClientOf(q)] = q => lock'[ClientOf(q)] = q
      BY <3>1
    <3>3. QED
      BY <3>1, <3>2, ProfileKept
  <2>3. QED
    BY <2>1, <2>2
<1>3. ASSUME NEW c \in Clients, NEW q \in Requests, lock'[c] = q PROVE Holds(q, c)'
  <2>1. lock[c] = q /\ q # r /\ q # NoRequest
    BY <1>3, NothingAssumption DEF TypeOK
  <2>2. Holds(q, c)
    BY <2>1, LockedParts
  <2>3. client'[c].exists => client[c].exists
    BY <2>1
  <2>4. QED
    BY <2>1, <2>2, <2>3, HoldKept
<1>4. \A i \in Submitted' : client'[inquiry'[i]].exists
  BY DEF Locked, Submitted, TypeOK
<1>5. QED
  BY <1>1, <1>2, <1>3, <1>4 DEF Locked, Holds, HasProfile

LEMMA LockedStep ==
  ASSUME TypeOK, AllShaped, Locked, [Next]_vars
  PROVE  Locked'
<1> USE DEF AllShaped
<1>1. ASSUME NEW r \in Requests, Starts(r) PROVE Locked'
  BY <1>1, BegunLocked
<1>2. ASSUME NEW r \in Requests, Statement(r) PROVE Locked'
  BY <1>2, StatedLocked
<1>3. ASSUME NEW r \in Requests, Rollback(r) PROVE Locked'
  BY <1>3, RolledBack, ReleasedLocked DEF Shaped
<1>4. ASSUME NEW r \in Requests, Commit(r) PROVE Locked'
  <2>1. Shaped(r)
    OBVIOUS
  <2>2. /\ req'[r] = Idle /\ req[r].at = "counted" /\ \A q \in Requests \ {r} : Overtakes(q)
        /\ ClientOf(r) \in Clients /\ client'[ClientOf(r)].exists
        /\ \A c \in Clients \ {ClientOf(r)} : client'[c] = client[c]
        /\ lock' = [c \in Clients |-> IF lock[c] = r THEN NoRequest ELSE lock[c]]
        /\ UNCHANGED inquiry
    BY <1>4, <2>1, Committed
  <2>3. client[ClientOf(r)].exists \/ lock[ClientOf(r)] = r
    BY <2>2 DEF Locked, PastLookUp
  <2>4. QED
    BY <2>2, <2>3, ReleasedLocked DEF Shaped
<1>5. ASSUME NEW r \in Requests, NEW o \in Orders, DeleteOrder(r, o) PROVE Locked'
  <2>1. (\A q \in Requests : Overtakes(q)) /\ UNCHANGED <<client, lock, inquiry>>
    BY <1>5, Deleted
  <2>2. \A q \in Requests : HasProfile(q)'
    BY <2>1, ProfileKept, LockedParts
  <2>3. \A c \in Clients, q \in Requests : lock'[c] = q => Holds(q, c)'
    BY <2>1, HoldKept, LockedParts
  <2>4. QED
    BY <2>1, <2>2, <2>3 DEF Locked, Holds, HasProfile, Submitted
<1>6. ASSUME NEW r \in Requests, NEW i \in Inquiries, NEW c \in Clients, SubmitInquiry(r, i, c)
      PROVE  Locked'
  <2>1. /\ client'[c].exists /\ \A d \in Clients \ {c} : client'[d] = client[d]
        /\ inquiry'[i] = c /\ \A j \in Inquiries \ {i} : inquiry'[j] = inquiry[j]
        /\ lock[c] = NoRequest /\ UNCHANGED <<lock, req>>
    BY <1>6, SubmittedBy
  <2>2. \A q \in Requests : HasProfile(q)'
    <3> SUFFICES ASSUME NEW q \in Requests, ~Free(q) PROVE HasProfile(q)'
      BY <2>1 DEF HasProfile, PastLookUp, Free
    <3>1. HasProfile(q) /\ ClientOf(q) \in Clients
      BY LockedParts DEF Shaped
    <3>2. QED
      BY <2>1, <3>1, ProfileKept
  <2>3. \A d \in Clients, q \in Requests : lock'[d] = q => Holds(q, d)'
    BY <2>1, HoldKept, LockedParts, NothingAssumption
  <2>4. \A j \in Submitted' : client'[inquiry'[j]].exists
    BY <2>1 DEF Locked, Submitted, TypeOK
  <2>5. QED
    BY <2>2, <2>3, <2>4 DEF Locked, Holds, HasProfile
<1>7. CASE UNCHANGED <<client, lock, inquiry, req>>
  BY <1>7 DEF Locked, ClientOf, Submitted
<1>8. QED
  BY <1>1, <1>2, <1>3, <1>4, <1>5, <1>6, <1>7, Steps DEF Midnight, vars

-----------------------------------------------------------------------------
(* What was read still holds, for a request nobody overtook.               *)

CurrentOf(q) == ~req[q].overlapped => Unused(q) /\ Counted(q)

LEMMA CountKept ==
  ASSUME NEW q, order' = order, req'[q].row = req[q].row, req'[q].order = req[q].order
  PROVE  CountOrders(q)' = CountOrders(q)
  BY DEF CountOrders, OpenOrders, ClientOf, Live

LEMMA CurrentKept ==
  ASSUME NEW q, CurrentOf(q), req'[q] = req[q], order' = order,
         client'[ClientOf(q)].active = client[ClientOf(q)].active \/ Free(q)
  PROVE  CurrentOf(q)'
<1>1. Unused(q)' <=> Unused(q)
  BY DEF Unused, SeqsOf, Live
<1>2. CountOrders(q)' = CountOrders(q)
  BY CountKept
<1>3. Counted(q) => Counted(q)'
  BY <1>2 DEF Counted, ClientOf, Free, PastLookUp
<1>4. QED
  BY <1>1, <1>3 DEF CurrentOf

\* Who is overtaken promises nothing more.
LEMMA OvertakenCurrent ==
  ASSUME NEW q, Shaped(q), Overtakes(q)
  PROVE  CurrentOf(q)'
<1>1. CASE Free(q)
  BY <1>1 DEF Overtakes, Free, Shaped, CurrentOf, Unused, Counted, PastLookUp
<1>2. CASE ~Free(q)
  BY <1>2 DEF Overtakes, CurrentOf
<1>3. QED
  BY <1>1, <1>2

LEMMA IdleCurrent ==
  ASSUME NEW q, req'[q] = Idle
  PROVE  CurrentOf(q)'
  BY IdleFields DEF CurrentOf, Unused, Counted, PastLookUp

LEMMA BegunCurrent ==
  ASSUME TypeOK, NEW r \in Requests, Starts(r)
  PROVE  CurrentOf(r)'
<1>1. CASE \E i \in Inquiries : StartConvert(r, i)
  <2>1. PICK i \in Inquiries : StartConvert(r, i)
    BY <1>1
  <2>2. /\ req'[r].op = "convert" /\ req'[r].at = "ready" /\ req'[r].row.inquiry = i
        /\ req'[r].row.client = inquiry[i] /\ req'[r].known = client[inquiry[i]].active
        /\ (\A o \in Live : order[o].inquiry # i) /\ UNCHANGED <<order, client, inquiry>>
    BY <2>1, ConvertStarted DEF Begun
  <2>3. QED
    BY <2>2 DEF CurrentOf, Unused, Counted, Live, ClientOf
<1>2. CASE ~\E i \in Inquiries : StartConvert(r, i)
  <2>1. req'[r].at = "start" /\ req'[r].op # "convert"
    BY <1>2, CreateStarted, UpdateStarted DEF Starts
  <2>2. QED
    BY <2>1 DEF CurrentOf, Unused, Counted, PastLookUp
<1>3. QED
  BY <1>1, <1>2

LEMMA StatedCurrent ==
  ASSUME TypeOK, NEW r \in Requests, Shaped(r), CurrentOf(r), Statement(r),
         \A c \in Clients : ~client[c].exists => client[c].active = 0
  PROVE  CurrentOf(r)'
<1>1. /\ Serves(r) /\ UNCHANGED <<client, order>> /\ ClientOf(r)' = ClientOf(r)
      /\ req'[r].op = req[r].op /\ req'[r].overlapped = req[r].overlapped
      /\ req'[r].row.inquiry = req[r].row.inquiry
  BY Stated DEF Serves, ClientOf
<1>2. CurrentOf(r) /\ req[r].op = "convert" /\ ~req'[r].overlapped =>
        \A o \in Live' : order'[o].inquiry # req'[r].row.inquiry
  BY <1>1 DEF CurrentOf, Unused, Live
<1>3. CASE LookUpClient(r)
  <2>1. ClientOf(r) \in Clients
    BY <1>3 DEF LookUpClient, Shaped, Free
  <2>2. req'[r].known = client[ClientOf(r)].active /\ req'[r].at \in {"looked", "ready"}
    BY <1>3, <2>1, LookedUp
  <2>3. QED
    BY <1>1, <1>2, <2>2 DEF CurrentOf, Unused, Counted
<1>4. CASE SaveContact(r)
  <2>1. req[r].at = "looked" /\ req'[r].at = "ready" /\ req'[r].known = req[r].known
    BY <1>4, ContactSaved
  <2>2. QED
    BY <1>1, <1>2, <2>1 DEF CurrentOf, Unused, Counted, PastLookUp
<1>5. CASE TakeReference(r)
  <2>1. /\ req[r].at = "ready" /\ req'[r].at = "referenced" /\ req'[r].known = req[r].known
        /\ req'[r].row.day = day /\ req'[r].row.seq = NextSeq(day)
    BY <1>5, ReferenceTaken
  <2>2. Limit \in SeqsOf(day) \/ NextSeq(day) \notin SeqsOf(day)
    BY NextSeqIsFree
  <2>3. SeqsOf(req[r].row.day)' = SeqsOf(day)
    BY <1>1, <2>1 DEF SeqsOf, Live
  <2>4. (Limit \in SeqsOf(req[r].row.day) \/ req[r].row.seq \notin SeqsOf(req[r].row.day))'
    BY <2>1, <2>2, <2>3
  <2>5. QED
    BY <1>1, <1>2, <2>1, <2>4 DEF CurrentOf, Unused, Counted, PastLookUp
<1>6. CASE WriteOrder(r)
  <2>1. Writing(r) /\ req'[r].at = "written" /\ req'[r].known = req[r].known
    BY <1>6, OrderWritten
  <2>2. QED
    BY <1>1, <1>2, <2>1 DEF CurrentOf, Unused, Counted, PastLookUp, Writing
<1>7. CASE Count(r)
  <2>1. /\ req[r].at = "written" /\ req'[r].at = "counted" /\ req'[r].known = req[r].known
        /\ req'[r].count = CountOrders(r)
        /\ req'[r].row = req[r].row /\ req'[r].order = req[r].order
    BY <1>7, OrdersCounted
  <2>2. req'[r].count = CountOrders(r)'
    BY <1>1, <2>1, CountKept
  <2>3. QED
    BY <1>1, <1>2, <2>1, <2>2 DEF CurrentOf, Unused, Counted, PastLookUp
<1>8. QED
  BY <1>3, <1>4, <1>5, <1>6, <1>7 DEF Statement

LEMMA CurrentStep ==
  ASSUME TypeOK, AllShaped, Current, Settled, [Next]_vars
  PROVE  Current'
<1> USE DEF AllShaped
<1>0. (\A q \in Requests : CurrentOf(q)) /\ ((\A q \in Requests : CurrentOf(q)') => Current')
  BY DEF Current, CurrentOf
<1>1. ASSUME NEW r \in Requests, Starts(r) PROVE Current'
  <2>1. CurrentOf(r)' /\ UNCHANGED <<order, client>> /\ \A q \in Requests \ {r} : req'[q] = req[q]
    BY <1>1, Started, BegunCurrent DEF Begun
  <2>2. QED
    BY <1>0, <2>1, CurrentKept
<1>2. ASSUME NEW r \in Requests, Statement(r) PROVE Current'
  <2>1. UNCHANGED <<order, client>> /\ \A q \in Requests \ {r} : req'[q] = req[q]
    BY <1>2, Stated DEF Serves
  <2>2. CurrentOf(r)'
    BY <1>0, <1>2, StatedCurrent DEF Settled
  <2>3. QED
    BY <1>0, <2>1, <2>2, CurrentKept
<1>3. ASSUME NEW r \in Requests, Rollback(r) PROVE Current'
  BY <1>0, <1>3, RolledBack, IdleCurrent, CurrentKept
<1>4. ASSUME NEW r \in Requests, Commit(r) PROVE Current'
  <2>1. Shaped(r)
    OBVIOUS
  <2>2. req'[r] = Idle /\ \A q \in Requests \ {r} : Overtakes(q)
    BY <1>4, <2>1, Committed
  <2>3. QED
    BY <1>0, <2>2, IdleCurrent, OvertakenCurrent
<1>5. ASSUME NEW r \in Requests, NEW o \in Orders, DeleteOrder(r, o) PROVE Current'
  BY <1>0, <1>5, Deleted, OvertakenCurrent
<1>6. ASSUME NEW r \in Requests, NEW i \in Inquiries, NEW c \in Clients, SubmitInquiry(r, i, c)
      PROVE  Current'
  <2>1. /\ UNCHANGED <<order, req>>
        /\ \A d \in Clients : client'[d].active = client[d].active
    BY <1>6, SubmittedBy
  <2>2. \A q \in Requests : ClientOf(q) \in Clients \/ Free(q)
    BY DEF Shaped
  <2>3. QED
    BY <1>0, <2>1, <2>2, CurrentKept
<1>7. CASE UNCHANGED <<order, req, client>>
  BY <1>0, <1>7, CurrentKept
<1>8. QED
  BY <1>1, <1>2, <1>3, <1>4, <1>5, <1>6, <1>7, Steps DEF Midnight, vars

-----------------------------------------------------------------------------
(* The counts.                                                             *)

Exact(c) == client[c].active = Cardinality(OpenOrders(c))

LEMMA SettledKept ==
  ASSUME Settled, UNCHANGED <<order, owed, loose>>,
         \A c \in Clients : /\ client'[c].active = client[c].active
                            /\ client[c].exists => client'[c].exists
  PROVE  Settled'
<1>1. \A c : OpenOrders(c)' = OpenOrders(c)
  BY DEF OpenOrders, Live
<1>2. \A c \in Clients \ (owed \cup loose) :
        client'[c].active = Cardinality(OpenOrders(c)')
  BY <1>1 DEF Settled, MetricsSettle
<1>3. \A c \in Clients : ~client'[c].exists => client'[c].active = 0
  BY DEF Settled
<1>4. MetricsSettle'
  BY <1>2 DEF MetricsSettle
<1>5. QED
  BY <1>3, <1>4 DEF Settled

LEMMA DeleteSettled ==
  ASSUME TypeOK, Settled, NEW r \in Requests, NEW o \in Orders, DeleteOrder(r, o)
  PROVE  Settled'
<1>1. /\ o \in Live /\ order'[o].state = "gone" /\ \A p \in Orders \ {o} : order'[p] = order[p]
      /\ owed' = IF order[o].open THEN owed \cup {order[o].client} ELSE owed
      /\ UNCHANGED <<client, loose>>
  BY Deleted
<1>2. ASSUME NEW c \in Clients \ (owed' \cup loose') PROVE Exact(c)'
  <2>1. c \notin owed /\ c \notin loose /\ o \notin OpenOrders(c)
    BY <1>1 DEF OpenOrders
  <2>2. OpenOrders(c)' = OpenOrders(c)
    BY <1>1, <2>1 DEF OpenOrders, Live
  <2>3. QED
    BY <1>1, <2>1, <2>2 DEF Settled, MetricsSettle, Exact
<1>3. MetricsSettle'
  BY <1>2 DEF MetricsSettle, Exact
<1>4. QED
  BY <1>1, <1>3 DEF Settled

LEMMA CommitSettled ==
  ASSUME TypeOK, Settled, NEW r \in Requests, Shaped(r), CurrentOf(r), Commit(r)
  PROVE  Settled'
<1>0. PICK C \in Clients : C = ClientOf(r)
  BY Committed
<1> DEFINE o == req[r].order
           row == req[r].row
<1>1. /\ req[r].at = "counted" /\ o \in Orders /\ order'[o] = row
      /\ \A p \in Orders \ {o} : order'[p] = order[p]
      /\ client'[C].exists
      /\ client'[C].active = IF Changed(r) THEN req[r].count ELSE client[C].active
      /\ \A c \in Clients \ {C} : client'[c] = client[c]
  BY <1>0, Committed
<1>2. /\ owed' = {c \in owed \cup {order[o].client} :
                    c # C /\ (c \in owed \/ o \in OpenOrders(c))}
      /\ loose' = IF req[r].overlapped THEN loose \cup {C} ELSE loose \ {C}
  BY <1>0 DEF Commit
<1>3. row.state = "live" /\ row.client = C
  BY <1>0, <1>1 DEF Shaped, Free, ClientOf
<1>4. ASSUME NEW c \in Clients \ (owed' \cup loose'), c # C PROVE Exact(c)'
  <2>1. c \notin owed /\ c \notin loose /\ o \notin OpenOrders(c)
    BY <1>2, <1>4 DEF OpenOrders
  <2>2. OpenOrders(c)' = OpenOrders(c)
    BY <1>1, <1>3, <1>4, <2>1 DEF OpenOrders, Live
  <2>3. QED
    BY <1>1, <1>4, <2>1, <2>2 DEF Settled, MetricsSettle, Exact
<1>5. ASSUME C \notin loose' PROVE Exact(C)'
  <2>1. ~req[r].overlapped
    BY <1>2, <1>5
  <2>2. req[r].known = client[C].active /\ req[r].count = CountOrders(r)
    BY <1>0, <1>1, <2>1 DEF CurrentOf, Counted, PastLookUp
  <2>3. client'[C].active = CountOrders(r)
    BY <1>1, <2>2 DEF Changed
  <2>4. CountOrders(r) = Cardinality(OpenOrders(C)')
    <3> DEFINE S == OpenOrders(C) \ {o}
    <3>1. IsFiniteSet(S) /\ o \notin S
      BY OpenOrdersFinite, FS_RemoveElement
    <3>2. OpenOrders(C)' = IF row.open THEN S \cup {o} ELSE S
      BY <1>1, <1>3 DEF OpenOrders, Live
    <3>3. Cardinality(S \cup {o}) = Cardinality(S) + 1 /\ Cardinality(S) \in Nat
      BY <3>1, FS_AddElement, FS_CardinalityType
    <3>4. CountOrders(r) = Cardinality(S) + (IF row.open THEN 1 ELSE 0)
      BY <1>0 DEF CountOrders
    <3> HIDE DEF S
    <3>5. CASE row.open
      BY <3>2, <3>3, <3>4, <3>5
    <3>6. CASE ~row.open
      BY <3>2, <3>3, <3>4, <3>6
    <3>7. QED
      BY <3>5, <3>6
  <2>5. QED
    BY <2>3, <2>4 DEF Exact
<1>6. MetricsSettle'
  BY <1>4, <1>5 DEF MetricsSettle, Exact
<1>7. \A c \in Clients : ~client'[c].exists => client'[c].active = 0
  BY <1>1 DEF Settled
<1>8. QED
  BY <1>6, <1>7 DEF Settled

LEMMA SettledStep ==
  ASSUME TypeOK, AllShaped, Current, Settled, [Next]_vars
  PROVE  Settled'
<1>1. ASSUME NEW r \in Requests, Starts(r) \/ Statement(r) \/ Rollback(r) PROVE Settled'
  <2>1. UNCHANGED <<order, owed, loose, client>>
    BY <1>1, Started, Stated, RolledBack DEF Begun, AllShaped
  <2>2. QED
    BY <2>1, SettledKept
<1>2. ASSUME NEW r \in Requests, Commit(r) PROVE Settled'
  BY <1>2, CommitSettled DEF AllShaped, Current, CurrentOf
<1>3. ASSUME NEW r \in Requests, NEW o \in Orders, DeleteOrder(r, o) PROVE Settled'
  BY <1>3, DeleteSettled
<1>4. ASSUME NEW r \in Requests, NEW i \in Inquiries, NEW c \in Clients, SubmitInquiry(r, i, c)
      PROVE  Settled'
  <2>1. /\ UNCHANGED <<order, owed, loose>>
        /\ client'[c].exists /\ client'[c].active = client[c].active
        /\ \A d \in Clients \ {c} : client'[d] = client[d]
    BY <1>4, SubmittedBy
  <2>2. QED
    BY <2>1, SettledKept
<1>5. CASE UNCHANGED <<order, owed, loose, client>>
  BY <1>5, SettledKept
<1>6. QED
  BY <1>1, <1>2, <1>3, <1>4, <1>5, Steps DEF Midnight, vars

-----------------------------------------------------------------------------
(* The theorems.                                                           *)

LEMMA Initially == Init => IInv
<1> SUFFICES ASSUME Init PROVE IInv
  OBVIOUS
<1>1. NoRow("unused") \in Order /\ NoRow("unused").state = "unused"
  BY NewOrderType DEF NoRow, NewOrder
<1>2. TypeOK
  BY <1>1, IdleType, NumbersAssumption DEF Init, TypeOK, Client, Days
<1>3. Live = {} /\ \A r \in Requests : req[r] = Idle
  BY <1>1 DEF Init, Live
<1>4. AllShaped /\ Distinct /\ Current
  BY <1>3, IdleFields DEF AllShaped, Shaped, Free, Written, Distinct, Current, Unused, Counted, PastLookUp
<1>5. Locked
  BY <1>3, IdleFields, NothingAssumption DEF Init, Locked, Submitted, PastLookUp
<1>6. Settled
  <2>1. \A c : OpenOrders(c) = {}
    BY <1>3 DEF OpenOrders
  <2>2. Cardinality({}) = 0
    BY FS_EmptySet
  <2>3. QED
    BY <2>1, <2>2 DEF Init, Settled, MetricsSettle
<1>7. QED
  BY <1>2, <1>4, <1>5, <1>6 DEF IInv

LEMMA Invariance == IInv /\ [Next]_vars => IInv'
  BY TypeStep, ShapedStep, DistinctStep, LockedStep, CurrentStep, SettledStep DEF IInv

\* Requests, rows, locks and counts agree in every reachable state, for any
\* number of requests, clients, inquiries and orders.
THEOREM InductiveInvariant == Spec => []IInv
  BY Initially, Invariance, PTL DEF Spec

\* Every reachable state is well-typed.
THEOREM TypeCorrect == Spec => []TypeOK
<1>1. IInv => TypeOK
  BY DEF IInv
<1>2. QED
  BY <1>1, InductiveInvariant, PTL

\* An inquiry gets at most one order, however conversions, edits and the return
\* of deleted orders overlap.
THEOREM OneOrderEach == Spec => []OneOrderPerInquiry
<1>1. IInv => OneOrderPerInquiry
  BY DEF IInv, Distinct, Conflicts, OneOrderPerInquiry
<1>2. QED
  BY <1>1, InductiveInvariant, PTL

\* active_projects is exact for every client last synchronised by a request no
\* other committed or deleted under, unless an order was deleted or moved since.
THEOREM CountsSettle == Spec => []MetricsSettle
<1>1. IInv => MetricsSettle
  BY DEF IInv, Settled
<1>2. QED
  BY <1>1, InductiveInvariant, PTL

LEMMA RefusalHasCause ==
  ASSUME IInv
  PROVE  RefusedOnlyByOverlap
<1> SUFFICES ASSUME NEW r \in Requests, Writing(r), Duplicate(r), req[r].op # "update",
                    ~req[r].overlapped
             PROVE  Limit \in SeqsOf(req[r].row.day)
  BY DEF RefusedOnlyByOverlap
<1>1. Shaped(r) /\ Unused(r) /\ req[r] \in Request
  BY DEF IInv, AllShaped, Current, TypeOK
<1>2. req[r].at = "referenced"
  BY DEF Writing
<1>3. PICK o \in Live : Conflicts(order[o], req[r].row)
  BY DEF Duplicate
<1>4. CASE order[o].day = req[r].row.day /\ order[o].seq = req[r].row.seq
  <2>1. req[r].row.seq \in SeqsOf(req[r].row.day)
    BY <1>4 DEF SeqsOf
  <2>2. QED
    BY <1>1, <1>2, <2>1 DEF Unused
<1>5. CASE order[o].inquiry = req[r].row.inquiry /\ order[o].inquiry # NoInquiry
  <2>1. req[r].op = "convert"
    BY <1>1, <1>2, <1>5 DEF Shaped, Request, Free
  <2>2. QED
    BY <1>1, <1>5, <2>1 DEF Unused
<1>6. QED
  BY <1>3, <1>4, <1>5 DEF Conflicts

\* A request waits before it has the client's row, to write, or to count.
LEMMA WhoWaits ==
  ASSUME NEW r \in Requests, WaitsFor(r) # {}
  PROVE  \/ req[r].at \in {"start", "looked"} /\ WaitsFor(r) = {lock[ClientOf(r)]}
         \/ Writing(r) /\ WaitsFor(r) = Ahead(r)
         \/ req[r].at = "counted" /\ WaitsFor(r) = {lock[ClientOf(r)]} \ {r}
<1>1. CASE req[r].at = "start" /\ ~client[ClientOf(r)].exists
  BY <1>1 DEF WaitsFor, Writing
<1>2. CASE req[r].at = "looked"
  BY <1>2 DEF WaitsFor, Writing
<1>3. CASE Writing(r)
  BY <1>3 DEF WaitsFor, Writing
<1>4. CASE req[r].at = "counted" /\ Changed(r)
  BY <1>4 DEF WaitsFor, Writing
<1>5. QED
  BY <1>1, <1>2, <1>3, <1>4 DEF WaitsFor, Writing

\* Without a change of contact data only two kinds of request wait: those that
\* look for a client another inserts, and those that write beside a written row;
\* the first wait for one that is further on, the second for one that waits not.
LEMMA CircleHasCause ==
  ASSUME IInv
  PROVE  DeadlockNeedsContactChange
<1> SUFFICES ASSUME NEW S \in SUBSET Requests, Stuck(S), \A r \in S : ~req[r].edits
             PROVE  FALSE
  BY DEF DeadlockNeedsContactChange, Cycles
<1>1. \A r \in S : Shaped(r) /\ HasProfile(r)
  BY LockedParts DEF IInv, AllShaped
<1>2. \A r \in S : req[r].at # "free" => ClientOf(r) \in Clients
  BY <1>1 DEF Shaped, Free
<1>3. \A q \in S, c \in Clients : lock[c] = q =>
        req[q].at \in PastLookUp \ {"looked"} /\ ~client[c].exists
  BY LockedParts DEF IInv, Holds
<1>4. \A r \in S : \E q \in S : q \in WaitsFor(r)
  BY DEF Stuck
<1>5. ASSUME NEW r \in S PROVE req[r].at \notin {"looked", "counted"}
  <2>1. req[r].at # "looked"
    BY <1>1 DEF Shaped
  <2>2. ASSUME req[r].at = "counted" PROVE FALSE
    <3>1. PICK q \in S : q = lock[ClientOf(r)] /\ q # r
      BY <1>4, <2>2, WhoWaits DEF Writing
    <3>2. ~client[ClientOf(r)].exists
      BY <1>2, <1>3, <2>2, <3>1
    <3>3. QED
      BY <1>1, <2>2, <3>1, <3>2 DEF HasProfile, PastLookUp
  <2>3. QED
    BY <2>1, <2>2
<1>6. ASSUME NEW r \in S PROVE ~Writing(r)
  <2>1. SUFFICES ASSUME Writing(r) PROVE FALSE
    OBVIOUS
  <2>2. PICK q \in S : q \in Ahead(r)
    BY <1>4, <2>1, WhoWaits DEF Writing
  <2>3. req[q].at = "written"
    BY <1>5, <2>2 DEF Ahead, Written
  <2>4. QED
    BY <1>4, <2>3, WhoWaits DEF Writing
<1>7. \A r \in S : req[r].at = "start"
  BY <1>4, <1>5, <1>6, WhoWaits
<1>8. \A r \in S : \E q \in S : q = lock[ClientOf(r)]
  BY <1>4, <1>6, <1>7, WhoWaits
<1>9. S # {}
  BY DEF Stuck
<1>10. \A r \in S : ClientOf(r) \in Clients
  BY <1>2, <1>7
<1>11. \A r \in S : \E q \in S : req[q].at \in PastLookUp
  BY <1>3, <1>8, <1>10
<1>12. QED
  BY <1>7, <1>9, <1>11 DEF PastLookUp

\* A new order is refused only after another request committed under it or the
\* day's numbers outgrew their width; requests wait in a circle only when one of
\* them changes contact data.
THEOREM FailuresAreCaused == Spec => []FailuresHaveCause
<1>1. IInv => FailuresHaveCause
  BY RefusalHasCause, CircleHasCause DEF FailuresHaveCause
<1>2. QED
  BY <1>1, InductiveInvariant, PTL

-----------------------------------------------------------------------------
(* Where orders are created only, the count is exact however creations and *)
(* conversions overlap, until midnight: those at work at one time hold     *)
(* the same reference, so that one of them commits.  A deletion that frees *)
(* a reference, or an edit, which takes none, are beyond this.             *)

CreationsOnly == Operations \cap {"update", "delete"} = {}

Creates(r) ==
  /\ req[r].op # "update"
  /\ ~Free(r) => req[r].row.open
  /\ Written(r) => req[r].order \notin Live

\* A reference is the next one, or another request was first.
Drawn(r) ==
  req[r].at \in {"referenced", "written", "counted"} =>
    /\ req[r].row.day = 0
    /\ req[r].row.seq \in SeqsOf(0) \/ req[r].row.seq = NextSeq(0)

\* A request may know of fewer orders than there are, and counts all.
Counts(r) ==
  /\ req[r].at \in PastLookUp => req[r].known <= client[ClientOf(r)].active
  /\ req[r].at = "counted" => req[r].count = CountOrders(r)

FirstDay == \A r \in Requests : Drawn(r) /\ Counts(r)

CreationInv ==
  /\ owed = {} /\ \A r \in Requests : Creates(r)
  /\ day = 0 => FirstDay /\ \A c \in Clients : Exact(c)

LEMMA DayEnds ==
  ASSUME TypeOK, [Next]_vars, day' = 0
  PROVE  day = 0
<1>1. day \in Nat
  BY NumbersAssumption DEF TypeOK, Days
<1>2. UNCHANGED day \/ Midnight
  <2>1. ASSUME NEW r \in Requests, Starts(r) PROVE UNCHANGED day
    BY <2>1, Started DEF Begun
  <2>2. ASSUME NEW r \in Requests, Statement(r) PROVE UNCHANGED day
    BY <2>2 DEF Statement, LookUpClient, SaveContact, TakeReference, WriteOrder, Count
  <2>3. ASSUME NEW r \in Requests, Rollback(r) \/ Commit(r) PROVE UNCHANGED day
    BY <2>3 DEF Rollback, Commit
  <2>4. ASSUME NEW r \in Requests, NEW o \in Orders, DeleteOrder(r, o) PROVE UNCHANGED day
    BY <2>4 DEF DeleteOrder
  <2>5. ASSUME NEW r \in Requests, NEW i \in Inquiries, NEW c \in Clients,
               SubmitInquiry(r, i, c)
        PROVE  UNCHANGED day
    BY <2>5 DEF SubmitInquiry
  <2>6. QED
    BY <2>1, <2>2, <2>3, <2>4, <2>5, Steps DEF vars
<1>3. QED
  BY <1>1, <1>2 DEF Midnight

\* One request at a time has written its order.
LEMMA OneWrites ==
  ASSUME Distinct, NEW q \in Requests, NEW r \in Requests, q # r, Written(q), Written(r),
         Creates(q), Creates(r), Drawn(q), Drawn(r)
  PROVE  FALSE
<1>1. ASSUME NEW p \in {q, r} PROVE req[p].row.day = 0 /\ req[p].row.seq = NextSeq(0)
  <2>1. p \in Requests /\ Written(p) /\ Creates(p) /\ Drawn(p)
    OBVIOUS
  <2>2. req[p].row.day = 0 /\ (req[p].row.seq \in SeqsOf(0) \/ req[p].row.seq = NextSeq(0))
    BY <2>1 DEF Drawn, Written
  <2>3. ASSUME NEW o \in Live, order[o].day = 0, order[o].seq = req[p].row.seq PROVE FALSE
    BY <2>1, <2>2, <2>3 DEF Distinct, Conflicts, Creates
  <2>4. QED
    BY <2>2, <2>3 DEF SeqsOf
<1>2. QED
  BY <1>1 DEF Distinct, Conflicts

\* A request that begins edits no order.
LEMMA BegunCreates ==
  ASSUME CreationsOnly, TypeOK, NEW r \in Requests, Starts(r)
  PROVE  Begun(r) /\ Creates(r)' /\ (day = 0 => Drawn(r)' /\ Counts(r)')
<1>1. CASE \E c \in Clients, e \in BOOLEAN : StartCreate(r, c, e)
  <2>1. PICK c \in Clients, e \in BOOLEAN : StartCreate(r, c, e)
    BY <1>1
  <2>2. Begun(r) /\ req'[r].op = "create" /\ req'[r].at = "start"
    BY <2>1, CreateStarted
  <2>3. req'[r] = NewRequest("create", "start", NoOrder, NewOrder("live", c, NoInquiry), e, 0)
    BY <2>1, Turned DEF StartCreate, Begin
  <2>4. req'[r].row.open
    BY <2>3 DEF NewRequest, NewOrder
  <2>5. QED
    BY <2>2, <2>4 DEF Creates, Drawn, Counts, Written, PastLookUp
<1>2. CASE \E i \in Inquiries : StartConvert(r, i)
  <2>1. PICK i \in Inquiries : StartConvert(r, i)
    BY <1>2
  <2>2. /\ Begun(r) /\ req'[r].op = "convert" /\ req'[r].at = "ready" /\ inquiry[i] \in Clients
        /\ req'[r].row.client = inquiry[i] /\ req'[r].known = client[inquiry[i]].active
    BY <2>1, ConvertStarted DEF Begun
  <2>3. req'[r] = NewRequest("convert", "ready", NoOrder, NewOrder("live", inquiry[i], i), FALSE,
                             client[inquiry[i]].active)
    BY <2>1, Turned DEF StartConvert, Begin
  <2>4. req'[r].row.open
    BY <2>3 DEF NewRequest, NewOrder
  <2>5. client' = client /\ client[inquiry[i]].active \in Nat
    BY <2>2 DEF Begun, TypeOK, Client
  <2>6. QED
    BY <2>2, <2>4, <2>5 DEF Creates, Drawn, Counts, Written, ClientOf
<1>3. CASE \E o \in Orders, c \in Clients, i \in Inquiries \cup {NoInquiry}, open, e \in BOOLEAN :
             StartUpdate(r, o, c, i, open, e)
  BY <1>3 DEF StartUpdate, Begin, CreationsOnly
<1>4. QED
  BY <1>1, <1>2, <1>3 DEF Starts

\* Nothing changes for a request while no order or client does.
LEMMA CreatesKept ==
  ASSUME NEW q \in Requests, req'[q] = req[q], order' = order
  PROVE  /\ Creates(q) => Creates(q)'
         /\ Drawn(q) => Drawn(q)'
         /\ (Counts(q) /\ client'[ClientOf(q)].active = client[ClientOf(q)].active) => Counts(q)'
<1>1. SeqsOf(0)' = SeqsOf(0) /\ NextSeq(0)' = NextSeq(0)
  BY DEF SeqsOf, Live, NextSeq, Latest
<1>2. CountOrders(q)' = CountOrders(q)
  BY CountKept
<1>3. QED
  BY <1>1, <1>2 DEF Creates, Free, Written, Live, Drawn, Counts, ClientOf

LEMMA StatedCreates ==
  ASSUME TypeOK, NEW r \in Requests, Shaped(r), Creates(r), Statement(r),
         \A c \in Clients : ~client[c].exists => client[c].active = 0
  PROVE  Creates(r)' /\ (day = 0 /\ Drawn(r) /\ Counts(r) => Drawn(r)' /\ Counts(r)')
<1>1. /\ Serves(r) /\ UNCHANGED <<day, client, order>> /\ ClientOf(r)' = ClientOf(r)
      /\ req'[r].op = req[r].op /\ req'[r].row.open = req[r].row.open
      /\ Live' = Live
  BY Stated DEF Serves, ClientOf, Live
<1>2. SeqsOf(0)' = SeqsOf(0) /\ NextSeq(0)' = NextSeq(0)
  BY <1>1 DEF SeqsOf, NextSeq, Latest
<1>3. ~Free(r)
  BY DEF Statement, LookUpClient, SaveContact, TakeReference, WriteOrder, Writing, Count, Free
<1>4. CASE LookUpClient(r)
  <2>1. ClientOf(r) \in Clients /\ client[ClientOf(r)].active \in Nat
    BY <1>4 DEF LookUpClient, Shaped, Free, TypeOK, Client
  <2>2. req'[r].known = client[ClientOf(r)].active /\ req'[r].at \in {"looked", "ready"}
    BY <1>4, <2>1, LookedUp
  <2>3. QED
    BY <1>1, <1>3, <2>1, <2>2 DEF Creates, Drawn, Counts, Written
<1>5. CASE SaveContact(r)
  <2>1. req[r].at = "looked" /\ req'[r].at = "ready" /\ req'[r].known = req[r].known
    BY <1>5, ContactSaved
  <2>2. QED
    BY <1>1, <1>3, <2>1 DEF Creates, Drawn, Counts, Written, PastLookUp
<1>6. CASE TakeReference(r)
  <2>1. /\ req[r].at = "ready" /\ req'[r].at = "referenced" /\ req'[r].known = req[r].known
        /\ req'[r].row.day = day /\ req'[r].row.seq = NextSeq(day)
    BY <1>6, ReferenceTaken
  <2>2. QED
    BY <1>1, <1>2, <1>3, <2>1 DEF Creates, Drawn, Counts, Written, PastLookUp
<1>7. CASE WriteOrder(r)
  <2>1. /\ Writing(r) /\ req'[r].at = "written" /\ req'[r].known = req[r].known
        /\ req'[r].row = req[r].row /\ req'[r].order \in Fresh
    BY <1>7, OrderWritten DEF Creates
  <2>2. req[r].at = "referenced"
    BY <2>1 DEF Writing, Creates
  <2>3. req'[r].order \notin Live
    BY <2>1 DEF Fresh, Live
  <2>4. QED
    BY <1>1, <1>2, <1>3, <2>1, <2>2, <2>3 DEF Creates, Drawn, Counts, PastLookUp
<1>8. CASE Count(r)
  <2>1. /\ req[r].at = "written" /\ req'[r].at = "counted" /\ req'[r].known = req[r].known
        /\ req'[r].count = CountOrders(r)
        /\ req'[r].row = req[r].row /\ req'[r].order = req[r].order
    BY <1>8, OrdersCounted
  <2>2. req'[r].count = CountOrders(r)'
    BY <1>1, <2>1, CountKept
  <2>3. QED
    BY <1>1, <1>2, <1>3, <2>1, <2>2 DEF Creates, Drawn, Counts, Written, PastLookUp
<1>9. QED
  BY <1>4, <1>5, <1>6, <1>7, <1>8 DEF Statement

LEMMA CommitCreates ==
  ASSUME IInv, CreationInv, NEW r \in Requests, Commit(r)
  PROVE  CreationInv'
<1>0. PICK C \in Clients : C = ClientOf(r)
  BY Committed DEF IInv, AllShaped
<1> DEFINE o == req[r].order
           row == req[r].row
<1>1. /\ req'[r] = Idle /\ req[r].at = "counted" /\ \A q \in Requests \ {r} : Overtakes(q)
      /\ o \in Orders /\ order'[o] = row
      /\ \A p \in Orders \ {o} : order'[p] = order[p]
      /\ client'[C].active = (IF Changed(r) THEN req[r].count ELSE client[C].active)
      /\ \A c \in Clients \ {C} : client'[c] = client[c]
      /\ day' = day
  BY <1>0, Committed DEF IInv, AllShaped
<1>2. Creates(r) /\ Shaped(r) /\ Written(r) /\ ~Free(r)
  BY <1>1 DEF CreationInv, IInv, AllShaped, Written, Free
<1>3. row.state = "live" /\ row.client = C /\ row.open /\ o \notin Live
  BY <1>0, <1>2 DEF Creates, Shaped, ClientOf
<1>4. Live' = Live \cup {o}
  BY <1>1, <1>3 DEF Live
<1>5. owed' = {}
  <2>1. owed' \subseteq owed
    BY <1>0, <1>3 DEF Commit, OpenOrders
  <2>2. QED
    BY <2>1 DEF CreationInv
<1>6. ASSUME NEW q \in Requests PROVE Creates(q)'
  <2>1. CASE q = r
    BY <1>1, <2>1, IdleFields DEF Creates, Free, Written
  <2>2. CASE q # r
    <3>1. Overtakes(q) /\ Creates(q)
      BY <1>1, <2>2 DEF CreationInv
    <3>2. Written(q) => req[q].order # o
      BY <1>2, <2>2 DEF IInv, Distinct
    <3>3. QED
      BY <1>4, <3>1, <3>2 DEF Creates, Overtakes, Free, Written
  <2>3. QED
    BY <2>1, <2>2
<1>7. ASSUME day = 0 PROVE FirstDay' /\ \A c \in Clients : Exact(c)'
  <2>1. FirstDay /\ Exact(C) /\ Drawn(r) /\ Counts(r)
    BY <1>1, <1>7 DEF CreationInv, FirstDay
  <2>2. ASSUME NEW q \in Requests \ {r} PROVE ~Written(q)
    BY <1>2, <2>1, OneWrites DEF FirstDay, CreationInv, IInv
  <2>3. row.day = 0 /\ row.seq = NextSeq(0) /\ NextSeq(0) \in SeqsOf(0)'
    <3>1. row.day = 0 /\ (row.seq \in SeqsOf(0) \/ row.seq = NextSeq(0))
      BY <1>1, <2>1 DEF Drawn
    <3>2. ASSUME NEW p \in Live, order[p].day = 0, order[p].seq = row.seq PROVE FALSE
      BY <1>2, <1>3, <3>1, <3>2 DEF IInv, Distinct, Conflicts
    <3>3. row.seq = NextSeq(0)
      BY <3>1, <3>2 DEF SeqsOf
    <3>4. row.seq \in SeqsOf(0)'
      BY <1>1, <1>4, <3>1 DEF SeqsOf
    <3>5. QED
      BY <3>1, <3>3, <3>4
  <2>4. SeqsOf(0) \subseteq SeqsOf(0)'
    <3>1. \A p \in Live : p \in Live' /\ order'[p] = order[p]
      BY <1>1, <1>3, <1>4 DEF Live
    <3>2. QED
      BY <3>1 DEF SeqsOf
  <2>5. ASSUME NEW q \in Requests PROVE Drawn(q)'
    <3>1. CASE q = r
      BY <1>1, <3>1, IdleFields DEF Drawn
    <3>2. CASE q # r
      <4>1. Overtakes(q) /\ Drawn(q)
        BY <1>1, <2>1, <3>2 DEF FirstDay
      <4>2. QED
        BY <2>3, <2>4, <4>1 DEF Drawn, Overtakes
    <3>3. QED
      BY <3>1, <3>2
  <2>6. /\ IsFiniteSet(OpenOrders(C)) /\ Cardinality(OpenOrders(C)) \in Nat
        /\ o \notin OpenOrders(C)
    BY <1>3, OpenOrdersFinite, FS_CardinalityType DEF OpenOrders
  <2>7. CountOrders(r) = Cardinality(OpenOrders(C)) + 1
    <3>1. OpenOrders(C) \ {o} = OpenOrders(C)
      BY <2>6
    <3>2. QED
      BY <1>0, <1>3, <3>1 DEF CountOrders
  <2>8. /\ client[C].active = Cardinality(OpenOrders(C))
        /\ req[r].count = Cardinality(OpenOrders(C)) + 1
        /\ req[r].known <= client[C].active /\ req[r].known \in Nat
    <3>1. req[r].known \in Nat
      BY DEF IInv, TypeOK, Request
    <3>2. QED
      BY <1>0, <1>1, <2>1, <2>7, <3>1 DEF Exact, Counts, PastLookUp
  <2>9. client'[C].active = client[C].active + 1
    BY <1>1, <2>6, <2>8 DEF Changed
  <2>10. \A c \in Clients : client[c].active \in Nat /\ client[c].active <= client'[c].active
    BY <1>1, <2>9 DEF IInv, TypeOK, Client
  <2>11. ASSUME NEW q \in Requests PROVE Counts(q)'
    <3>1. CASE q = r
      BY <1>1, <3>1, IdleFields DEF Counts, PastLookUp
    <3>2. CASE q # r
      <4>1. Overtakes(q) /\ Counts(q) /\ ~Written(q) /\ Shaped(q)
        BY <1>1, <2>1, <2>2, <3>2 DEF FirstDay, IInv, AllShaped
      <4>2. ~Free(q) => ClientOf(q) \in Clients
        BY <4>1 DEF Shaped
      <4>3. ClientOf(q)' = ClientOf(q) /\ req'[q].at = req[q].at /\ req'[q].known = req[q].known
        BY <4>1 DEF Overtakes, ClientOf
      <4>4. req[q].known \in Nat
        BY DEF IInv, TypeOK, Request
      <4>5. ASSUME req[q].at \in PastLookUp PROVE req[q].known <= client'[ClientOf(q)].active
        <5>1. ClientOf(q) \in Clients /\ req[q].known <= client[ClientOf(q)].active
          BY <4>1, <4>2, <4>5 DEF Counts, Free, PastLookUp
        <5>2. client[ClientOf(q)].active \in Nat /\ client'[ClientOf(q)].active \in Nat
          BY <1>1, <2>9, <5>1 DEF IInv, TypeOK, Client
        <5>3. QED
          BY <2>10, <4>4, <5>1, <5>2
      <4>6. QED
        BY <4>1, <4>3, <4>5 DEF Counts, Written
    <3>3. QED
      BY <3>1, <3>2
  <2>12. ASSUME NEW c \in Clients PROVE Exact(c)'
    <3>1. CASE c = C
      <4>1. OpenOrders(C)' = OpenOrders(C) \cup {o}
        BY <1>1, <1>3, <1>4 DEF OpenOrders, Live
      <4>2. Cardinality(OpenOrders(C) \cup {o}) = Cardinality(OpenOrders(C)) + 1
        BY <2>6, FS_AddElement
      <4>3. QED
        BY <2>8, <2>9, <3>1, <4>1, <4>2 DEF Exact
    <3>2. CASE c # C
      <4>1. OpenOrders(c)' = OpenOrders(c)
        BY <1>1, <1>3, <1>4, <3>2 DEF OpenOrders, Live
      <4>2. Exact(c) /\ client'[c] = client[c]
        BY <1>1, <1>7, <3>2 DEF CreationInv
      <4>3. QED
        BY <4>1, <4>2 DEF Exact
    <3>3. QED
      BY <3>1, <3>2
  <2>13. QED
    BY <2>5, <2>11, <2>12 DEF FirstDay
<1>8. QED
  BY <1>1, <1>5, <1>6, <1>7 DEF CreationInv

LEMMA ExactKept ==
  ASSUME NEW c, order' = order, client'[c].active = client[c].active, Exact(c)
  PROVE  Exact(c)'
<1>1. OpenOrders(c)' = OpenOrders(c)
  BY DEF OpenOrders, Live
<1>2. QED
  BY <1>1 DEF Exact

LEMMA CreationStep ==
  ASSUME CreationsOnly, IInv, CreationInv, [Next]_vars
  PROVE  CreationInv'
<1>0. TypeOK /\ (\A q \in Requests : Shaped(q) /\ Creates(q)) /\ (day' = 0 => day = 0)
  BY DayEnds DEF IInv, AllShaped, CreationInv
<1>1. ASSUME NEW r \in Requests, Starts(r) PROVE CreationInv'
  <2>1. Begun(r) /\ Creates(r)' /\ (day = 0 => Drawn(r)' /\ Counts(r)')
    BY <1>0, <1>1, BegunCreates
  <2>2. UNCHANGED <<day, order, client, owed>> /\ \A q \in Requests \ {r} : req'[q] = req[q]
    BY <2>1 DEF Begun
  <2>3. QED
    BY <2>1, <2>2, CreatesKept, ExactKept DEF CreationInv, FirstDay
<1>2. ASSUME NEW r \in Requests, Statement(r) PROVE CreationInv'
  <2>1. UNCHANGED <<day, order, client, owed>> /\ \A q \in Requests \ {r} : req'[q] = req[q]
    BY <1>0, <1>2, Stated DEF Serves
  <2>2. Creates(r)' /\ (day = 0 /\ Drawn(r) /\ Counts(r) => Drawn(r)' /\ Counts(r)')
    BY <1>0, <1>2, StatedCreates DEF IInv, Settled
  <2>3. QED
    BY <2>1, <2>2, CreatesKept, ExactKept DEF CreationInv, FirstDay
<1>3. ASSUME NEW r \in Requests, Rollback(r) PROVE CreationInv'
  <2>1. /\ UNCHANGED <<day, order, client, owed>> /\ req'[r] = Idle
        /\ \A q \in Requests \ {r} : req'[q] = req[q]
    BY <1>0, <1>3, RolledBack
  <2>2. Creates(r)' /\ Drawn(r)' /\ Counts(r)'
    BY <2>1, IdleFields DEF Creates, Free, Written, Drawn, Counts, PastLookUp
  <2>3. QED
    BY <2>1, <2>2, CreatesKept, ExactKept DEF CreationInv, FirstDay
<1>4. ASSUME NEW r \in Requests, Commit(r) PROVE CreationInv'
  BY <1>4, CommitCreates
<1>5. ASSUME NEW r \in Requests, NEW o \in Orders, DeleteOrder(r, o) PROVE CreationInv'
  BY <1>5 DEF DeleteOrder, CreationsOnly
<1>6. ASSUME NEW r \in Requests, NEW i \in Inquiries, NEW c \in Clients, SubmitInquiry(r, i, c)
      PROVE  CreationInv'
  <2>1. /\ UNCHANGED <<day, order, req, owed>>
        /\ \A d \in Clients : client'[d].active = client[d].active
    BY <1>0, <1>6, SubmittedBy
  <2>2. \A q \in Requests : ClientOf(q) \in Clients \/ Free(q)
    BY <1>0 DEF Shaped
  <2>3. \A q \in Requests : Free(q) => Counts(q)'
    BY <2>1 DEF Free, Counts, PastLookUp
  <2>4. QED
    BY <2>1, <2>2, <2>3, CreatesKept, ExactKept DEF CreationInv, FirstDay
<1>7. CASE UNCHANGED <<order, req, client, owed>>
  BY <1>0, <1>7, CreatesKept, ExactKept DEF CreationInv, FirstDay
<1>8. QED
  BY <1>1, <1>2, <1>3, <1>4, <1>5, <1>6, <1>7, Steps DEF Midnight, vars

LEMMA CreationInit == Init => CreationInv
<1> SUFFICES ASSUME Init PROVE CreationInv
  OBVIOUS
<1>1. NoRow("unused").state = "unused"
  BY DEF NoRow, NewOrder
<1>2. Live = {} /\ owed = {} /\ \A r \in Requests : req[r] = Idle
  BY <1>1 DEF Init, Live
<1>3. \A r \in Requests : Creates(r) /\ Drawn(r) /\ Counts(r)
  BY <1>2, IdleFields DEF Creates, Drawn, Counts, Free, Written, PastLookUp
<1>4. \A c \in Clients : Exact(c)
  <2>1. \A c : OpenOrders(c) = {}
    BY <1>2 DEF OpenOrders
  <2>2. QED
    BY <2>1, FS_EmptySet DEF Init, Exact
<1>5. QED
  BY <1>2, <1>3, <1>4 DEF CreationInv, FirstDay

\* Where orders are neither edited nor deleted, active_projects is the number of
\* the client's active orders throughout the first day, however many requests
\* that create and convert overlap and whatever they know of the client.
THEOREM CountsAreCurrent ==
  ASSUME CreationsOnly
  PROVE  Spec => []MetricsCurrent
<1>1. Init => CreationInv
  BY CreationInit
<1>2. IInv /\ CreationInv /\ [Next]_vars => CreationInv'
  BY CreationStep
<1>3. CreationInv => MetricsCurrent
  BY DEF CreationInv, MetricsCurrent, Exact
<1>4. QED
  BY <1>1, <1>2, <1>3, InductiveInvariant, PTL DEF Spec
=============================================================================
