---------------------------- MODULE ClientRecords -----------------------------
(***************************************************************************)
(* A client's records: the ClientProfile, an inquiry with its items, and   *)
(* the order it is converted to.  Editing an inquiry or a client runs in   *)
(* autocommit, statement by statement; a conversion is one transaction     *)
(* that reads the items twice; every full save writes the row as it was    *)
(* read.  How orders are numbered and locked is OrderIntake's subject.     *)
(***************************************************************************)
EXTENDS Naturals, FiniteSets

CONSTANTS
    Workers,     \* processes serving requests
    Counts,      \* what an admin may give for active_projects
    MaxRequests  \* bound: requests begun in a behaviour

ASSUME RequestsAssumption == MaxRequests \in Nat
ASSUME CountsAssumption == Counts \subseteq Nat

VARIABLES
    client,      \* the ClientProfile row; id = 0: there is none
    inquiry,     \* the Inquiry row
    items,       \* its InquiryItem rows
    order,       \* the Order row
    orderItems,  \* its OrderItem rows
    threads,     \* the clients named by threads of conversions
    desk,        \* what each worker is doing
    begun,       \* requests begun so far; 1 before the first
    \* history, read by no action
    halved,      \* a request stopped between two items of the inquiry, or two
                 \* wrote its items, or one deleted it, at the same time
    torn,        \* orders converted while the inquiry's items were written
    stale,       \* rows saved, or not, by a request that had read an older version
    reopened,    \* the inquiry was given another status on purpose
    lastReply,   \* the last reply given to the inquiry
    recorded,    \* whether the order is open, by its last activity
    slipped,     \* clients deleted after a record of theirs was written unseen
    owed         \* a synchronisation is owed: since the last one an order was
                 \* deleted, or an admin gave active_projects

rowVars == <<client, inquiry, items, order, orderItems, threads>>
factVars == <<halved, torn, stale, reopened, lastReply, recorded, slipped, owed>>
recordVars == <<rowVars, desk, begun, factVars>>

\* A row is numbered by the request that inserts it, and 1 if it was there; an
\* item by the request that wrote it and its place; a total by what it sums.
Last == MaxRequests + 1
TwoItems(k) == {<<k, 1>>, <<k, 2>>}
Given(k) == {<<k, "given">>}

NoClient == [id |-> 0, active |-> FALSE, projects |-> 0]
NoInquiry == [id |-> 0, client |-> 0, status |-> "new", reply |-> 0]
NoOrder == [id |-> 0, client |-> 0, inquiry |-> 0, open |-> FALSE, total |-> {}]

NewClient(k) == [id |-> k, active |-> TRUE, projects |-> 0]
NewInquiry(k, c) == [NoInquiry EXCEPT !.id = k, !.client = c]

\* of: the kind of row held in memory; newer: it was changed since it was read;
\* jumbled: items of the inquiry were written meanwhile.
Seated == [at |-> "idle", k |-> 0, of |-> "none", row |-> NoInquiry, seen |-> NoClient,
           total |-> {}, items |-> {}, flag |-> FALSE, newer |-> FALSE, jumbled |-> FALSE]

Begins(w) == desk[w].at = "idle" /\ begun <= MaxRequests /\ begun' = begun + 1
Goes(w, label) == [desk[w] EXCEPT !.at = label]

\* w turns to `next` having changed the `rows`; the others' copies are older now.
Writes(w, next, rows) ==
    desk' = [v \in Workers |->
       IF v = w THEN next
       ELSE [desk[v] EXCEPT !.newer = @ \/ desk[v].of \in rows,
                            !.jumbled = @ \/ (desk[v].at \in {"convert", "copy"} /\ "items" \in rows)]]
Reads(w, next) == desk' = [desk EXCEPT ![w] = next]

\* A profile inserted by a transaction that is not over: others wait for it.
Coming == \E w \in Workers : desk[w].at \in {"copy", "commit"} /\ desk[w].seen.id = desk[w].k

-----------------------------------------------------------------------------
(* Inquiries. *)

\* upsert_client_profile, of the one e-mail address there is.
Upserted(k) == IF client.id = 0 THEN NewClient(k) ELSE client

\* POST.  Bound: one inquiry at a time.
SubmitInquiry(w) ==
    /\ Begins(w) /\ ~Coming
    /\ inquiry.id = 0 /\ \A v \in Workers : desk[v].of # "inquiry"
    /\ client' = Upserted(begun')
    /\ \E rows \in {{}, TwoItems(begun')} :
         Writes(w, [Seated EXCEPT !.at = "saveInquiry", !.k = begun', !.of = "inquiry",
                                  !.row = NewInquiry(begun', client'.id), !.items = rows],
                IF client.id = 0 THEN {"client"} ELSE {})
    /\ UNCHANGED <<inquiry, items, order, orderItems, threads, factVars>>

\* PATCH: a message or items have to be given, status and reply may be; flag:
\* the items are.  The row as read, with the client just looked up, is saved.
PatchInquiry(w) ==
    /\ Begins(w) /\ ~Coming /\ inquiry.id # 0
    /\ client' = Upserted(begun')
    /\ \E status \in {"new", "reviewed", "resolved"}, reply \in {inquiry.reply, begun'}, f \in BOOLEAN :
         /\ Writes(w, [Seated EXCEPT !.at = "saveInquiry", !.k = begun', !.of = "inquiry",
                         !.row = [inquiry EXCEPT !.client = client'.id, !.status = status, !.reply = reply],
                         !.items = IF f THEN TwoItems(begun') ELSE {}, !.flag = f],
                   IF client.id = 0 THEN {"client"} ELSE {})
         /\ reopened' = (reopened \/ status \notin {inquiry.status, "resolved"})
    /\ UNCHANGED <<inquiry, items, order, orderItems, threads,
                   halved, torn, stale, lastReply, recorded, slipped, owed>>

\* The save fails if the client was deleted meanwhile; a deleted inquiry is
\* inserted again, without items.
SaveInquiry(w) ==
    LET d == desk[w] IN
    /\ d.at = "saveInquiry"
    /\ IF d.row.client # client.id
       THEN Reads(w, Seated) /\ UNCHANGED <<inquiry, stale, lastReply>>
       ELSE /\ inquiry' = d.row
            /\ Writes(w, IF d.flag THEN Goes(w, "clear")
                         ELSE IF d.items # {} THEN Goes(w, "item") ELSE Seated,
                      {"inquiry", "records"})
            /\ stale' = IF d.newer THEN stale \cup {"inquiry"} ELSE stale
            /\ lastReply' = IF d.row.reply = d.k \/ inquiry.id = 0 THEN d.row.reply ELSE lastReply
    /\ UNCHANGED <<client, items, order, orderItems, threads, begun,
                   halved, torn, reopened, recorded, slipped, owed>>

OthersWrite(w) == \E v \in Workers \ {w} : desk[v].at = "item"

ClearItems(w) ==
    /\ desk[w].at = "clear"
    /\ items' = {} /\ Writes(w, Goes(w, "item"), {"items"})
    /\ halved' = (halved \/ OthersWrite(w))
    /\ UNCHANGED <<client, inquiry, order, orderItems, threads, begun,
                   torn, stale, reopened, lastReply, recorded, slipped, owed>>

\* One statement per item; it fails if the inquiry was deleted meanwhile.
InsertItem(w) ==
    LET d == desk[w]
        item == IF <<d.k, 1>> \in d.items THEN <<d.k, 1>> ELSE <<d.k, 2>>
    IN  /\ d.at = "item"
        /\ IF inquiry.id # d.row.id THEN Reads(w, Seated) /\ UNCHANGED items
           ELSE /\ items' = items \cup {item}
                /\ Writes(w, IF d.items = {item} THEN Seated
                             ELSE [d EXCEPT !.items = @ \ {item}], {"items"})
        /\ UNCHANGED <<client, inquiry, order, orderItems, threads, begun, factVars>>

\* The request dies before its last item.
StopsHalfway(w) ==
    /\ desk[w].at = "item"
    /\ halved' = TRUE /\ Reads(w, Seated)
    /\ UNCHANGED <<rowVars, begun, torn, stale, reopened, lastReply, recorded, slipped, owed>>

DeleteInquiry(w) ==
    /\ Begins(w) /\ inquiry.id # 0
    /\ inquiry' = NoInquiry /\ items' = {}
    /\ order' = [order EXCEPT !.inquiry = 0]
    /\ Writes(w, Seated, {"inquiry", "items", "order"})
    /\ halved' = (halved \/ OthersWrite(w))
    /\ UNCHANGED <<client, orderItems, threads,
                   torn, stale, reopened, lastReply, recorded, slipped, owed>>

-----------------------------------------------------------------------------
(* convert_inquiry_to_order. *)

Ordered(i) == order.id # 0 /\ order.inquiry = i

\* The view reads the inquiry before the transaction; flag: with admin notes.
\* Bound: one order at a time.
StartConvert(w) ==
    /\ Begins(w) /\ inquiry.id # 0 /\ (order.id # 0 => Ordered(inquiry.id))
    /\ \E f \in BOOLEAN :
         Reads(w, [Seated EXCEPT !.at = "convert", !.k = begun', !.of = "inquiry",
                     !.row = inquiry, !.flag = f,
                     !.jumbled = halved \/ \E v \in Workers : desk[v].at = "item"])
    /\ UNCHANGED <<rowVars, factVars>>

\* An order that is there is returned; inquiry.client raises if the profile is
\* deleted; estimated_total sums the items of this moment.
PriceOrder(w) ==
    LET d == desk[w]
        found == IF d.row.client = 0 THEN Upserted(d.k) ELSE client
    IN  /\ d.at = "convert" /\ ~Coming
        /\ Reads(w, IF Ordered(d.row.id) \/ d.row.client \notin {0, client.id} THEN Seated
                    ELSE [d EXCEPT !.at = "copy", !.seen = found, !.total = items])
        /\ UNCHANGED <<rowVars, begun, factVars>>

\* The items to copy are read by a later statement.
CopyItems(w) ==
    /\ desk[w].at = "copy"
    /\ Reads(w, [Goes(w, "commit") EXCEPT !.items = items])
    /\ UNCHANGED <<rowVars, begun, factVars>>


\* inquiry.save(update_fields=["client", "status", "admin_reply"]).
Resolved(d) ==
    [inquiry EXCEPT !.client = d.seen.id, !.status = "resolved",
                    !.reply = IF d.flag /\ d.row.reply = 0 THEN d.k ELSE d.row.reply]

Synchronised(seen, count) ==
    [client EXCEPT !.projects = IF seen.projects # count THEN count ELSE @]

\* Refused if the inquiry or the client is gone, or another order has come.
ConvertCommits(w) ==
    LET d == desk[w]
        new == d.seen.id = d.k
        refused == inquiry.id # d.row.id \/ order.id # 0 \/ (~new /\ client.id # d.seen.id)
    IN  /\ d.at = "commit"
        /\ IF refused
           THEN /\ Reads(w, Seated)
                /\ UNCHANGED <<rowVars, torn, stale, reopened, lastReply, recorded, owed>>
           ELSE /\ order' = [id |-> d.k, client |-> d.seen.id, inquiry |-> d.row.id,
                             open |-> TRUE, total |-> d.total]
                /\ orderItems' = d.items
                /\ inquiry' = Resolved(d)
                /\ threads' = threads \cup {d.seen.id}
                /\ client' = IF new THEN [d.seen EXCEPT !.projects = 1] ELSE Synchronised(d.seen, 1)
                /\ Writes(w, Seated, {"inquiry", "records", "client", "order"})
                /\ torn' = IF d.jumbled THEN torn \cup {d.k} ELSE torn
                /\ stale' = (stale \ {"order"}) \cup (IF d.newer THEN {"inquiry"} ELSE {})
                              \cup (IF ~new /\ d.seen.projects # client.projects THEN {"client"} ELSE {})
                /\ reopened' = FALSE /\ recorded' = TRUE /\ owed' = FALSE
                /\ lastReply' = IF d.flag /\ d.row.reply = 0 THEN d.k ELSE lastReply
        /\ UNCHANGED <<items, begun, halved, slipped>>

-----------------------------------------------------------------------------
(* Orders. *)

(* Mutant of Totalled: new items leave the total as it was read. *)
Mut_Totalled_Kept(d) == IF d.total # {} THEN d.total ELSE d.row.total

\* The total given, or that of the items given, or as it was read.
Totalled(d) ==
    IF d.total # {} THEN d.total ELSE IF d.items # {} THEN d.items ELSE d.row.total

\* PATCH reads the order; flag: it closes or opens it.
PatchOrder(w) ==
    /\ Begins(w) /\ order.id # 0
    /\ \E f \in BOOLEAN, rows \in {{}, TwoItems(begun')}, total \in {{}, Given(begun')} :
         Reads(w, [Seated EXCEPT !.at = "saveOrder", !.k = begun', !.of = "order",
                     !.row = [order EXCEPT !.open = IF f THEN ~@ ELSE @],
                     !.items = rows, !.total = total, !.flag = f])
    /\ UNCHANGED <<rowVars, factVars>>

\* The transaction; refused if the inquiry is gone or another order has come.
\* A deleted order is inserted again, without the items it had.
SaveOrder(w) ==
    LET d == desk[w]
        owner == Upserted(d.k)
        refused == d.row.inquiry \notin {0, inquiry.id} \/ order.id \notin {0, d.row.id}
    IN  /\ d.at = "saveOrder" /\ ~Coming
        /\ IF refused
           THEN Reads(w, Seated) /\ UNCHANGED <<order, orderItems, client, stale, recorded, owed>>
           ELSE /\ order' = [d.row EXCEPT !.client = owner.id, !.total = Totalled(d)]
                /\ orderItems' = IF d.items # {} THEN d.items ELSE orderItems
                /\ client' = [owner EXCEPT !.projects = IF d.row.open THEN 1 ELSE 0]
                /\ Writes(w, Seated, {"order", "records", "client"})
                /\ stale' = IF d.newer THEN stale \cup {"order"} ELSE stale
                /\ recorded' = IF d.flag THEN d.row.open ELSE recorded
                /\ owed' = FALSE
        /\ UNCHANGED <<inquiry, items, threads, begun, halved, torn, reopened, lastReply, slipped>>

DeleteOrder(w) ==
    /\ Begins(w) /\ order.id # 0
    /\ order' = NoOrder /\ orderItems' = {}
    /\ Writes(w, Seated, {"order"})
    /\ owed' = TRUE
    /\ UNCHANGED <<client, inquiry, items, threads,
                   halved, torn, stale, reopened, lastReply, recorded, slipped>>

-----------------------------------------------------------------------------
(* Clients. *)

\* POST and PATCH take active_projects from the payload, if it gives one.
AddClient(w) ==
    /\ Begins(w) /\ client.id = 0 /\ ~Coming
    /\ \E n \in Counts \cup {0} :
         /\ client' = [NewClient(begun') EXCEPT !.projects = n]
         /\ owed' = (n # 0)
    /\ Writes(w, Seated, {"client"})
    /\ UNCHANGED <<inquiry, items, order, orderItems, threads,
                   halved, torn, stale, reopened, lastReply, recorded, slipped>>

\* flag: the payload gives the count.
PatchClient(w) ==
    /\ Begins(w) /\ client.id # 0
    /\ \E f, given \in BOOLEAN, n \in Counts \cup {0} :
         Reads(w, [Seated EXCEPT !.at = "saveClient", !.k = begun', !.of = "client", !.flag = given,
                     !.seen = [client EXCEPT !.active = f, !.projects = IF given THEN n ELSE @]])
    /\ UNCHANGED <<rowVars, factVars>>

\* Every field is saved, active_projects too; a deleted profile is inserted
\* again, unless its e-mail is taken.
SaveClient(w) ==
    LET d == desk[w]
        refused == client.id \notin {0, d.seen.id}
    IN  /\ d.at = "saveClient" /\ ~Coming
        /\ client' = IF refused THEN client ELSE d.seen
        /\ Writes(w, Seated, IF refused THEN {} ELSE {"client"})
        /\ stale' = IF d.newer /\ ~refused THEN stale \cup {"client"} ELSE stale
        /\ owed' = (owed \/ (d.flag /\ ~refused))
        /\ UNCHANGED <<inquiry, items, order, orderItems, threads, begun,
                       halved, torn, reopened, lastReply, recorded, slipped>>

\* DELETE: client_has_business_records asks for orders first, flag: there are.
DeleteClient(w) ==
    /\ Begins(w) /\ client.id # 0
    /\ Reads(w, [Seated EXCEPT !.at = "check", !.k = begun', !.of = "records", !.seen = client,
                               !.flag = order.client = client.id])
    /\ UNCHANGED <<rowVars, factVars>>

(* Mutant of HasRecords: only orders count. *)
Mut_HasRecords_Orders(d) == d.flag

\* Then for inquiries and threads (and tickets, which nobody opens here).
HasRecords(d) == d.flag \/ inquiry.client = d.seen.id \/ d.seen.id \in threads

CheckRecords(w) ==
    /\ desk[w].at = "check"
    /\ Reads(w, Goes(w, IF HasRecords(desk[w]) THEN "deactivate" ELSE "delete"))
    /\ UNCHANGED <<rowVars, begun, factVars>>

\* An error if the profile is gone.
Deactivate(w) ==
    LET there == client.id = desk[w].seen.id IN
    /\ desk[w].at = "deactivate"
    /\ client' = IF there THEN [client EXCEPT !.active = FALSE] ELSE client
    /\ Writes(w, Seated, IF there THEN {"client"} ELSE {})
    /\ UNCHANGED <<inquiry, items, order, orderItems, threads, begun, factVars>>

\* The records' references to the profile are set to null.
EraseClient(w) ==
    LET d == desk[w]
        Without(row) == IF row.client = d.seen.id THEN [row EXCEPT !.client = 0] ELSE row
    IN  /\ d.at = "delete"
        /\ client' = IF client.id = d.seen.id THEN NoClient ELSE client
        /\ inquiry' = Without(inquiry) /\ order' = Without(order)
        /\ threads' = threads \ {d.seen.id}
        /\ Writes(w, Seated, {"client", "inquiry", "order"})
        /\ slipped' = IF d.newer THEN slipped \cup {d.seen.id} ELSE slipped
        /\ UNCHANGED <<items, orderItems, begun, halved, torn, stale, reopened, lastReply, recorded, owed>>

-----------------------------------------------------------------------------
\* There is nothing, or a client, with an inquiry or not, converted or not.
RecordsInit ==
    /\ \E n \in 0..3 :
         /\ client = IF n = 0 THEN NoClient ELSE [NewClient(1) EXCEPT !.projects = IF n = 3 THEN 1 ELSE 0]
         /\ inquiry = CASE n < 2 -> NoInquiry
                        [] n = 2 -> NewInquiry(1, 1)
                        [] n = 3 -> [NewInquiry(1, 1) EXCEPT !.status = "resolved"]
         /\ items = IF n < 2 THEN {} ELSE TwoItems(1)
         /\ order = IF n < 3 THEN NoOrder
                    ELSE [id |-> 1, client |-> 1, inquiry |-> 1, open |-> TRUE, total |-> TwoItems(1)]
         /\ orderItems = IF n < 3 THEN {} ELSE TwoItems(1)
         /\ threads = IF n < 3 THEN {} ELSE {1}
    /\ desk = [w \in Workers |-> Seated] /\ begun = 1
    /\ halved = FALSE /\ torn = {} /\ stale = {} /\ reopened = FALSE /\ lastReply = 0
    /\ recorded = TRUE /\ slipped = {} /\ owed = FALSE

InquiryStep(w) ==
    \/ SubmitInquiry(w) \/ PatchInquiry(w) \/ SaveInquiry(w) \/ ClearItems(w) \/ InsertItem(w)
    \/ StopsHalfway(w) \/ DeleteInquiry(w)
OrderStep(w) ==
    \/ StartConvert(w) \/ PriceOrder(w) \/ CopyItems(w) \/ ConvertCommits(w)
    \/ PatchOrder(w) \/ SaveOrder(w) \/ DeleteOrder(w)
ClientStep(w) ==
    \/ AddClient(w) \/ PatchClient(w) \/ SaveClient(w)
    \/ DeleteClient(w) \/ CheckRecords(w) \/ Deactivate(w) \/ EraseClient(w)

RecordsNext == \E w \in Workers : InquiryStep(w) \/ OrderStep(w) \/ ClientStep(w)

RecordsSpec == RecordsInit /\ [][RecordsNext]_recordVars

-----------------------------------------------------------------------------
\* An order has all items of one version of its inquiry or its own, its total is
\* theirs or was given, and its last activity tells its status; unless items
\* were written while the inquiry was converted, or were left half-written, or
\* a save of the order as read before overwrote a later one.
OrderAgrees ==
    order.id # 0 /\ "order" \notin stale =>
      /\ order.open = recorded
      /\ order.id \in torn \/ \E k \in 1..Last :
           orderItems \in {{}, TwoItems(k)} /\ order.total \in {orderItems} \cup {Given(j) : j \in 1..Last}

\* An inquiry that has its order is resolved, unless it was given another status
\* since, and keeps the last reply; unless a request that had read it before
\* saved over a later version.
InquiryRemembers ==
    inquiry.id # 0 /\ "inquiry" \notin stale =>
      /\ Ordered(inquiry.id) => inquiry.status = "resolved" \/ reopened
      /\ inquiry.reply = lastReply

\* Inquiry and order agree with what was written to them.
RecordsAgree == OrderAgrees /\ InquiryRemembers

\* A deletion takes the client from no record it could have found, and
\* active_projects counts the client's open order, unless since the client was
\* last synchronised that order was deleted or an admin gave a count of his own;
\* or a PATCH of the profile as read before wrote over the count, or a
\* conversion compared it with the count that it had read before.
ClientsAreSound ==
    /\ slipped = {} => /\ inquiry.id # 0 => inquiry.client = client.id
                       /\ order.id # 0 => order.client = client.id
    /\ client.id # 0 /\ ~owed /\ "client" \notin stale =>
         client.projects = IF order.open /\ order.client = client.id THEN 1 ELSE 0
=============================================================================
