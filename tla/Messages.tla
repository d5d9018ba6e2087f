------------------------------- MODULE Messages -------------------------------
(***************************************************************************)
(* One message thread between a client and the control center, and the     *)
(* notifications its messages make (apps/messages_app, apps/notifications).*)
(*                                                                         *)
(* Each statement commits by itself.  A request reads the thread first and *)
(* does not lock it: it may be moved to another client, or deleted with    *)
(* its messages, before the request writes.  A plain save() of a row that  *)
(* is gone inserts it again; a save of named columns raises.               *)
(***************************************************************************)
EXTENDS Naturals, FiniteSets

CONSTANTS
    Servers,     \* workers serving requests
    Supers,      \* users with is_superuser
    Clients,     \* clients of the CRM
    Registered,  \* the clients who have a user account
    OrderUsers,  \* the user of the thread's order or inquiry, if there is one
    Mix,         \* bound: the sets of requests one behaviour mixes
    MaxCalls     \* bound: requests begun in a behaviour

ASSUME MessagesAssumption ==
    /\ Registered \subseteq Clients /\ "none" \notin Clients
    /\ MaxCalls \in Nat

\* How the history names the thread, and a notification: by its message and user.
ThreadKey == <<0, "none">>
Key(n) == <<n.of, n.to>>

Roles == {"admin", "client"}
Other(role) == CHOOSE r \in Roles : r # role

VARIABLES
    thread,    \* the MessageThread row; id = 0: there is none
    messages,  \* its Message rows
    notes,     \* Notification rows: of a message, to a user
    call,      \* what each server is doing
    calls,     \* requests begun so far
    mixed,     \* the requests of this behaviour
    \* history, read by no action
    owner,     \* <<message, client>>: whose the thread was when it was posted
    notified,  \* <<message, user>>: notifications ever made
    failed,    \* messages whose request raised after the message was stored
    moved,     \* messages posted while the thread was being moved
    shown,     \* <<message, role>>: a list with the message went to that side
    missed,    \* messages marked read that arrived after the list was read
    gone,      \* threads and notifications that were deleted
    returned   \* of these, those a full save inserted again

vars == <<thread, messages, notes, call, calls, mixed,
          owner, notified, failed, moved, shown, missed, gone, returned>>

NewThread(client) == [id |-> 1, client |-> client]
NoThread == [id |-> 0, client |-> "none"]
NewMessage(k, role) == [id |-> k, role |-> role, read |-> FALSE]
NewNote(k, user) == [of |-> k, to |-> user, read |-> FALSE]

\* What a server holds of request k (0: it stores no message) of one side.
Holds(at, k, role, copy) ==
    [at |-> at, k |-> k, role |-> role, thread |-> copy, list |-> {}, to |-> {}, note |-> <<>>]
Free == Holds("free", 0, "client", NoThread)

Starts(s, kind) ==
    /\ call[s].at = "free" /\ calls < MaxCalls /\ kind \in mixed
    /\ calls' = calls + 1

Becomes(s, next) == call' = [call EXCEPT ![s] = next]

\* A server holds the thread as a request read it.
Read(s, label, role) == Becomes(s, Holds(label, calls + 1, role, thread))

SameRows == UNCHANGED <<thread, messages, notes>>
SameHistory == UNCHANGED <<owner, notified, failed, moved, shown, missed, gone, returned>>

\* Who the views show the thread to: the control center, the account with the
\* client's e-mail address, the user of the order or inquiry.
Sides == IF {thread.client} \cap Registered # {} \/ OrderUsers # {} THEN Roles ELSE {"admin"}

-----------------------------------------------------------------------------
(* Posting. *)

\* ThreadListCreateView.post creates the thread, then the first message: for
\* the client who posts, or the one the control center names, or none (the
\* thread of an order or an inquiry).
CreateThread(s) ==
    /\ thread.id = 0 /\ calls = 0    \* bound: one thread
    /\ Starts(s, "post")
    /\ \E client \in Clients \cup {"none"}, role \in Roles :
         LET new == NewThread(client) IN
         /\ role = "client" => client \in Registered
         /\ thread' = new
         /\ Becomes(s, Holds("insert", 1, role, new))
    /\ UNCHANGED <<messages, notes, mixed>> /\ SameHistory

\* ThreadReplyView.post reads the thread it replies to.
Reply(s) ==
    /\ thread.id # 0
    /\ Starts(s, "post")
    /\ \E role \in Sides : Read(s, "insert", role)
    /\ SameRows /\ UNCHANGED mixed /\ SameHistory

(* Mutant of Recipients: superusers are told of the team's own messages. *)
Mut_Recipients_Swapped(role, copy) ==
    IF role = "admin" THEN Supers
    ELSE IF copy.client # "none" THEN {copy.client} \cap Registered ELSE OrderUsers

\* create_message_notification: a client's message tells every superuser, a
\* message of the team the user of the thread's client, or else of its order.
Recipients(role, copy) ==
    IF role = "client" THEN Supers
    ELSE IF copy.client # "none" THEN {copy.client} \cap Registered ELSE OrderUsers

\* Message.objects.create; the foreign key refuses a thread that is gone.
InsertMessage(s) ==
    LET c == call[s] IN
    /\ c.at = "insert"
    /\ IF thread.id = c.thread.id
       THEN /\ messages' = messages \cup {NewMessage(c.k, c.role)}
            /\ owner' = owner \cup {<<c.k, thread.client>>}
            /\ moved' = IF thread.client # c.thread.client THEN moved \cup {c.k} ELSE moved
            /\ Becomes(s, [Holds("notify", c.k, c.role, c.thread) EXCEPT !.to = Recipients(c.role, c.thread)])
       ELSE Becomes(s, Free) /\ UNCHANGED <<messages, owner, moved>>
    /\ UNCHANGED <<thread, notes, calls, mixed, notified, failed, shown, missed, gone, returned>>

\* The signal handler creates one notification after the other.
Notify(s) ==
    LET c == call[s] IN
    /\ c.at = "notify"
    /\ \E user \in c.to :
         /\ notes' = notes \cup {NewNote(c.k, user)}
         /\ notified' = notified \cup {<<c.k, user>>}
         /\ Becomes(s, [c EXCEPT !.to = @ \ {user}])
    /\ UNCHANGED <<thread, messages, calls, mixed, owner, failed, moved, shown, missed, gone, returned>>

\* One of them fails: the handler, and the request, raise; the message stays.
NotifyRaises(s) ==
    /\ call[s].at = "notify" /\ call[s].to # {}
    /\ failed' = failed \cup {call[s].k}
    /\ Becomes(s, Free)
    /\ SameRows
    /\ UNCHANGED <<calls, mixed, owner, notified, moved, shown, missed, gone, returned>>

(* Mutant of Touched: a plain save(). *)
Mut_Touched_FullSave(copy) == IF thread.id = 0 THEN copy ELSE thread

\* thread.save(update_fields=["updated_at"]): no column the model keeps, and no
\* row if it is gone (DatabaseError).
Touched(copy) == thread

TouchThread(s) ==
    /\ call[s].at = "notify" /\ call[s].to = {}
    /\ thread' = Touched(call[s].thread)
    /\ Becomes(s, Free)
    /\ UNCHANGED <<messages, notes, calls, mixed>> /\ SameHistory

-----------------------------------------------------------------------------
(* Reading. *)

(* Mutant of MarkedRead: whoever sent them. *)
Mut_MarkedRead_Own(role) == {[m EXCEPT !.read = TRUE] : m \in messages}

\* The other side's unread messages, once read.
MarkedRead(role) ==
    {IF m.role = Other(role) THEN [m EXCEPT !.read = TRUE] ELSE m : m \in messages}

\* ThreadDetailView.get fetches the thread and its messages.
OpenThread(s) ==
    /\ thread.id # 0
    /\ Starts(s, "open")
    /\ \E role \in Sides :
         Becomes(s, [Holds("mark", 0, role, thread) EXCEPT !.list = {m.id : m \in messages}])
    /\ SameRows /\ UNCHANGED mixed /\ SameHistory

\* Then it marks what is unread now, and answers with the list it fetched.
MarkOpened(s) ==
    LET c == call[s] IN
    /\ c.at = "mark"
    /\ messages' = IF thread.id = c.thread.id THEN MarkedRead(c.role) ELSE messages
    /\ shown' = shown \cup (c.list \X {c.role})
    /\ missed' = missed \cup {m.id : m \in {m \in messages' \ messages : m.id \notin c.list}}
    /\ Becomes(s, Free)
    /\ UNCHANGED <<thread, notes, calls, mixed, owner, notified, failed, moved, gone, returned>>

\* ThreadMarkReadView.patch marks without showing; the user asks for it.
MarkRead(s) ==
    /\ thread.id # 0
    /\ Starts(s, "mark")
    /\ \E role \in Sides :
         /\ messages' = MarkedRead(role)
         /\ shown' = shown \cup ({m.id : m \in messages} \X {role})
    /\ UNCHANGED <<thread, notes, call, mixed, owner, notified, failed, moved, missed, gone, returned>>

-----------------------------------------------------------------------------
(* The control center moves, archives or deletes the thread. *)

\* ThreadDetailView.patch reads the thread, sets some fields, and save()s all.
PatchThread(s) ==
    /\ thread.id # 0
    /\ Starts(s, "patch")
    /\ \E client \in Clients \cup {thread.client} :
         Becomes(s, Holds("save", 0, "admin", [thread EXCEPT !.client = client]))
    /\ SameRows /\ UNCHANGED mixed /\ SameHistory

SaveThread(s) ==
    /\ call[s].at = "save"
    /\ thread' = call[s].thread
    /\ returned' = IF thread.id = 0 THEN returned \cup {ThreadKey} ELSE returned
    /\ Becomes(s, Free)
    /\ UNCHANGED <<messages, notes, calls, mixed, owner, notified, failed, moved, shown, missed, gone>>

\* ThreadDetailView.delete: the messages go with the thread.
DeleteThread(s) ==
    /\ thread.id # 0
    /\ Starts(s, "delete")
    /\ thread' = NoThread /\ messages' = {}
    /\ gone' = gone \cup {ThreadKey} /\ returned' = returned \ {ThreadKey}
    /\ UNCHANGED <<notes, call, mixed, owner, notified, failed, moved, shown, missed>>

-----------------------------------------------------------------------------
(* Notifications, by their recipient. *)

\* mark_read, or a PATCH, reads one and save()s all of it.
ReadNote(s) ==
    /\ Starts(s, "notes")
    /\ \E n \in notes : Becomes(s, [Holds("save note", 0, "client", NoThread) EXCEPT !.note = Key(n)])
    /\ SameRows /\ UNCHANGED mixed /\ SameHistory

SaveNote(s) ==
    LET key == call[s].note IN
    /\ call[s].at = "save note"
    /\ notes' = {n \in notes : Key(n) # key} \cup {[of |-> key[1], to |-> key[2], read |-> TRUE]}
    /\ returned' = IF \E n \in notes : Key(n) = key THEN returned ELSE returned \cup {key}
    /\ Becomes(s, Free)
    /\ UNCHANGED <<thread, messages, calls, mixed, owner, notified, failed, moved, shown, missed, gone>>

MarkAllRead(s) ==
    /\ Starts(s, "notes")
    /\ \E user \in {n.to : n \in notes} :
         notes' = {IF n.to = user THEN [n EXCEPT !.read = TRUE] ELSE n : n \in notes}
    /\ UNCHANGED <<thread, messages, call, mixed>> /\ SameHistory

DeleteNote(s) ==
    /\ Starts(s, "notes")
    /\ \E n \in notes :
         /\ notes' = notes \ {n}
         /\ gone' = gone \cup {Key(n)} /\ returned' = returned \ {Key(n)}
    /\ UNCHANGED <<thread, messages, call, mixed, owner, notified, failed, moved, shown, missed>>

-----------------------------------------------------------------------------
Init ==
    /\ mixed \in Mix
    /\ thread \in {NoThread} \cup {NewThread(client) : client \in Clients \cup {"none"}}
    /\ messages = {} /\ notes = {} /\ calls = 0
    /\ call = [s \in Servers |-> Free]
    /\ owner = {} /\ notified = {} /\ failed = {} /\ moved = {} /\ shown = {} /\ missed = {}
    /\ gone = {} /\ returned = {}

ThreadStep(s) ==
    \/ CreateThread(s) \/ Reply(s) \/ InsertMessage(s) \/ Notify(s) \/ NotifyRaises(s)
    \/ TouchThread(s) \/ OpenThread(s) \/ MarkOpened(s) \/ MarkRead(s)
    \/ PatchThread(s) \/ SaveThread(s) \/ DeleteThread(s)

NoteStep(s) == ReadNote(s) \/ SaveNote(s) \/ MarkAllRead(s) \/ DeleteNote(s)

Next == \E s \in Servers : ThreadStep(s) \/ NoteStep(s)

Spec == Init /\ [][Next]_vars

-----------------------------------------------------------------------------
Users == Supers \cup Registered \cup OrderUsers
MessageThread == [id : {0, 1}, client : Clients \cup {"none"}]
Message == [id : 1..MaxCalls, role : Roles, read : BOOLEAN]
Notification == [of : 1..MaxCalls, to : Users, read : BOOLEAN]
NoteKeys == (1..MaxCalls) \X Users
Call ==
    [at : {"free", "insert", "notify", "mark", "save", "save note"},
     k : 0..MaxCalls, role : Roles, thread : MessageThread,
     list : SUBSET (1..MaxCalls), to : SUBSET Users, note : {<<>>} \cup NoteKeys]

\* Every variable keeps its type.
TypeOK ==
    /\ thread \in MessageThread
    /\ messages \subseteq Message
    /\ notes \subseteq Notification
    /\ call \in [Servers -> Call]
    /\ calls \in 0..MaxCalls
    /\ owner \subseteq (1..MaxCalls) \X (Clients \cup {"none"})
    /\ notified \subseteq NoteKeys
    /\ failed \subseteq 1..MaxCalls /\ moved \subseteq 1..MaxCalls /\ missed \subseteq 1..MaxCalls
    /\ shown \subseteq (1..MaxCalls) \X Roles
    /\ gone \subseteq {ThreadKey} \cup NoteKeys /\ returned \subseteq {ThreadKey} \cup NoteKeys

\* When the request that stored a message is over, those it is for were
\* notified and nobody else: of a client's message every superuser, of one of
\* the team the registered client whose thread it was when it was stored, or of
\* a thread of no client its order's user; unless a notification failed and the
\* request with it, or the thread was moved while the message was posted.
EveryoneNotified ==
    \A m \in messages, o \in owner :
      (o[1] = m.id /\ m.id \notin failed \cup moved /\ \A s \in Servers : call[s].k # m.id)
      => {n[2] : n \in {n \in notified : n[1] = m.id}}
           = CASE m.role = "client" -> Supers
               [] m.role = "admin" /\ o[2] = "none" -> OrderUsers
               [] OTHER -> {o[2]} \cap Registered

\* A message is read only when the other side was sent it or dismissed it,
\* except one that arrived between the reading of a list and the marking.
ReadWasShown ==
    \A m \in messages : m.read => <<m.id, Other(m.role)>> \in shown \/ m.id \in missed

\* A deleted thread or notification is back only if a full save of a copy read
\* before the deletion inserted it again; replying never brings a thread back.
DeletedStaysDeleted ==
    /\ thread.id # 0 /\ ThreadKey \in gone => ThreadKey \in returned
    /\ \A n \in notes : Key(n) \in gone => Key(n) \in returned
=============================================================================
