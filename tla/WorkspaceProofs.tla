--------------------------- MODULE WorkspaceProofs --------------------------
(*****************************************************************************)
(* Proofs about Messages, for any number of servers, users, clients and      *)
(* requests, about ProjectFiles, for any number of workers, reviewers and    *)
(* requests, and about ClientRecords, for any number of workers and          *)
(* requests.  The three share no state, and no part rests on another.        *)
(*****************************************************************************)
EXTENDS Messages, ProjectFiles, ClientRecords, TLAPS
-----------------------------------------------------------------------------
(*****************************************************************************)
(* Messages: posting, threads and notifications.                             *)
(*****************************************************************************)
NotifiedOf(k) == {n[2] : n \in {n \in notified : n[1] = k}}

\* Whom a message of the side that was stored in a thread of the client is for.
Audience(role, whose) ==
    CASE role = "client" -> Supers
      [] role = "admin" /\ whose = "none" -> OrderUsers
      [] OTHER -> {whose} \cap Registered

\* Requests are numbered as they begin, and what a message leaves behind bears
\* the number of the request that stored it.
Numbered ==
    /\ \A s \in Servers : call[s].k <= calls
    /\ \A s, t \in Servers : call[s].k = call[t].k /\ s # t => call[s].k = 0
    /\ \A m \in messages : m.id <= calls
    /\ \A o \in owner : o[1] <= calls
    /\ \A n \in notified : n[1] <= calls
    /\ \A s \in Servers : call[s].at \in {"insert", "notify"} <=> call[s].k # 0

\* A request that has not stored its message has left nothing behind.
Unposted ==
    \A s \in Servers : call[s].at = "insert" =>
      /\ \A m \in messages : m.id # call[s].k
      /\ \A o \in owner : o[1] # call[s].k
      /\ \A n \in notified : n[1] # call[s].k

\* A message that is being posted is for those notified and those still to be.
Halfway ==
    \A m \in messages, o \in owner, s \in Servers :
      (o[1] = m.id /\ m.id \notin failed \cup moved /\ call[s].k = m.id)
      => NotifiedOf(m.id) \cup call[s].to = Audience(m.role, o[2])

\* Nobody is notified twice of one message.
Once ==
    /\ \A s \in Servers : call[s].at = "notify" =>
         \A user \in call[s].to : <<call[s].k, user>> \notin notified
    /\ \A n \in notes : Key(n) \in notified
    /\ \A n, p \in notes : Key(n) = Key(p) => n = p
    /\ \A s \in Servers : call[s].at = "save note" => call[s].note \in notified
    /\ gone \subseteq {ThreadKey} \cup notified
    /\ calls = 0 => gone = {}

Told ==
    \A m \in messages, o \in owner :
      (o[1] = m.id /\ m.id \notin failed \cup moved /\ \A s \in Servers : call[s].k # m.id)
      => NotifiedOf(m.id) = Audience(m.role, o[2])

\* The inductive invariant.
MessagesInv == TypeOK /\ Numbered /\ Unposted /\ Halfway /\ Once /\ Told
          /\ ReadWasShown /\ DeletedStaysDeleted

-----------------------------------------------------------------------------
(* Types. *)

LEMMA HoldsIsCall ==
  ASSUME NEW at \in {"free", "insert", "notify", "mark", "save", "save note"},
         NEW k \in 0..MaxCalls, NEW role \in Roles, NEW copy \in MessageThread
  PROVE  Holds(at, k, role, copy) \in Call
  BY DEF Holds, Call

LEMMA ZeroIsNumber == 0 \in 0..MaxCalls
<1>1. MaxCalls \in Nat
  BY MessagesAssumption
<1>2. QED
  BY <1>1

LEMMA HoldsNoMessage ==
  ASSUME NEW at \in {"free", "insert", "notify", "mark", "save", "save note"},
         NEW role \in Roles, NEW copy \in MessageThread
  PROVE  Holds(at, 0, role, copy) \in Call
  BY ZeroIsNumber, HoldsIsCall

LEMMA FreeIsCall == Free \in Call
<1>1. NoThread \in MessageThread
  BY DEF NoThread, MessageThread
<1>2. "client" \in Roles
  BY DEF Roles
<1>3. QED
  BY <1>1, <1>2, HoldsNoMessage DEF Free

LEMMA BecomesIsCall ==
  ASSUME call \in [Servers -> Call], NEW s \in Servers, NEW next \in Call, Becomes(s, next)
  PROVE  call' \in [Servers -> Call]
  BY DEF Becomes

\* The fields of what a server holds.
LEMMA CallFields ==
  ASSUME NEW c \in Call
  PROVE  /\ c.k \in 0..MaxCalls /\ c.role \in Roles /\ c.thread \in MessageThread
         /\ c.list \subseteq 1..MaxCalls /\ c.to \subseteq Users /\ c.note \in {<<>>} \cup NoteKeys
  BY DEF Call

RowsOK ==
    /\ thread \in MessageThread
    /\ messages \subseteq Message
    /\ notes \subseteq Notification
    /\ calls \in 0..MaxCalls
    /\ owner \subseteq (1..MaxCalls) \X (Clients \cup {"none"})
    /\ notified \subseteq NoteKeys
    /\ failed \subseteq 1..MaxCalls /\ moved \subseteq 1..MaxCalls /\ missed \subseteq 1..MaxCalls
    /\ shown \subseteq (1..MaxCalls) \X Roles
    /\ gone \subseteq {ThreadKey} \cup NoteKeys /\ returned \subseteq {ThreadKey} \cup NoteKeys

LEMMA TypeParts == TypeOK <=> RowsOK /\ call \in [Servers -> Call]
  BY DEF TypeOK, RowsOK

LEMMA PostingTypes ==
  ASSUME TypeOK, Numbered, NEW s \in Servers,
         CreateThread(s) \/ Reply(s) \/ InsertMessage(s) \/ Notify(s) \/ NotifyRaises(s) \/ TouchThread(s)
  PROVE  TypeOK'
<1> DEFINE c == call[s]
<1>1. c \in Call /\ RowsOK /\ call \in [Servers -> Call]
  BY TypeParts DEF TypeOK
<1>2. CASE CreateThread(s)
  <2>1. PICK whose \in Clients \cup {"none"}, role \in Roles :
          /\ thread' = NewThread(whose)
          /\ Becomes(s, Holds("insert", 1, role, NewThread(whose)))
    BY <1>2 DEF CreateThread
  <2>2. NewThread(whose) \in MessageThread
    BY DEF NewThread, MessageThread
  <2>3. calls' = calls + 1 /\ calls < MaxCalls
    BY <1>2 DEF CreateThread, Starts
  <2>4. Holds("insert", 1, role, NewThread(whose)) \in Call
    <3>1. 1 \in 0..MaxCalls
      BY MessagesAssumption, <2>3, <1>1 DEF RowsOK
    <3>2. QED
      BY <2>2, <3>1, HoldsIsCall
  <2>5. call' \in [Servers -> Call]
    BY <1>1, <2>1, <2>4, BecomesIsCall
  <2>6. RowsOK'
    BY MessagesAssumption, <1>1, <1>2, <2>1, <2>2, <2>3 DEF RowsOK, CreateThread, SameHistory
  <2>7. QED
    BY <2>5, <2>6 DEF TypeOK, RowsOK
<1>3. CASE Reply(s)
  <2>1. PICK role \in Roles : Becomes(s, Holds("insert", calls + 1, role, thread))
    BY <1>3 DEF Reply, Read, Sides, Roles
  <2>2. calls' = calls + 1 /\ calls < MaxCalls
    BY <1>3 DEF Reply, Starts
  <2>3. calls + 1 \in 0..MaxCalls
    BY MessagesAssumption, <2>2, <1>1 DEF RowsOK
  <2>4. Holds("insert", calls + 1, role, thread) \in Call
    BY <2>3, <1>1, HoldsIsCall DEF RowsOK
  <2>5. call' \in [Servers -> Call]
    BY <1>1, <2>1, <2>4, BecomesIsCall
  <2>6. RowsOK'
    BY <1>1, <1>3, <2>2, <2>3 DEF RowsOK, Reply, SameRows, SameHistory
  <2>7. QED
    BY <2>5, <2>6 DEF TypeOK, RowsOK
<1>4. CASE InsertMessage(s)
  <2>1. c.at = "insert" /\ c.k \in 1..MaxCalls
    BY <1>1, <1>4, CallFields DEF InsertMessage, Numbered
  <2>2. Recipients(c.role, c.thread) \subseteq Users
    BY DEF Recipients, Users
  <2>3. Holds("notify", c.k, c.role, c.thread) \in Call
    BY <1>1, CallFields, HoldsIsCall
  <2>4. [Holds("notify", c.k, c.role, c.thread) EXCEPT !.to = Recipients(c.role, c.thread)] \in Call
    BY <2>2, <2>3 DEF Call
  <2>5. call' \in [Servers -> Call]
    BY <1>1, <1>4, <2>4, FreeIsCall, BecomesIsCall DEF InsertMessage
  <2>6. NewMessage(c.k, c.role) \in Message
    BY <1>1, <2>1, CallFields DEF NewMessage, Message
  <2>7. thread.client \in Clients \cup {"none"}
    BY <1>1 DEF RowsOK, MessageThread
  <2>8. RowsOK'
    BY <1>1, <1>4, <2>1, <2>6, <2>7 DEF RowsOK, InsertMessage
  <2>9. QED
    BY <2>5, <2>8 DEF TypeOK, RowsOK
<1>5. CASE Notify(s)
  <2>1. PICK user \in c.to :
          /\ notes' = notes \cup {NewNote(c.k, user)}
          /\ notified' = notified \cup {<<c.k, user>>}
          /\ Becomes(s, [c EXCEPT !.to = @ \ {user}])
    BY <1>5 DEF Notify
  <2>2. c.k \in 1..MaxCalls /\ user \in Users
    BY <1>1, <1>5, <2>1, CallFields DEF Notify, Numbered
  <2>3. [c EXCEPT !.to = @ \ {user}] \in Call
    BY <1>1 DEF Call
  <2>4. call' \in [Servers -> Call]
    BY <1>1, <2>1, <2>3, BecomesIsCall
  <2>5. NewNote(c.k, user) \in Notification /\ <<c.k, user>> \in NoteKeys
    BY <2>2 DEF NewNote, Notification, NoteKeys
  <2>6. RowsOK'
    BY <1>1, <1>5, <2>1, <2>5 DEF RowsOK, Notify
  <2>7. QED
    BY <2>4, <2>6 DEF TypeOK, RowsOK
<1>6. CASE NotifyRaises(s)
  <2>1. call' \in [Servers -> Call]
    BY <1>1, <1>6, FreeIsCall, BecomesIsCall DEF NotifyRaises
  <2>2. c.k \in 1..MaxCalls
    BY <1>1, <1>6, CallFields DEF NotifyRaises, Numbered
  <2>3. RowsOK'
    BY <1>1, <1>6, <2>2 DEF RowsOK, NotifyRaises, SameRows
  <2>4. QED
    BY <2>1, <2>3 DEF TypeOK, RowsOK
<1>7. CASE TouchThread(s)
  <2>1. call' \in [Servers -> Call]
    BY <1>1, <1>7, FreeIsCall, BecomesIsCall DEF TouchThread
  <2>2. RowsOK'
    BY <1>1, <1>7 DEF RowsOK, TouchThread, Touched, SameHistory
  <2>3. QED
    BY <2>1, <2>2 DEF TypeOK, RowsOK
<1>8. QED
  BY <1>2, <1>3, <1>4, <1>5, <1>6, <1>7

LEMMA ThreadTypes ==
  ASSUME TypeOK, NEW s \in Servers,
         OpenThread(s) \/ MarkOpened(s) \/ MarkRead(s) \/ PatchThread(s) \/ SaveThread(s) \/ DeleteThread(s)
  PROVE  TypeOK'
<1> DEFINE c == call[s]
<1>1. c \in Call /\ RowsOK /\ call \in [Servers -> Call]
  BY TypeParts DEF TypeOK
<1>2. \A role \in Roles : MarkedRead(role) \subseteq Message
  BY <1>1 DEF RowsOK, MarkedRead, Message
<1>3. {m.id : m \in messages} \subseteq 1..MaxCalls
  BY <1>1 DEF RowsOK, Message
<1>4. ASSUME NEW kind, Starts(s, kind) PROVE calls' \in 0..MaxCalls
  BY MessagesAssumption, <1>1, <1>4 DEF RowsOK, Starts
<1>5. CASE OpenThread(s)
  <2>1. PICK role \in Roles :
          Becomes(s, [Holds("mark", 0, role, thread) EXCEPT !.list = {m.id : m \in messages}])
    BY <1>5 DEF OpenThread, Sides, Roles
  <2>2. Holds("mark", 0, role, thread) \in Call
    BY <1>1, HoldsNoMessage DEF RowsOK
  <2>3. [Holds("mark", 0, role, thread) EXCEPT !.list = {m.id : m \in messages}] \in Call
    BY <2>2, <1>3 DEF Call
  <2>4. call' \in [Servers -> Call]
    BY <1>1, <2>1, <2>3, BecomesIsCall
  <2>5. RowsOK'
    BY <1>1, <1>4, <1>5 DEF RowsOK, OpenThread, SameRows, SameHistory
  <2>6. QED
    BY <2>4, <2>5 DEF TypeOK, RowsOK
<1>6. CASE MarkOpened(s)
  <2>1. call' \in [Servers -> Call]
    BY <1>1, <1>6, FreeIsCall, BecomesIsCall DEF MarkOpened
  <2>2. c.list \subseteq 1..MaxCalls /\ c.role \in Roles
    BY <1>1, CallFields
  <2>3. messages' \subseteq Message
    BY <1>1, <1>2, <1>6, <2>2 DEF MarkOpened, RowsOK
  <2>4. missed' \subseteq 1..MaxCalls
    BY <1>1, <1>6, <2>3 DEF MarkOpened, RowsOK, Message
  <2>5. shown' \subseteq (1..MaxCalls) \X Roles
    BY <1>1, <1>6, <2>2 DEF MarkOpened, RowsOK
  <2>6. RowsOK'
    BY <1>1, <1>6, <2>3, <2>4, <2>5 DEF RowsOK, MarkOpened
  <2>7. QED
    BY <2>1, <2>6 DEF TypeOK, RowsOK
<1>7. CASE MarkRead(s)
  <2>1. PICK role \in Roles : /\ messages' = MarkedRead(role)
                              /\ shown' = shown \cup ({m.id : m \in messages} \X {role})
    BY <1>7 DEF MarkRead, Sides, Roles
  <2>2. messages' \subseteq Message
    BY <1>2, <2>1
  <2>3. shown' \subseteq (1..MaxCalls) \X Roles
    BY <1>1, <1>3, <2>1 DEF RowsOK
  <2>4. RowsOK' /\ call' = call
    BY <1>1, <1>4, <1>7, <2>2, <2>3 DEF RowsOK, MarkRead
  <2>5. QED
    BY <1>1, <2>4 DEF TypeOK, RowsOK
<1>8. CASE PatchThread(s)
  <2>1. PICK whose \in Clients \cup {thread.client} :
          Becomes(s, Holds("save", 0, "admin", [thread EXCEPT !.client = whose]))
    BY <1>8 DEF PatchThread
  <2>2. [thread EXCEPT !.client = whose] \in MessageThread
    BY <1>1 DEF RowsOK, MessageThread
  <2>3. Holds("save", 0, "admin", [thread EXCEPT !.client = whose]) \in Call
    BY <2>2, HoldsNoMessage DEF Roles
  <2>4. call' \in [Servers -> Call]
    BY <1>1, <2>1, <2>3, BecomesIsCall
  <2>5. RowsOK'
    BY <1>1, <1>4, <1>8 DEF RowsOK, PatchThread, SameRows, SameHistory
  <2>6. QED
    BY <2>4, <2>5 DEF TypeOK, RowsOK
<1>9. CASE SaveThread(s)
  <2>1. call' \in [Servers -> Call]
    BY <1>1, <1>9, FreeIsCall, BecomesIsCall DEF SaveThread
  <2>2. c.thread \in MessageThread
    BY <1>1, CallFields
  <2>3. RowsOK'
    BY <1>1, <1>9, <2>2 DEF RowsOK, SaveThread
  <2>4. QED
    BY <2>1, <2>3 DEF TypeOK, RowsOK
<1>10. CASE DeleteThread(s)
  <2>1. NoThread \in MessageThread
    BY DEF NoThread, MessageThread
  <2>2. RowsOK' /\ call' = call
    BY <1>1, <1>4, <1>10, <2>1 DEF RowsOK, DeleteThread
  <2>3. QED
    BY <1>1, <2>2 DEF TypeOK, RowsOK
<1>11. QED
  BY <1>5, <1>6, <1>7, <1>8, <1>9, <1>10

LEMMA NoteTypes ==
  ASSUME TypeOK, Once, NEW s \in Servers, NoteStep(s)
  PROVE  TypeOK'
<1> DEFINE c == call[s]
<1>1. c \in Call /\ RowsOK /\ call \in [Servers -> Call]
  BY TypeParts DEF TypeOK
<1>2. \A n \in notes : Key(n) \in NoteKeys
  BY <1>1 DEF RowsOK, Notification, Key, NoteKeys
<1>3. ASSUME NEW kind, Starts(s, kind) PROVE calls' \in 0..MaxCalls
  BY MessagesAssumption, <1>1, <1>3 DEF RowsOK, Starts
<1>4. CASE ReadNote(s)
  <2>1. PICK n \in notes :
          Becomes(s, [Holds("save note", 0, "client", NoThread) EXCEPT !.note = Key(n)])
    BY <1>4 DEF ReadNote
  <2>2. NoThread \in MessageThread /\ "client" \in Roles
    BY DEF NoThread, MessageThread, Roles
  <2>3. Holds("save note", 0, "client", NoThread) \in Call
    BY <2>2, HoldsNoMessage
  <2>4. Key(n) \in NoteKeys
    BY <1>2
  <2>5. [Holds("save note", 0, "client", NoThread) EXCEPT !.note = Key(n)] \in Call
    BY <2>3, <2>4 DEF Call
  <2>6. call' \in [Servers -> Call]
    BY <1>1, <2>1, <2>5, BecomesIsCall
  <2>7. RowsOK'
    BY <1>1, <1>3, <1>4 DEF RowsOK, ReadNote, SameRows, SameHistory
  <2>8. QED
    BY <2>6, <2>7 DEF TypeOK, RowsOK
<1>5. CASE SaveNote(s)
  <2>1. call' \in [Servers -> Call]
    BY <1>1, <1>5, FreeIsCall, BecomesIsCall DEF SaveNote
  <2>2. c.note \in notified /\ notified \subseteq NoteKeys
    BY <1>1, <1>5 DEF SaveNote, Once, RowsOK
  <2>3. [of |-> c.note[1], to |-> c.note[2], read |-> TRUE] \in Notification
    BY <2>2 DEF NoteKeys, Notification
  <2>4. RowsOK'
    BY <1>1, <1>5, <2>2, <2>3 DEF RowsOK, SaveNote
  <2>5. QED
    BY <2>1, <2>4 DEF TypeOK, RowsOK
<1>6. CASE MarkAllRead(s)
  <2>1. notes' \subseteq Notification
    BY <1>1, <1>6 DEF MarkAllRead, RowsOK, Notification
  <2>2. RowsOK' /\ call' = call
    BY <1>1, <1>3, <1>6, <2>1 DEF RowsOK, MarkAllRead, SameHistory
  <2>3. QED
    BY <1>1, <2>2 DEF TypeOK, RowsOK
<1>7. CASE DeleteNote(s)
  <2>1. RowsOK' /\ call' = call
    BY <1>1, <1>2, <1>3, <1>7 DEF RowsOK, DeleteNote
  <2>2. QED
    BY <1>1, <2>1 DEF TypeOK, RowsOK
<1>8. QED
  BY <1>4, <1>5, <1>6, <1>7 DEF NoteStep

-----------------------------------------------------------------------------
(* Reading. *)

LEMMA ShownStep ==
  ASSUME TypeOK, ReadWasShown, [Next]_vars
  PROVE  ReadWasShown'
<1>1. \A m \in messages : m.role \in Roles
  BY DEF TypeOK, Message
<1>2. ASSUME NEW s \in Servers, InsertMessage(s) PROVE ReadWasShown'
  BY <1>2 DEF InsertMessage, NewMessage, ReadWasShown
<1>3. ASSUME NEW s \in Servers, MarkOpened(s) PROVE ReadWasShown'
  <2> DEFINE c == call[s]
  <2>1. c.role \in Roles
    BY CallFields DEF TypeOK
  <2>2. SUFFICES ASSUME NEW m \in messages', m.read
                 PROVE  <<m.id, Other(m.role)>> \in shown' \/ m.id \in missed'
    BY DEF ReadWasShown
  <2>3. CASE m \in messages
    BY <1>3, <2>2, <2>3 DEF MarkOpened, ReadWasShown
  <2>4. CASE m \notin messages
    <3>1. m.id \in missed' \/ m.id \in c.list
      BY <1>3, <2>2, <2>4 DEF MarkOpened
    <3>2. m \in MarkedRead(c.role)
      BY <1>3, <2>2, <2>4 DEF MarkOpened
    <3>3. PICK p \in messages : m = IF p.role = Other(c.role) THEN [p EXCEPT !.read = TRUE] ELSE p
      BY <3>2 DEF MarkedRead
    <3>4. m.role = Other(c.role)
      BY <2>4, <3>3 DEF TypeOK, Message
    <3>5. Other(m.role) = c.role
      BY <2>1, <3>4 DEF Other, Roles
    <3>6. m.id \in c.list => <<m.id, Other(m.role)>> \in shown'
      BY <1>3, <3>5 DEF MarkOpened
    <3>7. QED
      BY <3>1, <3>6
  <2>5. QED
    BY <2>3, <2>4
<1>4. ASSUME NEW s \in Servers, MarkRead(s) PROVE ReadWasShown'
  <2>1. PICK role \in Roles : /\ messages' = MarkedRead(role) /\ missed' = missed
                              /\ shown' = shown \cup ({m.id : m \in messages} \X {role})
    BY <1>4 DEF MarkRead, Sides, Roles
  <2>2. SUFFICES ASSUME NEW m \in messages', m.read
                 PROVE  <<m.id, Other(m.role)>> \in shown' \/ m.id \in missed'
    BY DEF ReadWasShown
  <2>3. PICK p \in messages : m = IF p.role = Other(role) THEN [p EXCEPT !.read = TRUE] ELSE p
    BY <2>1, <2>2 DEF MarkedRead
  <2>4. m.id = p.id /\ m.role = p.role
    BY <2>3 DEF TypeOK, Message
  <2>5. CASE p.role = Other(role)
    <3>1. Other(m.role) = role
      BY <2>4, <2>5 DEF Other, Roles
    <3>2. QED
      BY <2>1, <2>4, <3>1
  <2>6. CASE p.role # Other(role)
    BY <2>1, <2>2, <2>3, <2>6 DEF ReadWasShown
  <2>7. QED
    BY <2>5, <2>6
<1>5. ASSUME NEW s \in Servers, DeleteThread(s) PROVE ReadWasShown'
  BY <1>5 DEF DeleteThread, ReadWasShown
<1>6. CASE messages' = messages /\ shown' = shown /\ missed' = missed
  BY <1>6 DEF ReadWasShown
<1>7. QED
  BY <1>2, <1>3, <1>4, <1>5, <1>6 DEF Next, ThreadStep, NoteStep, vars, CreateThread, Reply, Notify,
     NotifyRaises, TouchThread, OpenThread, PatchThread, SaveThread, ReadNote, SaveNote,
     MarkAllRead, DeleteNote, SameRows, SameHistory

-----------------------------------------------------------------------------
(* Deletion. *)

LEMMA KeysDiffer ==
  ASSUME TypeOK, NEW n \in notes
  PROVE  Key(n) # ThreadKey
  BY DEF TypeOK, Notification, Key, ThreadKey

LEMMA DeletedStep ==
  ASSUME TypeOK, Numbered, Once, DeletedStaysDeleted, [Next]_vars
  PROVE  DeletedStaysDeleted'
<1> USE DEF DeletedStaysDeleted
<1>1. ASSUME NEW s \in Servers, CreateThread(s) PROVE DeletedStaysDeleted'
  BY <1>1 DEF CreateThread, Once, SameHistory
<1>2. ASSUME NEW s \in Servers, Notify(s) PROVE DeletedStaysDeleted'
  <2>1. PICK user \in call[s].to : notes' = notes \cup {NewNote(call[s].k, user)}
    BY <1>2 DEF Notify
  <2>2. Key(NewNote(call[s].k, user)) = <<call[s].k, user>>
    BY DEF Key, NewNote
  <2>3. <<call[s].k, user>> \notin notified
    BY <1>2 DEF Notify, Once
  <2>4. <<call[s].k, user>> # ThreadKey
    BY <1>2 DEF Notify, Numbered, ThreadKey
  <2>5. Key(NewNote(call[s].k, user)) \notin gone
    BY <2>2, <2>3, <2>4 DEF Once
  <2>6. QED
    BY <1>2, <2>1, <2>5 DEF Notify
<1>3. ASSUME NEW s \in Servers, TouchThread(s) PROVE DeletedStaysDeleted'
  BY <1>3 DEF TouchThread, Touched, SameHistory
<1>4. ASSUME NEW s \in Servers, SaveThread(s) PROVE DeletedStaysDeleted'
  BY <1>4 DEF SaveThread
<1>5. ASSUME NEW s \in Servers, DeleteThread(s) PROVE DeletedStaysDeleted'
  BY <1>5, KeysDiffer DEF DeleteThread, NoThread
<1>6. ASSUME NEW s \in Servers, SaveNote(s) PROVE DeletedStaysDeleted'
  <2> DEFINE key == call[s].note
             saved == [of |-> key[1], to |-> key[2], read |-> TRUE]
  <2>1. Key(saved) = key
    <3>1. key \in NoteKeys
      BY <1>6 DEF SaveNote, Once, TypeOK
    <3>2. QED
      BY <3>1 DEF Key, NoteKeys
  <2>2. key \in gone => key \in returned'
    BY <1>6 DEF SaveNote
  <2>3. returned \subseteq returned' /\ gone' = gone /\ thread' = thread
    BY <1>6 DEF SaveNote
  <2>4. \A n \in notes' : n \in notes \/ n = saved
    BY <1>6 DEF SaveNote
  <2>5. QED
    BY <2>1, <2>2, <2>3, <2>4
<1>7. ASSUME NEW s \in Servers, MarkAllRead(s) PROVE DeletedStaysDeleted'
  <2>1. \A n \in notes' : \E p \in notes : Key(n) = Key(p)
    BY <1>7 DEF MarkAllRead, Key, TypeOK, Notification
  <2>2. gone' = gone /\ returned' = returned /\ thread' = thread
    BY <1>7 DEF MarkAllRead, SameHistory
  <2>3. QED
    BY <2>1, <2>2
<1>8. ASSUME NEW s \in Servers, DeleteNote(s) PROVE DeletedStaysDeleted'
  <2>1. PICK n \in notes : /\ notes' = notes \ {n}
                           /\ gone' = gone \cup {Key(n)} /\ returned' = returned \ {Key(n)}
    BY <1>8 DEF DeleteNote
  <2>2. \A p \in notes' : Key(p) # Key(n)
    BY <2>1 DEF Once
  <2>3. Key(n) # ThreadKey /\ thread' = thread
    BY <1>8, KeysDiffer DEF DeleteNote
  <2>4. QED
    BY <2>1, <2>2, <2>3
<1>9. CASE thread' = thread /\ notes' = notes /\ gone' = gone /\ returned' = returned
  BY <1>9
<1>10. QED
  BY <1>1, <1>2, <1>3, <1>4, <1>5, <1>6, <1>7, <1>8, <1>9 DEF Next, ThreadStep, NoteStep, vars,
     Reply, InsertMessage, NotifyRaises, OpenThread, MarkOpened, MarkRead, PatchThread, ReadNote,
     SameRows, SameHistory

-----------------------------------------------------------------------------
(* Numbers of requests. *)

\* A step of s that does not begin a post: the others hold what they held, and
\* s holds its number still or none.
LEMMA Keeps ==
  ASSUME TypeOK, Numbered, NEW s \in Servers, NEW next, next.k \in {0, call[s].k},
         next.at \in {"insert", "notify"} <=> next.k # 0,
         call' = [call EXCEPT ![s] = next], calls' \in Nat, calls' >= calls
  PROVE  /\ \A t \in Servers : call'[t].k <= calls'
         /\ \A t, u \in Servers : call'[t].k = call'[u].k /\ t # u => call'[t].k = 0
         /\ \A t \in Servers : call'[t].at \in {"insert", "notify"} <=> call'[t].k # 0
<1>1. \A t \in Servers : call[t].k \in Nat /\ calls \in Nat
  BY CallFields DEF TypeOK
<1>2. \A t \in Servers : call'[t] = IF t = s THEN next ELSE call[t]
  BY DEF TypeOK
<1>3. \A t \in Servers : call'[t].k \in {0, call[t].k}
  BY <1>2
<1>4. QED
  BY <1>1, <1>2, <1>3 DEF Numbered

\* A step that begins a post, with a new number.
LEMMA Posts ==
  ASSUME TypeOK, Numbered, NEW s \in Servers, NEW role, NEW copy,
         call' = [call EXCEPT ![s] = Holds("insert", calls + 1, role, copy)], calls' = calls + 1
  PROVE  /\ \A t \in Servers : call'[t].k <= calls'
         /\ \A t, u \in Servers : call'[t].k = call'[u].k /\ t # u => call'[t].k = 0
         /\ \A t \in Servers : call'[t].at \in {"insert", "notify"} <=> call'[t].k # 0
<1>1. \A t \in Servers : call[t].k \in Nat /\ calls \in Nat
  BY CallFields DEF TypeOK
<1>2. \A t \in Servers : call'[t] = IF t = s THEN Holds("insert", calls + 1, role, copy) ELSE call[t]
  BY DEF TypeOK
<1>3. QED
  BY <1>1, <1>2 DEF Numbered, Holds

LEMMA NumberedStep ==
  ASSUME TypeOK, Numbered, Once, [Next]_vars
  PROVE  Numbered'
<1>1. calls \in Nat /\ \A t \in Servers : call[t] \in Call /\ call[t].k \in Nat
  BY CallFields DEF TypeOK
<1> DEFINE CallsNumbered ==
      /\ \A t \in Servers : call[t].k <= calls
      /\ \A t, u \in Servers : call[t].k = call[u].k /\ t # u => call[t].k = 0
      /\ \A t \in Servers : call[t].at \in {"insert", "notify"} <=> call[t].k # 0
<1>2. Free.k = 0 /\ Free.at \notin {"insert", "notify"}
  BY DEF Free, Holds
<1>3. ASSUME NEW s \in Servers, CreateThread(s) PROVE Numbered'
  <2>1. PICK whose, role : Becomes(s, Holds("insert", calls + 1, role, NewThread(whose)))
    BY <1>3 DEF CreateThread
  <2>2. calls' = calls + 1
    BY <1>3 DEF CreateThread, Starts
  <2>3. CallsNumbered'
    BY <2>1, <2>2, Posts DEF Becomes
  <2>4. messages' = messages /\ owner' = owner /\ notified' = notified
    BY <1>3 DEF CreateThread, SameHistory
  <2>5. QED
    BY <1>1, <2>2, <2>3, <2>4 DEF Numbered, TypeOK, Message, NoteKeys
<1>4. ASSUME NEW s \in Servers, Reply(s) PROVE Numbered'
  <2>1. PICK role : Becomes(s, Holds("insert", calls + 1, role, thread))
    BY <1>4 DEF Reply, Read
  <2>2. calls' = calls + 1
    BY <1>4 DEF Reply, Starts
  <2>3. CallsNumbered'
    BY <2>1, <2>2, Posts DEF Becomes
  <2>4. messages' = messages /\ owner' = owner /\ notified' = notified
    BY <1>4 DEF Reply, SameRows, SameHistory
  <2>5. QED
    BY <1>1, <2>2, <2>3, <2>4 DEF Numbered, TypeOK, Message, NoteKeys
<1>5. ASSUME NEW s \in Servers, InsertMessage(s) PROVE Numbered'
  <2> DEFINE c == call[s]
             next == IF thread.id = c.thread.id
                     THEN [Holds("notify", c.k, c.role, c.thread) EXCEPT !.to = Recipients(c.role, c.thread)]
                     ELSE Free
  <2>1. call' = [call EXCEPT ![s] = next] /\ calls' = calls /\ c.at = "insert"
    BY <1>5 DEF InsertMessage, Becomes
  <2>2. next.k \in {0, c.k} /\ (next.at \in {"insert", "notify"} <=> next.k # 0)
    BY <1>2, <2>1 DEF Holds, Numbered
  <2>3. c.k <= calls
    BY DEF Numbered
  <2>4. /\ \A m \in messages' : m \in messages \/ m.id = c.k
        /\ \A o \in owner' : o \in owner \/ o[1] = c.k
        /\ notified' = notified
    BY <1>5 DEF InsertMessage, NewMessage
  <2>5. QED
    BY <1>1, <2>1, <2>2, <2>3, <2>4, Keeps DEF Numbered
<1>6. ASSUME NEW s \in Servers, Notify(s) PROVE Numbered'
  <2> DEFINE c == call[s]
  <2>1. PICK user \in c.to : /\ notified' = notified \cup {<<c.k, user>>}
                             /\ call' = [call EXCEPT ![s] = [c EXCEPT !.to = @ \ {user}]]
    BY <1>6 DEF Notify, Becomes
  <2> DEFINE next == [c EXCEPT !.to = @ \ {user}]
  <2>2. next.k = c.k /\ next.at = c.at
    BY <1>1 DEF Call
  <2>3. QED
    BY <1>1, <1>6, <2>1, <2>2, Keeps DEF Numbered, Notify
<1>7. ASSUME NEW s \in Servers, NotifyRaises(s) \/ TouchThread(s) \/ SaveThread(s) \/ SaveNote(s)
      PROVE  Numbered'
  <2>1. call' = [call EXCEPT ![s] = Free] /\ calls' = calls
    BY <1>7 DEF NotifyRaises, TouchThread, SaveThread, SaveNote, Becomes
  <2>2. messages' = messages /\ owner' = owner /\ notified' = notified
    BY <1>7 DEF NotifyRaises, TouchThread, SaveThread, SaveNote, SameRows, SameHistory
  <2>3. QED
    BY <1>1, <1>2, <2>1, <2>2, Keeps DEF Numbered
<1>8. ASSUME NEW s \in Servers, OpenThread(s) \/ PatchThread(s) \/ ReadNote(s)
      PROVE  Numbered'
  <2>1. /\ \A t \in Servers \ {s} : call'[t] = call[t]
        /\ call'[s].k = 0 /\ call'[s].at \notin {"insert", "notify"}
    <3>1. CASE OpenThread(s)
      BY <3>1 DEF OpenThread, Becomes, Holds, TypeOK
    <3>2. CASE PatchThread(s)
      BY <3>2 DEF PatchThread, Becomes, Holds, TypeOK
    <3>3. CASE ReadNote(s)
      BY <3>3 DEF ReadNote, Becomes, Holds, TypeOK
    <3>4. QED
      BY <1>8, <3>1, <3>2, <3>3
  <2>2. messages' = messages /\ owner' = owner /\ notified' = notified /\ calls' = calls + 1
    BY <1>8 DEF OpenThread, PatchThread, ReadNote, Starts, SameRows, SameHistory
  <2>3. \A t \in Servers : call'[t] = call[t] \/ (t = s /\ call'[t].k = 0)
    BY <2>1
  <2>4. \A t \in Servers : call'[t].k <= calls'
    BY <1>1, <2>2, <2>3 DEF Numbered
  <2>5. CallsNumbered'
    BY <2>1, <2>4 DEF Numbered
  <2>6. QED
    BY <1>1, <2>2, <2>5 DEF Numbered, TypeOK, Message, NoteKeys
<1>9. ASSUME NEW s \in Servers, MarkOpened(s) PROVE Numbered'
  <2>1. call' = [call EXCEPT ![s] = Free] /\ calls' = calls /\ owner' = owner /\ notified' = notified
    BY <1>9 DEF MarkOpened, Becomes
  <2>2. \A m \in messages' : \E p \in messages : m.id = p.id
    BY <1>9 DEF MarkOpened, MarkedRead, TypeOK, Message
  <2>3. QED
    BY <1>1, <1>2, <2>1, <2>2, Keeps DEF Numbered
<1>10. ASSUME NEW s \in Servers, MarkRead(s) \/ DeleteThread(s) \/ MarkAllRead(s) \/ DeleteNote(s)
       PROVE  Numbered'
  <2>1. call' = call /\ calls' = calls + 1 /\ owner' = owner /\ notified' = notified
    BY <1>10 DEF MarkRead, DeleteThread, MarkAllRead, DeleteNote, Starts, SameHistory
  <2>2. \A m \in messages' : \E p \in messages : m.id = p.id
    BY <1>10 DEF MarkRead, MarkedRead, DeleteThread, MarkAllRead, DeleteNote, TypeOK, Message
  <2>3. CallsNumbered'
    BY <1>1, <2>1 DEF Numbered
  <2>4. QED
    BY <1>1, <2>1, <2>2, <2>3 DEF Numbered, TypeOK, Message, NoteKeys
<1>11. CASE UNCHANGED vars
  BY <1>11 DEF Numbered, vars
<1>12. QED
  BY <1>3, <1>4, <1>5, <1>6, <1>7, <1>8, <1>9, <1>10, <1>11 DEF Next, ThreadStep, NoteStep

-----------------------------------------------------------------------------
(* What a step does to messages and to the requests that post them. *)

\* A post that begins: a new number, and no row changes.
PostBegins(s) ==
  /\ call'[s].at = "insert" /\ call'[s].k = calls + 1
  /\ \A t \in Servers \ {s} : call'[t] = call[t]
  /\ call[s].k = 0
  /\ UNCHANGED <<messages, owner, notified, failed, moved>>

\* A post that stores its message, or another step of a post, or none.
Elsewhere ==
  /\ \A t \in Servers :
       \/ call'[t] = call[t]
       \/ call[t].at # "notify" /\ call'[t].k = 0
       \/ call[t].at = "notify" /\ call'[t].k = 0 /\ (call[t].to = {} \/ call[t].k \in failed')
  /\ \A m \in messages' : \E p \in messages : m.id = p.id /\ m.role = p.role
  /\ owner' = owner /\ notified' = notified /\ failed \subseteq failed' /\ moved' = moved

LEMMA MarkedIdentity ==
  ASSUME TypeOK, NEW role, NEW m \in MarkedRead(role)
  PROVE  \E p \in messages : m.id = p.id /\ m.role = p.role
  BY DEF MarkedRead, TypeOK, Message

LEMMA StepKinds ==
  ASSUME TypeOK, Numbered, [Next]_vars
  PROVE  \/ \E s \in Servers : PostBegins(s) \/ InsertMessage(s) \/ Notify(s)
         \/ Elsewhere
<1>1. ASSUME NEW s \in Servers, CreateThread(s) \/ Reply(s) PROVE PostBegins(s)
  <2>1. \E role, copy : call' = [call EXCEPT ![s] = Holds("insert", calls + 1, role, copy)]
    <3>1. CASE CreateThread(s)
      <4>1. PICK whose, role : Becomes(s, Holds("insert", 1, role, NewThread(whose)))
        BY <3>1 DEF CreateThread
      <4>2. calls + 1 = 1
        BY <3>1 DEF CreateThread
      <4>3. QED
        BY <4>1, <4>2 DEF Becomes
    <3>2. CASE Reply(s)
      BY <3>2 DEF Reply, Read, Becomes
    <3>3. QED
      BY <1>1, <3>1, <3>2
  <2>2. call'[s].at = "insert" /\ call'[s].k = calls + 1 /\ \A t \in Servers \ {s} : call'[t] = call[t]
    BY <2>1 DEF Holds, TypeOK
  <2>3. call[s].k = 0
    BY <1>1 DEF CreateThread, Reply, Starts, Numbered
  <2>4. QED
    BY <1>1, <2>2, <2>3 DEF PostBegins, CreateThread, Reply, SameRows, SameHistory
<1>2. ASSUME NEW s \in Servers, NotifyRaises(s) PROVE Elsewhere
  BY <1>2 DEF NotifyRaises, Becomes, Free, Holds, TypeOK, Elsewhere, SameRows
<1>3. ASSUME NEW s \in Servers, TouchThread(s) PROVE Elsewhere
  <2>1. UNCHANGED <<messages, owner, notified, failed, moved>>
    BY <1>3 DEF TouchThread, SameHistory
  <2>2. /\ \A t \in Servers \ {s} : call'[t] = call[t]
        /\ call'[s].k = 0 /\ call[s].at = "notify" /\ call[s].to = {}
    BY <1>3 DEF TouchThread, Becomes, Free, Holds, TypeOK
  <2>3. QED
    BY <2>1, <2>2 DEF Elsewhere
<1>4. ASSUME NEW s \in Servers, SaveThread(s) \/ SaveNote(s) PROVE Elsewhere
  <2>1. UNCHANGED <<messages, owner, notified, failed, moved>>
    BY <1>4 DEF SaveThread, SaveNote
  <2>2. /\ \A t \in Servers \ {s} : call'[t] = call[t]
        /\ call'[s].k = 0 /\ call[s].at # "notify"
    <3>1. CASE SaveThread(s)
      BY <3>1 DEF SaveThread, Becomes, Free, Holds, TypeOK
    <3>2. CASE SaveNote(s)
      BY <3>2 DEF SaveNote, Becomes, Free, Holds, TypeOK
    <3>3. QED
      BY <1>4, <3>1, <3>2
  <2>3. QED
    BY <2>1, <2>2 DEF Elsewhere
<1>5. ASSUME NEW s \in Servers, OpenThread(s) \/ PatchThread(s) \/ ReadNote(s) PROVE Elsewhere
  <2>1. \A t \in Servers \ {s} : call'[t] = call[t]
    BY <1>5 DEF OpenThread, PatchThread, ReadNote, Becomes, TypeOK
  <2>2. call'[s].k = 0
    <3>1. CASE OpenThread(s)
      BY <3>1 DEF OpenThread, Becomes, Holds, TypeOK
    <3>2. CASE PatchThread(s)
      BY <3>2 DEF PatchThread, Becomes, Holds, TypeOK
    <3>3. CASE ReadNote(s)
      BY <3>3 DEF ReadNote, Becomes, Holds, TypeOK
    <3>4. QED
      BY <1>5, <3>1, <3>2, <3>3
  <2>3. call[s].at # "notify"
    BY <1>5 DEF OpenThread, PatchThread, ReadNote, Starts
  <2>4. UNCHANGED <<messages, owner, notified, failed, moved>>
    BY <1>5 DEF OpenThread, PatchThread, ReadNote, SameRows, SameHistory
  <2>5. QED
    BY <2>1, <2>2, <2>3, <2>4 DEF Elsewhere
<1>6. ASSUME NEW s \in Servers, MarkOpened(s) PROVE Elsewhere
  <2>1. \A m \in messages' : \E p \in messages : m.id = p.id /\ m.role = p.role
    BY <1>6, MarkedIdentity DEF MarkOpened
  <2>2. QED
    BY <1>6, <2>1 DEF MarkOpened, Becomes, Free, Holds, TypeOK, Elsewhere
<1>7. ASSUME NEW s \in Servers, MarkRead(s) PROVE Elsewhere
  <2>1. \A m \in messages' : \E p \in messages : m.id = p.id /\ m.role = p.role
    BY <1>7, MarkedIdentity DEF MarkRead
  <2>2. QED
    BY <1>7, <2>1 DEF MarkRead, Elsewhere
<1>8. ASSUME NEW s \in Servers, DeleteThread(s) \/ MarkAllRead(s) \/ DeleteNote(s) PROVE Elsewhere
  BY <1>8 DEF DeleteThread, MarkAllRead, DeleteNote, SameHistory, Elsewhere
<1>9. CASE UNCHANGED vars
  BY <1>9 DEF vars, Elsewhere
<1>10. QED
  BY <1>1, <1>2, <1>3, <1>4, <1>5, <1>6, <1>7, <1>8, <1>9 DEF Next, ThreadStep, NoteStep

\* The effect of storing a message.
LEMMA Inserts ==
  ASSUME TypeOK, NEW s \in Servers, InsertMessage(s)
  PROVE  LET c == call[s] IN
         /\ \A t \in Servers \ {s} : call'[t] = call[t]
         /\ c.at = "insert" /\ notified' = notified /\ failed' = failed
         /\ \/ /\ messages' = messages \cup {NewMessage(c.k, c.role)}
               /\ owner' = owner \cup {<<c.k, thread.client>>}
               /\ moved' = IF thread.client # c.thread.client THEN moved \cup {c.k} ELSE moved
               /\ call'[s].at = "notify" /\ call'[s].k = c.k
               /\ call'[s].to = Recipients(c.role, c.thread)
            \/ UNCHANGED <<messages, owner, moved>> /\ call'[s].k = 0 /\ call'[s].at = "free"
  BY DEF InsertMessage, Becomes, TypeOK, Free, Holds

\* The effect of a notification.
LEMMA Notifies ==
  ASSUME TypeOK, NEW s \in Servers, Notify(s)
  PROVE  LET c == call[s] IN \E user \in c.to :
         /\ \A t \in Servers \ {s} : call'[t] = call[t]
         /\ c.at = "notify" /\ notified' = notified \cup {<<c.k, user>>}
         /\ call'[s].at = "notify" /\ call'[s].k = c.k /\ call'[s].to = c.to \ {user}
         /\ notes' = notes \cup {NewNote(c.k, user)}
         /\ UNCHANGED <<messages, owner, failed, moved>>
  BY DEF Notify, Becomes, TypeOK, Call

LEMMA UnpostedStep ==
  ASSUME TypeOK, Numbered, Unposted, [Next]_vars, Numbered'
  PROVE  Unposted'
<1>1. ASSUME NEW s \in Servers, PostBegins(s) PROVE Unposted'
  <2>1. calls \in Nat
    BY DEF TypeOK
  <2>2. \A m \in messages : m.id # calls + 1
    BY <2>1 DEF Numbered, TypeOK, Message
  <2>3. \A o \in owner : o[1] # calls + 1
    BY <2>1 DEF Numbered, TypeOK
  <2>4. \A n \in notified : n[1] # calls + 1
    BY <2>1 DEF Numbered, TypeOK, NoteKeys
  <2>5. QED
    BY <1>1, <2>2, <2>3, <2>4 DEF PostBegins, Unposted
<1>2. ASSUME NEW s \in Servers, InsertMessage(s) PROVE Unposted'
  <2>1. \A t \in Servers \ {s} : call[t].at = "insert" => call[t].k # call[s].k
    BY <1>2, Inserts DEF Numbered
  <2>2. QED
    BY <1>2, <2>1, Inserts DEF Unposted, NewMessage
<1>3. ASSUME NEW s \in Servers, Notify(s) PROVE Unposted'
  <2>1. \A t \in Servers \ {s} : call[t].at = "insert" => call[t].k # call[s].k
    BY <1>3, Notifies DEF Numbered
  <2>2. QED
    BY <1>3, <2>1, Notifies DEF Unposted
<1>4. CASE Elsewhere
  <2>1. \A t \in Servers : call'[t].at = "insert" => call'[t] = call[t]
    BY <1>4 DEF Elsewhere, Numbered
  <2>2. QED
    BY <1>4, <2>1 DEF Elsewhere, Unposted
<1>5. QED
  BY <1>1, <1>2, <1>3, <1>4, StepKinds

-----------------------------------------------------------------------------
(* Who is told of a message. *)

LEMMA AudienceIsRecipients ==
  ASSUME NEW role \in Roles, NEW copy
  PROVE  Recipients(role, copy) = Audience(role, copy.client)
  BY DEF Roles, Recipients, Audience

LEMMA NotifiedElsewhere ==
  ASSUME NEW k, NEW j, NEW user, j # k, notified' = notified \cup {<<k, user>>}
  PROVE  NotifiedOf(j)' = NotifiedOf(j)
  BY DEF NotifiedOf

LEMMA NotifiedHere ==
  ASSUME NEW k, NEW user, notified' = notified \cup {<<k, user>>}
  PROVE  NotifiedOf(k)' = NotifiedOf(k) \cup {user}
<1>1. \A x : x \in NotifiedOf(k)' <=> \E n \in notified' : n[1] = k /\ n[2] = x
  BY DEF NotifiedOf
<1>2. \A x : x \in NotifiedOf(k) <=> \E n \in notified : n[1] = k /\ n[2] = x
  BY DEF NotifiedOf
<1>3. <<k, user>>[1] = k /\ <<k, user>>[2] = user /\ <<k, user>> \in notified'
  OBVIOUS
<1>4. user \in NotifiedOf(k)'
  BY <1>1, <1>3
<1>5. NotifiedOf(k) \subseteq NotifiedOf(k)'
  BY <1>1, <1>2
<1>6. ASSUME NEW x \in NotifiedOf(k)' PROVE x \in NotifiedOf(k) \cup {user}
  <2>1. PICK n \in notified' : n[1] = k /\ n[2] = x
    BY <1>1
  <2>2. CASE n \in notified
    BY <1>2, <2>1, <2>2
  <2>3. CASE n = <<k, user>>
    BY <1>3, <2>1, <2>3
  <2>4. QED
    BY <2>2, <2>3
<1>7. QED
  BY <1>4, <1>5, <1>6

LEMMA IdsArePositive ==
  ASSUME TypeOK
  PROVE  /\ calls \in Nat /\ \A m \in messages : m.id \in 1..MaxCalls /\ m.role \in Roles
         /\ \A t \in Servers : call[t].k \in Nat /\ call[t].role \in Roles
  BY CallFields DEF TypeOK, Message

LEMMA HalfwayStep ==
  ASSUME TypeOK, Numbered, Unposted, Halfway, [Next]_vars, TypeOK', Numbered'
  PROVE  Halfway'
<1> SUFFICES ASSUME NEW m \in messages', NEW o \in owner', NEW t \in Servers,
                    o[1] = m.id, m.id \notin failed' \cup moved', call'[t].k = m.id
             PROVE  NotifiedOf(m.id)' \cup call'[t].to = Audience(m.role, o[2])
  BY DEF Halfway
<1>1. m.id # 0
  BY IdsArePositive DEF TypeOK, Message
<1>2. ASSUME NEW s \in Servers, PostBegins(s)
      PROVE  NotifiedOf(m.id)' \cup call'[t].to = Audience(m.role, o[2])
  <2>1. t # s
    BY <1>2, IdsArePositive DEF PostBegins, Numbered
  <2>2. NotifiedOf(m.id)' = NotifiedOf(m.id)
    BY <1>2 DEF PostBegins, NotifiedOf
  <2>3. QED
    BY <1>2, <2>1, <2>2 DEF PostBegins, Halfway
<1>3. ASSUME NEW s \in Servers, InsertMessage(s)
      PROVE  NotifiedOf(m.id)' \cup call'[t].to = Audience(m.role, o[2])
  <2> DEFINE c == call[s]
  <2>1. NotifiedOf(m.id)' = NotifiedOf(m.id) /\ failed' = failed /\ c.at = "insert"
    BY <1>3, Inserts DEF NotifiedOf
  <2>2. CASE m.id = c.k
    <3>1. m \notin messages /\ o \notin owner
      BY <2>1, <2>2 DEF Unposted
    <3>2. /\ m = NewMessage(c.k, c.role) /\ o = <<c.k, thread.client>>
          /\ call'[s].k = c.k /\ call'[s].to = Recipients(c.role, c.thread)
          /\ c.k \notin moved' => thread.client = c.thread.client
      BY <1>3, <3>1, Inserts
    <3>3. t = s
      BY <1>1, <2>2, <3>2 DEF Numbered
    <3>4. NotifiedOf(m.id) = {}
      BY <2>1, <2>2 DEF Unposted, NotifiedOf
    <3>5. m.role = c.role /\ o[2] = c.thread.client
      BY <2>2, <3>2 DEF NewMessage
    <3>6. QED
      BY <2>1, <3>2, <3>3, <3>4, <3>5, AudienceIsRecipients, IdsArePositive
  <2>3. CASE m.id # c.k
    <3>1. m \in messages /\ o \in owner /\ moved \subseteq moved'
      BY <1>3, <2>3, Inserts DEF NewMessage
    <3>2. t # s
      BY <1>1, <1>3, <2>3, Inserts
    <3>3. QED
      BY <1>3, <2>1, <3>1, <3>2, Inserts DEF Halfway
  <2>4. QED
    BY <2>2, <2>3
<1>4. ASSUME NEW s \in Servers, Notify(s)
      PROVE  NotifiedOf(m.id)' \cup call'[t].to = Audience(m.role, o[2])
  <2> DEFINE c == call[s]
  <2>1. PICK user \in c.to :
         /\ \A u \in Servers \ {s} : call'[u] = call[u]
         /\ c.at = "notify" /\ notified' = notified \cup {<<c.k, user>>}
         /\ call'[s].at = "notify" /\ call'[s].k = c.k /\ call'[s].to = c.to \ {user}
         /\ UNCHANGED <<messages, owner, failed, moved>>
    BY <1>4, Notifies
  <2>2. call[t].k = m.id
    BY <2>1
  <2>3. NotifiedOf(m.id) \cup call[t].to = Audience(m.role, o[2])
    BY <2>1, <2>2 DEF Halfway
  <2>4. CASE t = s
    <3>1. NotifiedOf(m.id)' = NotifiedOf(m.id) \cup {user}
      BY <2>1, <2>2, <2>4, NotifiedHere
    <3>2. QED
      BY <2>1, <2>3, <2>4, <3>1
  <2>5. CASE t # s
    <3>1. m.id # c.k
      BY <1>1, <2>2, <2>5 DEF Numbered
    <3>2. NotifiedOf(m.id)' = NotifiedOf(m.id)
      BY <2>1, <3>1, NotifiedElsewhere
    <3>3. QED
      BY <2>1, <2>3, <2>5, <3>2
  <2>6. QED
    BY <2>4, <2>5
<1>5. CASE Elsewhere
  <2>1. call'[t] = call[t]
    BY <1>1, <1>5 DEF Elsewhere
  <2>2. PICK p \in messages : m.id = p.id /\ m.role = p.role
    BY <1>5 DEF Elsewhere
  <2>3. NotifiedOf(m.id)' = NotifiedOf(m.id)
    BY <1>5 DEF Elsewhere, NotifiedOf
  <2>4. o \in owner /\ m.id \notin failed \cup moved
    BY <1>5 DEF Elsewhere
  <2>5. QED
    BY <2>1, <2>2, <2>3, <2>4 DEF Halfway
<1>6. QED
  BY <1>2, <1>3, <1>4, <1>5, StepKinds

LEMMA ToldStep ==
  ASSUME TypeOK, Numbered, Unposted, Halfway, Told, [Next]_vars, TypeOK'
  PROVE  Told'
<1> SUFFICES ASSUME NEW m \in messages', NEW o \in owner',
                    o[1] = m.id, m.id \notin failed' \cup moved', \A t \in Servers : call'[t].k # m.id
             PROVE  NotifiedOf(m.id)' = Audience(m.role, o[2])
  BY DEF Told
<1>1. m.id # 0
  BY IdsArePositive DEF TypeOK, Message
<1>2. ASSUME NEW s \in Servers, PostBegins(s)
      PROVE  NotifiedOf(m.id)' = Audience(m.role, o[2])
  <2>1. \A t \in Servers : call[t].k # m.id
    BY <1>1, <1>2 DEF PostBegins
  <2>2. NotifiedOf(m.id)' = NotifiedOf(m.id)
    BY <1>2 DEF PostBegins, NotifiedOf
  <2>3. QED
    BY <1>2, <2>1, <2>2 DEF PostBegins, Told
<1>3. ASSUME NEW s \in Servers, InsertMessage(s)
      PROVE  NotifiedOf(m.id)' = Audience(m.role, o[2])
  <2> DEFINE c == call[s]
  <2>1. NotifiedOf(m.id)' = NotifiedOf(m.id) /\ failed' = failed /\ c.at = "insert"
    BY <1>3, Inserts DEF NotifiedOf
  <2>2. m \in messages /\ o \in owner /\ m.id \notin moved
    BY <1>3, Inserts DEF NewMessage
  <2>3. \A t \in Servers : call[t].k # m.id
    BY <1>3, <2>1, <2>2, Inserts DEF Unposted
  <2>4. QED
    BY <2>1, <2>2, <2>3 DEF Told
<1>4. ASSUME NEW s \in Servers, Notify(s)
      PROVE  NotifiedOf(m.id)' = Audience(m.role, o[2])
  <2> DEFINE c == call[s]
  <2>1. PICK user \in c.to :
         /\ \A u \in Servers \ {s} : call'[u] = call[u]
         /\ notified' = notified \cup {<<c.k, user>>} /\ call'[s].k = c.k
         /\ UNCHANGED <<messages, owner, failed, moved>>
    BY <1>4, Notifies
  <2>2. \A t \in Servers : call[t].k # m.id
    BY <2>1
  <2>3. NotifiedOf(m.id)' = NotifiedOf(m.id)
    BY <2>1, <2>2, NotifiedElsewhere
  <2>4. QED
    BY <2>1, <2>2, <2>3 DEF Told
<1>5. CASE Elsewhere
  <2>1. PICK p \in messages : m.id = p.id /\ m.role = p.role
    BY <1>5 DEF Elsewhere
  <2>2. NotifiedOf(m.id)' = NotifiedOf(m.id)
    BY <1>5 DEF Elsewhere, NotifiedOf
  <2>3. o \in owner /\ m.id \notin failed \cup moved
    BY <1>5 DEF Elsewhere
  <2>4. CASE \A t \in Servers : call[t].k # m.id
    BY <2>1, <2>2, <2>3, <2>4 DEF Told
  <2>5. ASSUME NEW t \in Servers, call[t].k = m.id
        PROVE  NotifiedOf(m.id)' = Audience(m.role, o[2])
    <3>1. call[t].at = "notify"
      BY <1>1, <2>1, <2>5 DEF Numbered, Unposted
    <3>2. call[t].to = {}
      BY <1>5, <2>5, <3>1 DEF Elsewhere
    <3>3. NotifiedOf(m.id) \cup call[t].to = Audience(m.role, o[2])
      BY <2>1, <2>3, <2>5 DEF Halfway
    <3>4. QED
      BY <2>2, <3>2, <3>3
  <2>6. QED
    BY <2>4, <2>5
<1>6. QED
  BY <1>2, <1>3, <1>4, <1>5, StepKinds

-----------------------------------------------------------------------------
(* Nobody is told twice. *)

LEMMA StillToNotify ==
  ASSUME TypeOK, Numbered, Unposted, Once, [Next]_vars, Numbered'
  PROVE  \A t \in Servers : call'[t].at = "notify" =>
           \A user \in call'[t].to : <<call'[t].k, user>> \notin notified'
<1> SUFFICES ASSUME NEW t \in Servers, call'[t].at = "notify", NEW user \in call'[t].to
             PROVE  <<call'[t].k, user>> \notin notified'
  OBVIOUS
<1>1. ASSUME NEW s \in Servers, PostBegins(s) PROVE <<call'[t].k, user>> \notin notified'
  BY <1>1 DEF PostBegins, Once
<1>2. ASSUME NEW s \in Servers, InsertMessage(s) PROVE <<call'[t].k, user>> \notin notified'
  <2>1. notified' = notified /\ call[s].at = "insert"
    BY <1>2, Inserts
  <2>2. CASE t = s
    <3>1. call'[t].k = call[s].k
      BY <1>2, <2>2, Inserts
    <3>2. \A n \in notified : n[1] # call[s].k
      BY <2>1 DEF Unposted
    <3>3. QED
      BY <2>1, <3>1, <3>2
  <2>3. CASE t # s
    BY <1>2, <2>1, <2>3, Inserts DEF Once
  <2>4. QED
    BY <2>2, <2>3
<1>3. ASSUME NEW s \in Servers, Notify(s) PROVE <<call'[t].k, user>> \notin notified'
  <2> DEFINE c == call[s]
  <2>1. PICK u \in c.to :
         /\ \A r \in Servers \ {s} : call'[r] = call[r]
         /\ c.at = "notify" /\ notified' = notified \cup {<<c.k, u>>}
         /\ call'[s].k = c.k /\ call'[s].to = c.to \ {u}
    BY <1>3, Notifies
  <2>2. CASE t = s
    BY <2>1, <2>2 DEF Once
  <2>3. CASE t # s
    <3>1. call'[t].k # c.k
      BY <2>1, <2>3 DEF Numbered
    <3>2. QED
      BY <2>1, <2>3, <3>1 DEF Once
  <2>4. QED
    BY <2>2, <2>3
<1>4. CASE Elsewhere
  <2>1. call'[t] = call[t]
    BY <1>4 DEF Elsewhere, Numbered
  <2>2. QED
    BY <1>4, <2>1 DEF Elsewhere, Once
<1>5. QED
  BY <1>1, <1>2, <1>3, <1>4, StepKinds

NotesAreOne ==
  /\ \A n \in notes : Key(n) \in notified
  /\ \A n, p \in notes : Key(n) = Key(p) => n = p
  /\ gone \subseteq {ThreadKey} \cup notified

LEMMA NotesStep ==
  ASSUME TypeOK, Once, [Next]_vars
  PROVE  NotesAreOne'
<1>1. NotesAreOne
  BY DEF Once, NotesAreOne
<1>2. ASSUME NEW s \in Servers, Notify(s) PROVE NotesAreOne'
  <2> DEFINE c == call[s]
  <2>1. PICK user \in c.to :
         /\ c.at = "notify" /\ notified' = notified \cup {<<c.k, user>>}
         /\ notes' = notes \cup {NewNote(c.k, user)}
    BY <1>2, Notifies
  <2>2. Key(NewNote(c.k, user)) = <<c.k, user>>
    BY DEF Key, NewNote
  <2>3. <<c.k, user>> \notin notified
    BY <2>1 DEF Once
  <2>4. gone' = gone
    BY <1>2 DEF Notify
  <2>5. QED
    BY <1>1, <2>1, <2>2, <2>3, <2>4 DEF NotesAreOne
<1>3. ASSUME NEW s \in Servers, SaveNote(s) PROVE NotesAreOne'
  <2> DEFINE key == call[s].note
             saved == [of |-> key[1], to |-> key[2], read |-> TRUE]
  <2>1. key \in notified
    BY <1>3 DEF SaveNote, Once
  <2>2. Key(saved) = key
    <3>1. key \in NoteKeys
      BY <2>1 DEF TypeOK
    <3>2. QED
      BY <3>1 DEF Key, NoteKeys
  <2>3. notes' = {n \in notes : Key(n) # key} \cup {saved} /\ notified' = notified /\ gone' = gone
    BY <1>3 DEF SaveNote
  <2>4. QED
    BY <1>1, <2>1, <2>2, <2>3 DEF NotesAreOne
<1>4. ASSUME NEW s \in Servers, MarkAllRead(s) PROVE NotesAreOne'
  <2>1. PICK user : notes' = {IF n.to = user THEN [n EXCEPT !.read = TRUE] ELSE n : n \in notes}
    BY <1>4 DEF MarkAllRead
  <2> DEFINE Marked(n) == IF n.to = user THEN [n EXCEPT !.read = TRUE] ELSE n
  <2>2. \A n \in notes : Key(Marked(n)) = Key(n)
    BY DEF Key, TypeOK, Notification
  <2>3. \A n \in notes' : \E p \in notes : n = Marked(p)
    BY <2>1
  <2>4. notified' = notified /\ gone' = gone
    BY <1>4 DEF MarkAllRead, SameHistory
  <2> HIDE DEF Marked
  <2>5. QED
    BY <1>1, <2>2, <2>3, <2>4 DEF NotesAreOne
<1>5. ASSUME NEW s \in Servers, DeleteNote(s) PROVE NotesAreOne'
  BY <1>1, <1>5 DEF DeleteNote, NotesAreOne
<1>6. ASSUME NEW s \in Servers, DeleteThread(s) PROVE NotesAreOne'
  BY <1>1, <1>6 DEF DeleteThread, NotesAreOne
<1>7. CASE UNCHANGED <<notes, notified, gone>>
  BY <1>1, <1>7 DEF NotesAreOne
<1>8. QED
  BY <1>2, <1>3, <1>4, <1>5, <1>6, <1>7 DEF Next, ThreadStep, NoteStep, vars, CreateThread, Reply,
     InsertMessage, NotifyRaises, TouchThread, OpenThread, MarkOpened, MarkRead, PatchThread,
     SaveThread, ReadNote, SameRows, SameHistory

HeldIsNotified == \A t \in Servers : call[t].at = "save note" => call[t].note \in notified

LEMMA NotesHeld ==
  ASSUME TypeOK, Once, [Next]_vars
  PROVE  HeldIsNotified'
<1>1. notified \subseteq notified'
  BY DEF Next, ThreadStep, NoteStep, vars, CreateThread, Reply, InsertMessage, Notify, NotifyRaises,
     TouchThread, OpenThread, MarkOpened, MarkRead, PatchThread, SaveThread, DeleteThread, ReadNote,
     SaveNote, MarkAllRead, DeleteNote, SameRows, SameHistory
<1>2. HeldIsNotified
  BY DEF Once, HeldIsNotified
<1>3. ASSUME NEW s \in Servers, NEW next, Becomes(s, next)
      PROVE  call'[s] = next /\ \A t \in Servers \ {s} : call'[t] = call[t]
  BY <1>3 DEF TypeOK, Becomes
<1>4. ASSUME NEW s \in Servers, \A t \in Servers \ {s} : call'[t] = call[t],
             call'[s].at = "save note" => call'[s].note \in notified'
      PROVE  HeldIsNotified'
  BY <1>1, <1>2, <1>4 DEF HeldIsNotified
<1>5. ASSUME NEW s \in Servers, NEW at, NEW k, NEW role, NEW copy, at # "save note",
             Becomes(s, Holds(at, k, role, copy))
      PROVE  HeldIsNotified'
  <2>1. Holds(at, k, role, copy).at = at
    BY DEF Holds
  <2>2. QED
    BY <1>3, <1>4, <1>5, <2>1
<1>6. ASSUME NEW s \in Servers, CreateThread(s) PROVE HeldIsNotified'
  <2>1. PICK whose, role : Becomes(s, Holds("insert", 1, role, NewThread(whose)))
    BY <1>6 DEF CreateThread
  <2>2. QED
    BY <1>5, <2>1
<1>7. ASSUME NEW s \in Servers, Reply(s) PROVE HeldIsNotified'
  <2>1. PICK role : Becomes(s, Holds("insert", calls + 1, role, thread))
    BY <1>7 DEF Reply, Read
  <2>2. QED
    BY <1>5, <2>1
<1>8. ASSUME NEW s \in Servers, InsertMessage(s) PROVE HeldIsNotified'
  <2>1. call'[s].at # "save note" /\ \A t \in Servers \ {s} : call'[t] = call[t]
    BY <1>8, Inserts
  <2>2. QED
    BY <1>4, <2>1
<1>9. ASSUME NEW s \in Servers, Notify(s) PROVE HeldIsNotified'
  <2>1. call'[s].at # "save note" /\ \A t \in Servers \ {s} : call'[t] = call[t]
    BY <1>9, Notifies
  <2>2. QED
    BY <1>4, <2>1
<1>10. ASSUME NEW s \in Servers, Becomes(s, Free) PROVE HeldIsNotified'
  BY <1>5, <1>10 DEF Free
<1>11. ASSUME NEW s \in Servers,
              NotifyRaises(s) \/ TouchThread(s) \/ MarkOpened(s) \/ SaveThread(s) \/ SaveNote(s)
       PROVE  HeldIsNotified'
  <2>1. Becomes(s, Free)
    BY <1>11 DEF NotifyRaises, TouchThread, MarkOpened, SaveThread, SaveNote
  <2>2. QED
    BY <1>10, <2>1
<1>12. ASSUME NEW s \in Servers, OpenThread(s) PROVE HeldIsNotified'
  <2>1. PICK role, list : Becomes(s, [Holds("mark", 0, role, thread) EXCEPT !.list = list])
    BY <1>12 DEF OpenThread
  <2>2. [Holds("mark", 0, role, thread) EXCEPT !.list = list].at = "mark"
    BY DEF Holds
  <2>3. QED
    BY <1>3, <1>4, <2>1, <2>2
<1>13. ASSUME NEW s \in Servers, PatchThread(s) PROVE HeldIsNotified'
  <2>1. PICK copy : Becomes(s, Holds("save", 0, "admin", copy))
    BY <1>13 DEF PatchThread
  <2>2. QED
    BY <1>5, <2>1
<1>14. ASSUME NEW s \in Servers, ReadNote(s) PROVE HeldIsNotified'
  <2>1. PICK n \in notes : Becomes(s, [Holds("save note", 0, "client", NoThread) EXCEPT !.note = Key(n)])
    BY <1>14 DEF ReadNote
  <2>2. [Holds("save note", 0, "client", NoThread) EXCEPT !.note = Key(n)].note = Key(n)
    BY DEF Holds
  <2>3. Key(n) \in notified
    BY <2>1 DEF Once
  <2>4. QED
    BY <1>1, <1>3, <1>4, <2>1, <2>2, <2>3
<1>15. CASE call' = call
  BY <1>1, <1>2, <1>15 DEF HeldIsNotified
<1>16. QED
  BY <1>6, <1>7, <1>8, <1>9, <1>11, <1>12, <1>13, <1>14, <1>15 DEF Next, ThreadStep, NoteStep, vars,
     MarkRead, DeleteThread, MarkAllRead, DeleteNote

LEMMA NothingGoneYet ==
  ASSUME TypeOK, Once, [Next]_vars
  PROVE  calls' = 0 => gone' = {}
<1>1. calls \in Nat
  BY DEF TypeOK
<1>2. ASSUME NEW s \in Servers, DeleteThread(s) \/ DeleteNote(s) PROVE calls' # 0
  BY <1>1, <1>2 DEF DeleteThread, DeleteNote, Starts
<1>3. ASSUME NEW s \in Servers,
             CreateThread(s) \/ Reply(s) \/ OpenThread(s) \/ MarkRead(s) \/ PatchThread(s)
             \/ ReadNote(s) \/ MarkAllRead(s)
      PROVE  calls' # 0
  <2>1. PICK kind : Starts(s, kind)
    BY <1>3 DEF CreateThread, Reply, OpenThread, MarkRead, PatchThread, ReadNote, MarkAllRead
  <2>2. QED
    BY <1>1, <2>1 DEF Starts
<1>4. ASSUME NEW s \in Servers,
             InsertMessage(s) \/ Notify(s) \/ NotifyRaises(s) \/ TouchThread(s) \/ MarkOpened(s)
             \/ SaveThread(s) \/ SaveNote(s)
      PROVE  calls' = calls /\ gone' = gone
  BY <1>4 DEF InsertMessage, Notify, NotifyRaises, TouchThread, MarkOpened, SaveThread, SaveNote, SameHistory
<1>5. CASE UNCHANGED vars
  BY <1>5 DEF vars, Once
<1>6. QED
  BY <1>2, <1>3, <1>4, <1>5 DEF Next, ThreadStep, NoteStep, Once

LEMMA OnceStep ==
  ASSUME TypeOK, Numbered, Unposted, Once, [Next]_vars, Numbered'
  PROVE  Once'
  BY StillToNotify, NotesStep, NotesHeld, NothingGoneYet
     DEF Once, NotesAreOne, HeldIsNotified

-----------------------------------------------------------------------------
(* The invariant. *)

LEMMA Initially == Init => MessagesInv
<1> SUFFICES ASSUME Init PROVE MessagesInv
  OBVIOUS
<1>1. TypeOK
  <2>1. thread \in MessageThread
    BY DEF Init, MessageThread, NoThread, NewThread
  <2>2. call \in [Servers -> Call]
    BY FreeIsCall DEF Init
  <2>3. QED
    BY <2>1, <2>2, ZeroIsNumber DEF Init, TypeOK
<1>2. \A s \in Servers : call[s].k = 0 /\ call[s].at = "free"
  BY DEF Init, Free, Holds
<1>3. messages = {} /\ notes = {} /\ owner = {} /\ notified = {} /\ gone = {} /\ calls = 0
  BY DEF Init
<1>4. Numbered
  BY <1>2, <1>3 DEF Numbered
<1>5. Unposted /\ Halfway /\ Told
  BY <1>2, <1>3 DEF Unposted, Halfway, Told
<1>6. Once
  BY <1>2, <1>3 DEF Once
<1>7. ReadWasShown /\ DeletedStaysDeleted
  BY <1>3 DEF ReadWasShown, DeletedStaysDeleted
<1>8. QED
  BY <1>1, <1>4, <1>5, <1>6, <1>7 DEF MessagesInv

LEMMA TypeStep ==
  ASSUME TypeOK, Numbered, Once, [Next]_vars
  PROVE  TypeOK'
<1>1. CASE UNCHANGED vars
  BY <1>1 DEF vars, TypeOK
<1>2. QED
  BY <1>1, PostingTypes, ThreadTypes, NoteTypes DEF Next, ThreadStep

LEMMA Invariance == MessagesInv /\ [Next]_vars => MessagesInv'
<1> SUFFICES ASSUME MessagesInv, [Next]_vars PROVE MessagesInv'
  OBVIOUS
<1>1. TypeOK' /\ Numbered'
  BY TypeStep, NumberedStep DEF MessagesInv
<1>2. QED
  BY <1>1, UnpostedStep, HalfwayStep, OnceStep, ToldStep, ShownStep, DeletedStep DEF MessagesInv

\* Requests, messages and notifications agree in every reachable state: each
\* message that is being posted is for those already notified and those to be.
THEOREM MessagesInductive == Spec => []MessagesInv
  BY Initially, Invariance, PTL DEF Spec

\* Every reachable state is well-typed.
THEOREM MessagesTypeCorrect == Spec => []TypeOK
<1>1. MessagesInv => TypeOK
  BY DEF MessagesInv
<1>2. QED
  BY <1>1, MessagesInductive, PTL

\* create_message_notification tells those a message is for, and nobody else.
THEOREM RecipientsAreTold == Spec => []EveryoneNotified
<1>1. MessagesInv => EveryoneNotified
  BY DEF MessagesInv, Told, NotifiedOf, Audience, EveryoneNotified
<1>2. QED
  BY <1>1, MessagesInductive, PTL

\* Nothing is marked read that was neither shown nor dismissed, but for what
\* arrives while a list is on its way.
THEOREM ReadingIsShowing == Spec => []ReadWasShown
<1>1. MessagesInv => ReadWasShown
  BY DEF MessagesInv
<1>2. QED
  BY <1>1, MessagesInductive, PTL

\* Only a full save of an older copy undoes a deletion.
THEOREM DeletionLasts == Spec => []DeletedStaysDeleted
<1>1. MessagesInv => DeletedStaysDeleted
  BY DEF MessagesInv
<1>2. QED
  BY <1>1, MessagesInductive, PTL
-----------------------------------------------------------------------------
(*****************************************************************************)
(* ProjectFiles: uploads and reviews.                                        *)
(*****************************************************************************)
\* Rows and objects bear the number of the request that made them; who holds a
\* copy holds it of a row with the object it has.
OwnObject(f) == f.object \in {0, f.id}
SameObject(f, g) == f.id = g.id => f.object = g.object

FilesNumbered ==
    /\ \A f \in files : f.id <= opened /\ OwnObject(f)
    /\ \A f, g \in files : f.id = g.id => f = g
    /\ \A h \in Handlers : task[h].at # "rest" =>
         /\ task[h].copy.id \in 1..opened /\ OwnObject(task[h].copy)
         /\ \A f \in files : SameObject(f, task[h].copy)
    /\ \A h, k \in Handlers : task[h].at # "rest" /\ task[k].at # "rest"
                                => SameObject(task[h].copy, task[k].copy)
    /\ \A o \in objects : o <= opened

\* A row that is being made is nobody else's, and has no review.
Making(h) == task[h].at \in {"store", "insert"}

Uploads ==
    \A h \in Handlers : Making(h) =>
      /\ \A f \in files : f.id # task[h].copy.id
      /\ \A k \in Handlers \ {h} : task[k].at # "rest" => task[k].copy.id # task[h].copy.id
      /\ task[h].copy.review = 0 /\ task[h].copy.by = "nobody"
      /\ lastReview[task[h].copy.id] = 0

\* Where the object of a row is, by the place of a request.
Stored ==
    \A h \in Handlers :
      /\ task[h].at = "store" => task[h].copy.object # 0 /\ task[h].copy.object \notin objects
      /\ task[h].at = "insert" /\ task[h].copy.object # 0 => task[h].copy.object \in objects
      /\ task[h].at = "delete row" => task[h].copy.object \notin objects

\* A copy has the review it was read with, or a new one.
Attributed ==
    /\ reviewOf[0] = "nobody"
    /\ \A k \in 1..MaxOps : k > opened => lastReview[k] = 0
    /\ \A k \in 1..MaxOps : lastReview[k] <= opened
    /\ \A f \in files : f.review <= opened /\ f.by = reviewOf[f.review]
    /\ \A h \in Handlers : task[h].at = "save" =>
         /\ task[h].copy.review <= opened
         /\ task[h].copy.by = reviewOf[task[h].copy.review]

NewOrLast(f) ==
    \/ f.review = lastReview[f.id]
    \/ reviewOf[f.review] # "nobody" /\ f.review > lastReview[f.id]

Current ==
    /\ \A f \in files : f.review = lastReview[f.id] \/ f.id \in overwritten \cup reborn
    /\ \A h \in Handlers : task[h].at = "save" /\ ~task[h].newer =>
         NewOrLast(task[h].copy) \/ task[h].copy.id \in overwritten \cup reborn

\* The inductive invariant.
FilesInv ==
    /\ FilesTypeOK /\ FilesNumbered /\ Uploads /\ Stored /\ Attributed /\ Current
    /\ RowsHaveObjects /\ ObjectsHaveRows

-----------------------------------------------------------------------------
(* What is held, and who holds it. *)

LEMMA FileFields ==
  ASSUME NEW f \in ProjectFile
  PROVE  /\ f.id \in 1..MaxOps /\ f.object \in 0..MaxOps /\ f.text \in 0..MaxOps
         /\ f.review \in 0..MaxOps /\ f.by \in Reviewers \cup {"nobody"}
  BY DEF ProjectFile

LEMMA DoingFields ==
  ASSUME NEW at, NEW copy
  PROVE  Doing(at, copy).at = at /\ Doing(at, copy).copy = copy /\ ~Doing(at, copy).newer
  BY DEF Doing

LEMMA DoingIsTask ==
  ASSUME NEW at \in {"rest", "store", "insert", "save", "delete object", "delete row"},
         NEW copy \in ProjectFile \cup {NoFile}
  PROVE  Doing(at, copy) \in Task
  BY DEF Doing, Task

LEMMA RestIsTask == Rest \in Task /\ Rest.at = "rest"
  BY DoingIsTask, DoingFields DEF Rest

LEMMA TaskFields ==
  ASSUME NEW t \in Task
  PROVE  /\ t.at \in {"rest", "store", "insert", "save", "delete object", "delete row"}
         /\ t.copy \in ProjectFile \cup {NoFile} /\ t.newer \in BOOLEAN
  BY DEF Task

LEMMA Turned ==
  ASSUME FilesTypeOK, NEW h \in Handlers, NEW next, Turns(h, next)
  PROVE  task'[h] = next /\ \A k \in Handlers \ {h} : task'[k] = task[k]
  BY DEF FilesTypeOK, Turns

LEMMA TurnedTypes ==
  ASSUME FilesTypeOK, NEW h \in Handlers, NEW next \in Task, Turns(h, next)
  PROVE  task' \in [Handlers -> Task]
  BY DEF FilesTypeOK, Turns

\* Who is at work holds a row.
LEMMA AtWork ==
  ASSUME FilesTypeOK, FilesNumbered, NEW h \in Handlers, task[h].at # "rest"
  PROVE  /\ task[h].copy \in ProjectFile /\ task[h].copy.id \in 1..opened
         /\ task[h].copy.id \in 1..MaxOps /\ OwnObject(task[h].copy)
<1>1. task[h].copy \in ProjectFile \cup {NoFile}
  BY TaskFields DEF FilesTypeOK
<1>2. task[h].copy.id \in 1..opened /\ OwnObject(task[h].copy)
  BY DEF FilesNumbered
<1>3. NoFile.id = 0
  BY DEF NoFile, NewFile
<1>4. 0 \notin 1..opened
  BY DEF FilesTypeOK
<1>5. task[h].copy \in ProjectFile
  BY <1>1, <1>2, <1>3, <1>4
<1>6. QED
  BY <1>2, <1>5, FileFields

LEMMA Numbers ==
  ASSUME FilesTypeOK
  PROVE  opened \in Nat /\ MaxOps \in Nat /\ opened <= MaxOps
  BY FilesAssumption DEF FilesTypeOK

LEMMA Opened ==
  ASSUME FilesTypeOK, NEW h \in Handlers, Opens(h)
  PROVE  /\ task[h].at = "rest" /\ opened' = opened + 1
         /\ opened + 1 \in 1..MaxOps /\ opened' \in 0..MaxOps
  BY Numbers DEF Opens

\* A request that makes a row: with an upload to store first, or without.
LEMMA Creates ==
  ASSUME NEW h \in Handlers, Create(h)
  PROVE  \E object, at :
           /\ <<object, at>> \in {<<0, "insert">>, <<opened + 1, "store">>}
           /\ Turns(h, Doing(at, NewFile(opened + 1, object)))
<1>1. PICK r \in Submission :
        LET object == IF r.upload = "none" THEN 0 ELSE opened + 1
        IN  Turns(h, Doing(IF object = 0 THEN "insert" ELSE "store", NewFile(opened + 1, object)))
  BY DEF Create
<1> DEFINE object == IF r.upload = "none" THEN 0 ELSE opened + 1
<1>2. CASE object = 0
  BY <1>1, <1>2
<1>3. CASE object # 0
  <2>1. Turns(h, Doing("store", NewFile(opened + 1, opened + 1)))
    BY <1>1, <1>3
  <2>2. QED
    BY <2>1
<1>4. QED
  BY <1>2, <1>3

-----------------------------------------------------------------------------
(* Types. *)

LEMMA FilesTypeStep ==
  ASSUME FilesTypeOK, FilesNumbered, Stored, [FilesNext]_fileVars
  PROVE  FilesTypeOK'
<1>1. ASSUME NEW h \in Handlers, Create(h) PROVE FilesTypeOK'
  <2>1. PICK object, at :
          /\ <<object, at>> \in {<<0, "insert">>, <<opened + 1, "store">>}
          /\ Turns(h, Doing(at, NewFile(opened + 1, object)))
    BY <1>1, Creates
  <2>2. NewFile(opened + 1, object) \in ProjectFile
    BY <1>1, <2>1, Opened, Numbers DEF Create, NewFile, ProjectFile
  <2>3. task' \in [Handlers -> Task]
    BY <2>1, <2>2, DoingIsTask, TurnedTypes
  <2>4. QED
    BY <1>1, <2>3, Opened DEF Create, SameFacts, FilesTypeOK
<1>2. ASSUME NEW h \in Handlers, Store(h) PROVE FilesTypeOK'
  <2>1. task[h].copy \in ProjectFile
    BY <1>2, AtWork DEF Store
  <2>2. task' \in [Handlers -> Task]
    BY <1>2, <2>1, DoingIsTask, TurnedTypes DEF Store
  <2>3. task[h].copy.object \in 1..MaxOps
    BY <1>2, AtWork DEF Store, Stored, OwnObject
  <2>4. QED
    BY <1>2, <2>2, <2>3 DEF Store, SameFacts, FilesTypeOK
<1>3. ASSUME NEW h \in Handlers, InsertFile(h) PROVE FilesTypeOK'
  <2>1. task[h].copy \in ProjectFile /\ task[h].copy.object \in 0..MaxOps
    BY <1>3, AtWork, FileFields DEF InsertFile
  <2>2. task' \in [Handlers -> Task]
    BY <1>3, RestIsTask, TurnedTypes DEF InsertFile
  <2>3. files' \subseteq ProjectFile /\ refused' \subseteq 0..MaxOps
    BY <1>3, <2>1 DEF InsertFile, FilesTypeOK
  <2>4. QED
    BY <1>3, <2>2, <2>3 DEF InsertFile, FilesTypeOK
<1>4. ASSUME NEW h \in Handlers, Describe(h) PROVE FilesTypeOK'
  <2>1. PICK f \in files : Turns(h, Doing("save", [f EXCEPT !.text = opened + 1]))
    BY <1>4 DEF Describe
  <2>2. [f EXCEPT !.text = opened + 1] \in ProjectFile
    BY <1>4, Opened DEF Describe, FilesTypeOK, ProjectFile
  <2>3. task' \in [Handlers -> Task]
    BY <2>1, <2>2, DoingIsTask, TurnedTypes
  <2>4. QED
    BY <1>4, <2>3, Opened DEF Describe, SameFacts, FilesTypeOK
<1>5. ASSUME NEW h \in Handlers, Review(h) PROVE FilesTypeOK'
  <2>1. PICK f \in files, reviewer \in Reviewers :
          /\ Turns(h, Doing("save", Reviewed(f, reviewer, opened + 1)))
          /\ reviewOf' = [reviewOf EXCEPT ![opened + 1] = reviewer]
    BY <1>5 DEF Review
  <2>2. Reviewed(f, reviewer, opened + 1) \in ProjectFile
    BY <1>5, Opened, FileFields DEF Review, FilesTypeOK, ProjectFile, Reviewed
  <2>3. task' \in [Handlers -> Task]
    BY <2>1, <2>2, DoingIsTask, TurnedTypes
  <2>4. reviewOf' \in [0..MaxOps -> Reviewers \cup {"nobody"}]
    BY <2>1 DEF FilesTypeOK
  <2>5. QED
    BY <1>5, <2>3, <2>4, Opened DEF Review, FilesTypeOK
<1>6. ASSUME NEW h \in Handlers, SaveFile(h) PROVE FilesTypeOK'
  <2> DEFINE f == task[h].copy
  <2>1. f \in ProjectFile /\ f.id \in 1..MaxOps /\ f.review \in 0..MaxOps
    BY <1>6, AtWork, FileFields DEF SaveFile
  <2>2. task' \in [Handlers -> Task]
    <3>1. \A g \in Handlers : [task[g] EXCEPT !.newer = TRUE] \in Task
      BY DEF FilesTypeOK, Task
    <3>2. QED
      BY <1>6, <3>1, RestIsTask DEF SaveFile, FilesTypeOK
  <2>3. files' \subseteq ProjectFile
    BY <1>6, <2>1 DEF SaveFile, FilesTypeOK
  <2>4. lastReview' \in [1..MaxOps -> 0..MaxOps]
    BY <1>6, <2>1 DEF SaveFile, FilesTypeOK
  <2>5. reborn' \subseteq 1..MaxOps /\ overwritten' \subseteq 1..MaxOps
    BY <1>6, <2>1 DEF SaveFile, FilesTypeOK
  <2>6. QED
    BY <1>6, <2>2, <2>3, <2>4, <2>5 DEF SaveFile, FilesTypeOK
<1>7. ASSUME NEW h \in Handlers, Destroy(h) PROVE FilesTypeOK'
  <2>1. PICK f \in files, at \in {"delete row", "delete object"} : Turns(h, Doing(at, f))
    BY <1>7 DEF Destroy
  <2>2. task' \in [Handlers -> Task]
    BY <2>1, DoingIsTask, TurnedTypes DEF FilesTypeOK
  <2>3. QED
    BY <1>7, <2>2, Opened DEF Destroy, SameFacts, FilesTypeOK
<1>8. ASSUME NEW h \in Handlers, DeleteObject(h) PROVE FilesTypeOK'
  <2>1. task[h].copy \in ProjectFile
    BY <1>8, AtWork DEF DeleteObject
  <2>2. task' \in [Handlers -> Task]
    BY <1>8, <2>1, DoingIsTask, TurnedTypes DEF DeleteObject
  <2>3. QED
    BY <1>8, <2>2 DEF DeleteObject, SameFacts, FilesTypeOK
<1>9. ASSUME NEW h \in Handlers, DeleteFile(h) \/ Dies(h) PROVE FilesTypeOK'
  <2>1. task[h].copy.id \in 1..MaxOps
    BY <1>9, AtWork DEF DeleteFile, Dies
  <2>2. task' \in [Handlers -> Task]
    BY <1>9, RestIsTask, TurnedTypes DEF DeleteFile, Dies
  <2>3. QED
    BY <1>9, <2>1, <2>2 DEF DeleteFile, Dies, SameFacts, FilesTypeOK
<1>10. CASE UNCHANGED fileVars
  BY <1>10 DEF fileVars, FilesTypeOK
<1>11. QED
  BY <1>1, <1>2, <1>3, <1>4, <1>5, <1>6, <1>7, <1>8, <1>9, <1>10 DEF FilesNext

-----------------------------------------------------------------------------
(* What the steps change. *)

\* A request that makes a row takes a new number.
LEMMA Beginning ==
  ASSUME FilesTypeOK, NEW h \in Handlers, Create(h)
  PROVE  \E object, at :
           /\ <<object, at>> \in {<<0, "insert">>, <<opened + 1, "store">>}
           /\ task[h].at = "rest" /\ opened' = opened + 1 /\ opened + 1 \in 1..MaxOps
           /\ task'[h] = Doing(at, NewFile(opened + 1, object))
           /\ \A k \in Handlers \ {h} : task'[k] = task[k]
           /\ UNCHANGED <<files, objects>> /\ SameFacts
<1>1. PICK object, at :
        /\ <<object, at>> \in {<<0, "insert">>, <<opened + 1, "store">>}
        /\ Turns(h, Doing(at, NewFile(opened + 1, object)))
  BY Creates
<1>2. task[h].at = "rest" /\ opened' = opened + 1 /\ opened + 1 \in 1..MaxOps
  BY Opened DEF Create
<1>3. UNCHANGED <<files, objects>> /\ SameFacts
  BY DEF Create
<1>4. QED
  BY <1>1, <1>2, <1>3, Turned

\* The other requests begin with a copy of a row.
Copies(h, f, copy, at) ==
    /\ copy.id = f.id /\ copy.object = f.object
    /\ at \in {"save", "delete object", "delete row"} /\ (at = "delete row" => copy.object = 0)
    /\ task'[h].at = at /\ task'[h].copy = copy
    /\ \A k \in Handlers \ {h} : task'[k] = task[k]

LEMMA CopyHeld ==
  ASSUME FilesTypeOK, NEW h \in Handlers, NEW f, NEW copy, NEW at, Turns(h, Doing(at, copy)),
         copy.id = f.id /\ copy.object = f.object,
         at \in {"save", "delete object", "delete row"} /\ (at = "delete row" => copy.object = 0)
  PROVE  Copies(h, f, copy, at)
<1> DEFINE next == Doing(at, copy)
<1>1. task'[h] = next /\ \A k \in Handlers \ {h} : task'[k] = task[k]
  BY Turned
<1>2. next.at = at /\ next.copy = copy
  BY DEF Doing
<1> HIDE DEF next
<1>3. task'[h].at = at /\ task'[h].copy = copy
  BY <1>1, <1>2
<1>4. QED
  BY <1>1, <1>3 DEF Copies

LEMMA Copying ==
  ASSUME FilesTypeOK, NEW h \in Handlers, Describe(h) \/ Review(h) \/ Destroy(h)
  PROVE  /\ \E f \in files : \E copy, at : Copies(h, f, copy, at)
         /\ task[h].at = "rest" /\ opened' = opened + 1 /\ opened + 1 \in 1..MaxOps
         /\ UNCHANGED <<files, objects, lastReview, overwritten, refused, cutShort, reborn>>
<1>1. task[h].at = "rest" /\ opened' = opened + 1 /\ opened + 1 \in 1..MaxOps
  BY Opened DEF Describe, Review, Destroy
<1>2. UNCHANGED <<files, objects, lastReview, overwritten, refused, cutShort, reborn>>
  BY DEF Describe, Review, Destroy, SameFacts
<1>3. ASSUME Describe(h) PROVE \E f \in files : \E copy, at : Copies(h, f, copy, at)
  <2>1. PICK f \in files : Turns(h, Doing("save", [f EXCEPT !.text = opened + 1]))
    BY <1>3 DEF Describe
  <2>2. [f EXCEPT !.text = opened + 1].id = f.id /\ [f EXCEPT !.text = opened + 1].object = f.object
    BY DEF FilesTypeOK, ProjectFile
  <2>3. Copies(h, f, [f EXCEPT !.text = opened + 1], "save")
    BY <2>1, <2>2, CopyHeld
  <2>4. QED
    BY <2>3
<1>4. ASSUME Review(h) PROVE \E f \in files : \E copy, at : Copies(h, f, copy, at)
  <2>1. PICK f \in files, reviewer \in Reviewers :
          Turns(h, Doing("save", Reviewed(f, reviewer, opened + 1)))
    BY <1>4 DEF Review
  <2>2. /\ Reviewed(f, reviewer, opened + 1).id = f.id
        /\ Reviewed(f, reviewer, opened + 1).object = f.object
    BY DEF Reviewed
  <2>3. Copies(h, f, Reviewed(f, reviewer, opened + 1), "save")
    BY <2>1, <2>2, CopyHeld
  <2>4. QED
    BY <2>3
<1>5. ASSUME Destroy(h) PROVE \E f \in files : \E copy, at : Copies(h, f, copy, at)
  <2>1. PICK f \in files :
          Turns(h, Doing(IF f.object = 0 THEN "delete row" ELSE "delete object", f))
    BY <1>5 DEF Destroy
  <2>2. CASE f.object = 0
    <3>1. Copies(h, f, f, "delete row")
      BY <2>1, <2>2, CopyHeld
    <3>2. QED
      BY <3>1
  <2>3. CASE f.object # 0
    <3>1. Copies(h, f, f, "delete object")
      BY <2>1, <2>3, CopyHeld
    <3>2. QED
      BY <3>1
  <2>4. QED
    BY <2>2, <2>3
<1>6. QED
  BY <1>1, <1>2, <1>3, <1>4, <1>5

\* Storing and deleting an object are followed by the other half.
LEMMA Storing ==
  ASSUME FilesTypeOK, NEW h \in Handlers, Store(h)
  PROVE  /\ task[h].at = "store" /\ task'[h].at = "insert" /\ task'[h].copy = task[h].copy
         /\ \A k \in Handlers \ {h} : task'[k] = task[k]
         /\ objects' = objects \cup {task[h].copy.object}
         /\ UNCHANGED <<files, opened>> /\ SameFacts
<1> DEFINE next == Doing("insert", task[h].copy)
<1>1. Turns(h, next)
  BY DEF Store
<1>2. task'[h] = next /\ \A k \in Handlers \ {h} : task'[k] = task[k]
  BY <1>1, Turned
<1>3. next.at = "insert" /\ next.copy = task[h].copy
  BY DoingFields
<1> HIDE DEF next
<1>4. QED
  BY <1>2, <1>3 DEF Store

LEMMA Deleting ==
  ASSUME FilesTypeOK, NEW h \in Handlers, DeleteObject(h)
  PROVE  /\ task[h].at = "delete object" /\ task'[h].at = "delete row" /\ task'[h].copy = task[h].copy
         /\ \A k \in Handlers \ {h} : task'[k] = task[k]
         /\ objects' = objects \ {task[h].copy.object}
         /\ UNCHANGED <<files, opened>> /\ SameFacts
<1> DEFINE next == Doing("delete row", task[h].copy)
<1>1. Turns(h, next)
  BY DEF DeleteObject
<1>2. task'[h] = next /\ \A k \in Handlers \ {h} : task'[k] = task[k]
  BY <1>1, Turned
<1>3. next.at = "delete row" /\ next.copy = task[h].copy
  BY DoingFields
<1> HIDE DEF next
<1>4. QED
  BY <1>2, <1>3 DEF DeleteObject

\* A request ends by inserting a row or being refused, by deleting it or dying.
LEMMA Ending ==
  ASSUME FilesTypeOK, NEW h \in Handlers, InsertFile(h) \/ DeleteFile(h) \/ Dies(h)
  PROVE  /\ task[h].at = IF InsertFile(h) THEN "insert" ELSE "delete row"
         /\ task'[h].at = "rest"
         /\ \A k \in Handlers \ {h} : task'[k] = task[k]
         /\ UNCHANGED <<objects, opened, reviewOf, lastReview, overwritten, reborn>>
<1>1. CASE InsertFile(h)
  BY <1>1, Turned, RestIsTask DEF InsertFile
<1>2. CASE (DeleteFile(h) \/ Dies(h)) /\ ~InsertFile(h)
  <2>1. Turns(h, Rest) /\ task[h].at = "delete row"
    BY <1>2 DEF DeleteFile, Dies
  <2>2. UNCHANGED <<objects, opened, reviewOf, lastReview, overwritten, reborn>>
    BY <1>2 DEF DeleteFile, Dies, SameFacts
  <2>3. QED
    BY <1>2, <2>1, <2>2, Turned, RestIsTask
<1>3. QED
  BY <1>1, <1>2

\* A save replaces the row, and makes the other copies of it old.
LEMMA Saving ==
  ASSUME FilesTypeOK, NEW h \in Handlers, SaveFile(h)
  PROVE  LET f == task[h].copy IN
         /\ task[h].at = "save" /\ task'[h].at = "rest"
         /\ files' = {g \in files : g.id # f.id} \cup {f}
         /\ \A k \in Handlers \ {h} :
              /\ task'[k].at = task[k].at /\ task'[k].copy = task[k].copy
              /\ ~task'[k].newer => ~task[k].newer
              /\ task[k].at = "save" /\ task[k].copy.id = f.id => task'[k].newer
         /\ reborn' = IF \E g \in files : g.id = f.id THEN reborn ELSE reborn \cup {f.id}
         /\ UNCHANGED <<objects, opened, reviewOf, refused, cutShort>>
<1> DEFINE f == task[h].copy
<1>1. task'[h].at = "rest"
  BY RestIsTask DEF SaveFile
<1>2. ASSUME NEW k \in Handlers \ {h}
      PROVE  /\ task'[k].at = task[k].at /\ task'[k].copy = task[k].copy
             /\ ~task'[k].newer => ~task[k].newer
             /\ task[k].at = "save" /\ task[k].copy.id = f.id => task'[k].newer
  <2>1. task[k] \in Task
    BY DEF FilesTypeOK
  <2>2. task'[k] = IF task[k].at = "save" /\ task[k].copy.id = f.id
                   THEN [task[k] EXCEPT !.newer = TRUE] ELSE task[k]
    BY <1>2 DEF SaveFile
  <2>3. QED
    BY <2>1, <2>2 DEF Task
<1>3. files' = {g \in files : g.id # f.id} \cup {f}
  BY DEF SaveFile
<1>4. reborn' = IF \E g \in files : g.id = f.id THEN reborn ELSE reborn \cup {f.id}
  <2> DEFINE old == {g \in files : g.id = f.id}
  <2>1. reborn' = IF old = {} THEN reborn \cup {f.id} ELSE reborn
    BY DEF SaveFile
  <2>2. old = {} <=> ~\E g \in files : g.id = f.id
    OBVIOUS
  <2>3. QED
    BY <2>1, <2>2
<1>5. QED
  BY <1>1, <1>2, <1>3, <1>4 DEF SaveFile

LEMMA NewFields ==
  ASSUME NEW k, NEW object
  PROVE  /\ NewFile(k, object).id = k /\ NewFile(k, object).object = object
         /\ NewFile(k, object).review = 0 /\ NewFile(k, object).by = "nobody"
  BY DEF NewFile

LEMMA ObjectNumbers ==
  ASSUME FilesTypeOK
  PROVE  \A o \in objects : o \in Nat \ {0}
<1>1. objects \subseteq 1..MaxOps
  BY DEF FilesTypeOK
<1>2. QED
  BY <1>1, Numbers

-----------------------------------------------------------------------------
(* Numbers. *)

LEMMA FilesNumberedStep ==
  ASSUME FilesTypeOK, FilesNumbered, Uploads, [FilesNext]_fileVars
  PROVE  FilesNumbered'
<1>1. ASSUME NEW h \in Handlers, Create(h) PROVE FilesNumbered'
  <2>1. PICK object, at :
          /\ <<object, at>> \in {<<0, "insert">>, <<opened + 1, "store">>}
          /\ task[h].at = "rest" /\ opened' = opened + 1 /\ opened + 1 \in 1..MaxOps
          /\ task'[h] = Doing(at, NewFile(opened + 1, object))
          /\ \A k \in Handlers \ {h} : task'[k] = task[k]
          /\ UNCHANGED <<files, objects>>
    BY <1>1, Beginning
  <2>2. /\ task'[h].copy.id = opened + 1 /\ task'[h].copy.object = object
        /\ object \in {0, opened + 1}
    BY <2>1 DEF Doing, NewFile
  <2>3. OwnObject(task'[h].copy)
    BY <2>2 DEF OwnObject
  <2>4. opened \in Nat /\ \A f \in files : f.id # opened + 1
    BY Numbers, FileFields DEF FilesNumbered, FilesTypeOK
  <2>5. \A k \in Handlers : task[k].at # "rest" => task[k].copy.id # opened + 1
    BY <2>4 DEF FilesNumbered
  <2>6. \A f \in files : f.id <= opened' /\ OwnObject(f)
    BY <2>1, <2>4, FileFields DEF FilesNumbered, FilesTypeOK
  <2>7. \A o \in objects' : o <= opened'
    BY <2>1, <2>4, ObjectNumbers DEF FilesNumbered
  <2>8. ASSUME NEW k \in Handlers, task'[k].at # "rest"
        PROVE  /\ task'[k].copy.id \in 1..opened' /\ OwnObject(task'[k].copy)
               /\ \A f \in files : SameObject(f, task'[k].copy)
    <3>1. CASE k = h
      BY <2>1, <2>2, <2>3, <2>4, <3>1 DEF SameObject
    <3>2. CASE k # h
      BY <2>1, <2>4, <2>8, <3>2 DEF FilesNumbered
    <3>3. QED
      BY <3>1, <3>2
  <2>9. ASSUME NEW k \in Handlers, NEW j \in Handlers, task'[k].at # "rest", task'[j].at # "rest"
        PROVE  SameObject(task'[k].copy, task'[j].copy)
    <3>1. CASE k # h /\ j # h
      BY <2>1, <2>9, <3>1 DEF FilesNumbered
    <3>2. CASE k = j
      BY <3>2 DEF SameObject
    <3>3. CASE k = h /\ j # h
      BY <2>1, <2>2, <2>5, <2>9, <3>3 DEF SameObject
    <3>4. CASE k # h /\ j = h
      BY <2>1, <2>2, <2>5, <2>9, <3>4 DEF SameObject
    <3>5. QED
      BY <3>1, <3>2, <3>3, <3>4
  <2>10. \A f, g \in files' : f.id = g.id => f = g
    BY <2>1 DEF FilesNumbered
  <2>11. QED
    BY <2>1, <2>6, <2>7, <2>8, <2>9, <2>10 DEF FilesNumbered
<1>2. ASSUME NEW h \in Handlers, Describe(h) \/ Review(h) \/ Destroy(h) PROVE FilesNumbered'
  <2>0. PICK f \in files : \E copy, at : Copies(h, f, copy, at)
    BY <1>2, Copying
  <2>1. PICK copy, at : Copies(h, f, copy, at)
    BY <2>0
  <2>2. /\ task[h].at = "rest" /\ opened' = opened + 1 /\ opened \in Nat
        /\ UNCHANGED <<files, objects>>
    BY <1>2, Copying, Numbers
  <2>3. task'[h].copy.id = f.id /\ task'[h].copy.object = f.object
    BY <2>1 DEF Copies
  <2>4. \A k \in Handlers \ {h} : task'[k] = task[k]
    BY <2>1 DEF Copies
  <2>5. f.id \in 1..opened /\ OwnObject(f)
    BY <2>2, FileFields DEF FilesNumbered, FilesTypeOK
  <2>6. \A g \in files : g.id <= opened' /\ OwnObject(g)
    BY <2>2, FileFields DEF FilesNumbered, FilesTypeOK
  <2>7. \A o \in objects' : o <= opened'
    BY <2>2, ObjectNumbers DEF FilesNumbered
  <2>8. ASSUME NEW k \in Handlers, task'[k].at # "rest"
        PROVE  /\ task'[k].copy.id \in 1..opened' /\ OwnObject(task'[k].copy)
               /\ \A g \in files : SameObject(g, task'[k].copy)
    <3>1. CASE k = h
      BY <2>2, <2>3, <2>5, <3>1 DEF FilesNumbered, SameObject, OwnObject
    <3>2. CASE k # h
      BY <2>2, <2>4, <2>8, <3>2 DEF FilesNumbered
    <3>3. QED
      BY <3>1, <3>2
  <2>9. ASSUME NEW k \in Handlers, NEW j \in Handlers, task'[k].at # "rest", task'[j].at # "rest"
        PROVE  SameObject(task'[k].copy, task'[j].copy)
    <3>1. CASE k # h /\ j # h
      BY <2>4, <2>9, <3>1 DEF FilesNumbered
    <3>2. CASE k = j
      BY <3>2 DEF SameObject
    <3>3. CASE k = h /\ j # h
      <4>1. task'[j] = task[j] /\ SameObject(f, task[j].copy)
        BY <2>4, <2>9, <3>3 DEF FilesNumbered
      <4>2. QED
        BY <2>3, <3>3, <4>1 DEF SameObject
    <3>4. CASE k # h /\ j = h
      <4>1. task'[k] = task[k] /\ SameObject(f, task[k].copy)
        BY <2>4, <2>9, <3>4 DEF FilesNumbered
      <4>2. QED
        BY <2>3, <3>4, <4>1 DEF SameObject
    <3>5. QED
      BY <3>1, <3>2, <3>3, <3>4
  <2>10. \A g, e \in files' : g.id = e.id => g = e
    BY <2>2 DEF FilesNumbered
  <2>11. QED
    BY <2>2, <2>6, <2>7, <2>8, <2>9, <2>10 DEF FilesNumbered
<1>3. ASSUME NEW h \in Handlers, Store(h) \/ DeleteObject(h) PROVE FilesNumbered'
  <2>1. /\ task[h].at # "rest" /\ task'[h].copy = task[h].copy
        /\ \A k \in Handlers \ {h} : task'[k] = task[k]
        /\ objects' \subseteq objects \cup {task[h].copy.object}
        /\ UNCHANGED <<files, opened>>
    BY <1>3, Storing, Deleting
  <2>2. \A k \in Handlers : task'[k].copy = task[k].copy /\ (task'[k].at # "rest" => task[k].at # "rest")
    BY <2>1
  <2>3. task[h].copy.object <= opened
    BY <2>1, AtWork, Numbers DEF OwnObject
  <2>4. QED
    BY <2>1, <2>2, <2>3 DEF FilesNumbered
<1>4. ASSUME NEW h \in Handlers, InsertFile(h) PROVE FilesNumbered'
  <2> DEFINE f == task[h].copy
  <2>1. /\ task[h].at = "insert" /\ task'[h].at = "rest"
        /\ \A k \in Handlers \ {h} : task'[k] = task[k]
        /\ UNCHANGED <<objects, opened>>
    BY <1>4, Ending
  <2>2. files' \in {files, files \cup {f}}
    BY <1>4 DEF InsertFile
  <2>3. f.id <= opened /\ OwnObject(f)
    BY <2>1, AtWork, Numbers
  <2>4. \A g \in files : g.id # f.id
    BY <2>1 DEF Uploads, Making
  <2>5. \A g, e \in files' : g.id = e.id => g = e
    BY <2>2, <2>4 DEF FilesNumbered
  <2>6. \A g \in files' : g.id <= opened /\ OwnObject(g)
    BY <2>2, <2>3 DEF FilesNumbered
  <2>7. \A k \in Handlers \ {h} : task[k].at # "rest" => \A g \in files' : SameObject(g, task[k].copy)
    BY <2>1, <2>2 DEF FilesNumbered
  <2>8. QED
    BY <2>1, <2>5, <2>6, <2>7 DEF FilesNumbered
<1>5. ASSUME NEW h \in Handlers, DeleteFile(h) \/ Dies(h) PROVE FilesNumbered'
  <2>1. /\ task'[h].at = "rest" /\ \A k \in Handlers \ {h} : task'[k] = task[k]
        /\ UNCHANGED <<objects, opened>>
    BY <1>5, Ending
  <2>2. files' \subseteq files
    BY <1>5 DEF DeleteFile, Dies
  <2>3. QED
    BY <2>1, <2>2 DEF FilesNumbered
<1>6. ASSUME NEW h \in Handlers, SaveFile(h) PROVE FilesNumbered'
  <2> DEFINE f == task[h].copy
  <2>1. /\ task[h].at = "save" /\ task'[h].at = "rest"
        /\ files' = {g \in files : g.id # f.id} \cup {f}
        /\ \A k \in Handlers \ {h} : task'[k].at = task[k].at /\ task'[k].copy = task[k].copy
        /\ UNCHANGED <<objects, opened>>
    BY <1>6, Saving
  <2>2. f.id <= opened /\ OwnObject(f)
    BY <2>1, AtWork, Numbers
  <2>3. \A g, e \in files' : g.id = e.id => g = e
    BY <2>1 DEF FilesNumbered
  <2>4. \A g \in files' : g.id <= opened /\ OwnObject(g)
    BY <2>1, <2>2 DEF FilesNumbered
  <2>5. \A k \in Handlers \ {h} : task[k].at # "rest" => \A g \in files' : SameObject(g, task[k].copy)
    BY <2>1 DEF FilesNumbered
  <2>6. QED
    BY <2>1, <2>3, <2>4, <2>5 DEF FilesNumbered
<1>7. CASE UNCHANGED fileVars
  BY <1>7 DEF fileVars, FilesNumbered
<1>8. QED
  BY <1>1, <1>2, <1>3, <1>4, <1>5, <1>6, <1>7 DEF FilesNext

-----------------------------------------------------------------------------
(* Uploads. *)

\* What Uploads says of the row that h makes.
UploadOf(h) ==
    /\ \A f \in files : f.id # task[h].copy.id
    /\ \A k \in Handlers \ {h} : task[k].at # "rest" => task[k].copy.id # task[h].copy.id
    /\ task[h].copy.review = 0 /\ task[h].copy.by = "nobody"
    /\ lastReview[task[h].copy.id] = 0

LEMMA UploadsStep ==
  ASSUME FilesTypeOK, FilesNumbered, Uploads, Attributed, [FilesNext]_fileVars
  PROVE  Uploads'
<1>1. \A h \in Handlers : Making(h) => UploadOf(h)
  BY DEF Uploads, UploadOf
<1>2. SUFFICES \A h \in Handlers : Making(h)' => UploadOf(h)'
  BY DEF Uploads, UploadOf
<1>3. ASSUME NEW h \in Handlers, Create(h), NEW m \in Handlers, Making(m)' PROVE UploadOf(m)'
  <2>1. PICK object, at :
          /\ <<object, at>> \in {<<0, "insert">>, <<opened + 1, "store">>}
          /\ task[h].at = "rest" /\ opened' = opened + 1 /\ opened + 1 \in 1..MaxOps
          /\ task'[h] = Doing(at, NewFile(opened + 1, object))
          /\ \A k \in Handlers \ {h} : task'[k] = task[k]
          /\ UNCHANGED <<files, lastReview>>
    BY <1>3, Beginning DEF SameFacts
  <2>2. /\ task'[h].copy.id = opened + 1
        /\ task'[h].copy.review = 0 /\ task'[h].copy.by = "nobody"
    BY <2>1 DEF Doing, NewFile
  <2>3. opened \in Nat /\ \A f \in files : f.id # opened + 1
    BY Numbers, FileFields DEF FilesNumbered, FilesTypeOK
  <2>4. \A k \in Handlers : task[k].at # "rest" => task[k].copy.id # opened + 1
    BY <2>3 DEF FilesNumbered
  <2>5. CASE m = h
    <3>1. lastReview[opened + 1] = 0
      BY <2>1, <2>3 DEF Attributed
    <3>2. QED
      BY <2>1, <2>2, <2>3, <2>4, <2>5, <3>1 DEF UploadOf
  <2>6. CASE m # h
    <3>1. UploadOf(m) /\ task'[m] = task[m] /\ task[m].at # "rest"
      BY <1>1, <1>3, <2>1, <2>6 DEF Making
    <3>2. task'[h].copy.id # task'[m].copy.id
      BY <2>2, <2>4, <3>1
    <3>3. QED
      BY <2>1, <3>1, <3>2 DEF UploadOf
  <2>7. QED
    BY <2>5, <2>6
<1>4. ASSUME NEW h \in Handlers, Describe(h) \/ Review(h) \/ Destroy(h),
             NEW m \in Handlers, Making(m)'
      PROVE  UploadOf(m)'
  <2>0. PICK f \in files : \E copy, at : Copies(h, f, copy, at)
    BY <1>4, Copying
  <2>1. PICK copy, at : Copies(h, f, copy, at)
    BY <2>0
  <2>2. UNCHANGED <<files, lastReview>>
    BY <1>4, Copying
  <2>3. m # h /\ task'[m] = task[m] /\ UploadOf(m)
    BY <1>1, <1>4, <2>1 DEF Copies, Making
  <2>4. task'[h].copy.id # task'[m].copy.id
    BY <2>1, <2>3 DEF Copies, UploadOf
  <2>5. \A k \in Handlers \ {h} : task'[k] = task[k]
    BY <2>1 DEF Copies
  <2>6. QED
    BY <2>2, <2>3, <2>4, <2>5 DEF UploadOf
<1>5. ASSUME NEW h \in Handlers, Store(h) \/ DeleteObject(h), NEW m \in Handlers, Making(m)'
      PROVE  UploadOf(m)'
  <2>1. /\ task[h].at # "rest" /\ task'[h].copy = task[h].copy
        /\ task'[h].at \in {"store", "insert"} => task[h].at = "store"
        /\ \A k \in Handlers \ {h} : task'[k] = task[k]
        /\ UNCHANGED <<files, lastReview>>
    BY <1>5, Storing, Deleting DEF SameFacts
  <2>2. \A k \in Handlers : task'[k].copy = task[k].copy /\ (task'[k].at # "rest" => task[k].at # "rest")
    BY <2>1
  <2>3. Making(m)
    BY <1>5, <2>1 DEF Making
  <2>4. QED
    BY <1>1, <2>1, <2>2, <2>3 DEF UploadOf
<1>6. ASSUME NEW h \in Handlers, InsertFile(h) \/ DeleteFile(h) \/ Dies(h),
             NEW m \in Handlers, Making(m)'
      PROVE  UploadOf(m)'
  <2>1. /\ task[h].at # "rest" /\ task'[h].at = "rest"
        /\ \A k \in Handlers \ {h} : task'[k] = task[k]
        /\ lastReview' = lastReview
    BY <1>6, Ending
  <2>2. m # h /\ task'[m] = task[m] /\ UploadOf(m)
    BY <1>1, <1>6, <2>1 DEF Making
  <2>3. files' \subseteq files \cup {task[h].copy}
    BY <1>6 DEF InsertFile, DeleteFile, Dies
  <2>4. \A f \in files' : f.id # task[m].copy.id
    BY <2>1, <2>2, <2>3 DEF UploadOf
  <2>5. QED
    BY <2>1, <2>2, <2>4 DEF UploadOf
<1>7. ASSUME NEW h \in Handlers, SaveFile(h), NEW m \in Handlers, Making(m)' PROVE UploadOf(m)'
  <2> DEFINE f == task[h].copy
  <2>1. /\ task[h].at = "save" /\ task'[h].at = "rest"
        /\ files' = {g \in files : g.id # f.id} \cup {f}
        /\ \A k \in Handlers \ {h} : task'[k].at = task[k].at /\ task'[k].copy = task[k].copy
    BY <1>7, Saving
  <2>2. m # h /\ UploadOf(m)
    BY <1>1, <1>7, <2>1 DEF Making
  <2>3. f.id # task[m].copy.id
    BY <2>1, <2>2 DEF UploadOf
  <2>4. task[m].copy.id \in 1..MaxOps
    BY <1>7, <2>1, <2>2, AtWork DEF Making
  <2>5. lastReview'[task[m].copy.id] = lastReview[task[m].copy.id]
    BY <1>7, <2>3, <2>4 DEF SaveFile, FilesTypeOK
  <2>6. \A g \in files' : g.id # task[m].copy.id
    BY <2>1, <2>2, <2>3 DEF UploadOf
  <2>7. QED
    BY <2>1, <2>2, <2>5, <2>6 DEF UploadOf
<1>8. CASE UNCHANGED fileVars
  BY <1>1, <1>8 DEF fileVars, UploadOf, Making
<1>9. QED
  BY <1>3, <1>4, <1>5, <1>6, <1>7, <1>8 DEF FilesNext

-----------------------------------------------------------------------------
(* Where the object of a row is. *)

ObjectPlace(t) ==
    /\ t.at = "store" => t.copy.object # 0 /\ t.copy.object \notin objects
    /\ t.at = "insert" /\ t.copy.object # 0 => t.copy.object \in objects
    /\ t.at = "delete row" => t.copy.object \notin objects

LEMMA StoredStep ==
  ASSUME FilesTypeOK, FilesNumbered, Uploads, Stored, [FilesNext]_fileVars
  PROVE  Stored'
<1>1. \A h \in Handlers : ObjectPlace(task[h])
  BY DEF Stored, ObjectPlace
<1>2. SUFFICES \A h \in Handlers : ObjectPlace(task[h])'
  BY DEF Stored, ObjectPlace
<1>3. ASSUME NEW h \in Handlers, Create(h), NEW m \in Handlers PROVE ObjectPlace(task[m])'
  <2>1. PICK object, at :
          /\ <<object, at>> \in {<<0, "insert">>, <<opened + 1, "store">>}
          /\ task'[h] = Doing(at, NewFile(opened + 1, object))
          /\ \A k \in Handlers \ {h} : task'[k] = task[k]
          /\ UNCHANGED objects
    BY <1>3, Beginning
  <2>2. opened + 1 \notin objects /\ opened + 1 # 0
    BY Numbers, ObjectNumbers DEF FilesNumbered
  <2>3. task'[h].copy.object = object /\ task'[h].at = at
    BY <2>1 DEF Doing, NewFile
  <2>4. QED
    BY <1>1, <2>1, <2>2, <2>3 DEF ObjectPlace
<1>4. ASSUME NEW h \in Handlers, Describe(h) \/ Review(h) \/ Destroy(h), NEW m \in Handlers
      PROVE  ObjectPlace(task[m])'
  <2>0. PICK f \in files : \E copy, at : Copies(h, f, copy, at)
    BY <1>4, Copying
  <2>1. PICK copy, at : Copies(h, f, copy, at)
    BY <2>0
  <2>2. UNCHANGED objects /\ 0 \notin objects
    BY <1>4, Copying, ObjectNumbers
  <2>3. QED
    BY <1>1, <2>1, <2>2 DEF Copies, ObjectPlace
<1>5. ASSUME NEW h \in Handlers, Store(h), NEW m \in Handlers PROVE ObjectPlace(task[m])'
  <2>1. /\ task[h].at = "store" /\ task'[h].at = "insert" /\ task'[h].copy = task[h].copy
        /\ \A k \in Handlers \ {h} : task'[k] = task[k]
        /\ objects' = objects \cup {task[h].copy.object}
    BY <1>5, Storing
  <2>2. CASE m = h
    BY <2>1, <2>2 DEF ObjectPlace
  <2>3. CASE m # h
    <3>1. task[m].at # "rest" => task[m].copy.id # task[h].copy.id
      BY <2>1, <2>3 DEF Uploads, Making
    <3>2. task[h].copy.object = task[h].copy.id /\ task[h].copy.object # 0
      BY <2>1 DEF FilesNumbered, OwnObject, Stored
    <3>3. task[m].at # "rest" => task[m].copy.object # task[h].copy.object
      BY <3>1, <3>2 DEF FilesNumbered, OwnObject
    <3>4. QED
      BY <1>1, <2>1, <2>3, <3>3 DEF ObjectPlace
  <2>4. QED
    BY <2>2, <2>3
<1>6. ASSUME NEW h \in Handlers, DeleteObject(h), NEW m \in Handlers PROVE ObjectPlace(task[m])'
  <2>1. /\ task[h].at = "delete object" /\ task'[h].at = "delete row" /\ task'[h].copy = task[h].copy
        /\ \A k \in Handlers \ {h} : task'[k] = task[k]
        /\ objects' = objects \ {task[h].copy.object}
    BY <1>6, Deleting
  <2>2. CASE m = h
    BY <2>1, <2>2 DEF ObjectPlace
  <2>3. CASE m # h
    <3>1. task[m].at = "insert" => task[m].copy.id # task[h].copy.id
      BY <2>1, <2>3 DEF Uploads, Making
    <3>2. task[m].at = "insert" /\ task[m].copy.object # 0 => task[m].copy.object # task[h].copy.object
      BY <2>1, <3>1 DEF FilesNumbered, OwnObject
    <3>3. QED
      BY <1>1, <2>1, <2>3, <3>2 DEF ObjectPlace
  <2>4. QED
    BY <2>2, <2>3
<1>7. ASSUME NEW h \in Handlers, InsertFile(h) \/ DeleteFile(h) \/ Dies(h), NEW m \in Handlers
      PROVE  ObjectPlace(task[m])'
  <2>1. /\ task'[h].at = "rest" /\ \A k \in Handlers \ {h} : task'[k] = task[k]
        /\ UNCHANGED objects
    BY <1>7, Ending
  <2>2. QED
    BY <1>1, <2>1 DEF ObjectPlace
<1>8. ASSUME NEW h \in Handlers, SaveFile(h), NEW m \in Handlers PROVE ObjectPlace(task[m])'
  <2>1. /\ task'[h].at = "rest" /\ UNCHANGED objects
        /\ \A k \in Handlers \ {h} : task'[k].at = task[k].at /\ task'[k].copy = task[k].copy
    BY <1>8, Saving
  <2>2. QED
    BY <1>1, <2>1 DEF ObjectPlace
<1>9. CASE UNCHANGED fileVars
  BY <1>1, <1>9 DEF fileVars, ObjectPlace
<1>10. QED
  BY <1>3, <1>4, <1>5, <1>6, <1>7, <1>8, <1>9 DEF FilesNext

-----------------------------------------------------------------------------
(* Reviews. *)

LEMMA AttributedStep ==
  ASSUME FilesTypeOK, FilesNumbered, Uploads, Attributed, [FilesNext]_fileVars
  PROVE  Attributed'
<1>1. opened \in Nat /\ \A k \in 1..MaxOps : lastReview[k] \in Nat
  BY Numbers DEF FilesTypeOK
<1>2. \A f \in files : f.review \in Nat
  BY FileFields DEF FilesTypeOK
<1>3. \A h \in Handlers : task[h].at # "rest" => task[h].copy.review \in Nat
  BY AtWork, FileFields
<1>4. ASSUME NEW h \in Handlers, Create(h) PROVE Attributed'
  <2>1. PICK object, at :
          /\ <<object, at>> \in {<<0, "insert">>, <<opened + 1, "store">>}
          /\ opened' = opened + 1 /\ opened + 1 \in 1..MaxOps
          /\ task'[h] = Doing(at, NewFile(opened + 1, object))
          /\ \A k \in Handlers \ {h} : task'[k] = task[k]
          /\ UNCHANGED <<files, lastReview, reviewOf>>
    BY <1>4, Beginning DEF SameFacts
  <2>2. task'[h].at # "save"
    BY <2>1 DEF Doing
  <2>3. QED
    BY <1>1, <1>2, <1>3, <2>1, <2>2 DEF Attributed
<1>5. ASSUME NEW h \in Handlers, Describe(h) PROVE Attributed'
  <2>1. PICK f \in files : Turns(h, Doing("save", [f EXCEPT !.text = opened + 1]))
    BY <1>5 DEF Describe
  <2> DEFINE copy == [f EXCEPT !.text = opened + 1]
             next == Doing("save", copy)
  <2>2. copy.review = f.review /\ copy.by = f.by
    BY DEF FilesTypeOK, ProjectFile
  <2>3. next.copy = copy
    BY DEF Doing
  <2>4. task'[h] = next /\ \A k \in Handlers \ {h} : task'[k] = task[k]
    BY <2>1, Turned
  <2> HIDE DEF next, copy
  <2>5. opened' = opened + 1 /\ UNCHANGED <<files, lastReview, reviewOf>>
    BY <1>5 DEF Describe, Opens, SameFacts
  <2>6. task'[h].copy.review = f.review /\ task'[h].copy.by = f.by
    BY <2>2, <2>3, <2>4
  <2>7. QED
    BY <1>1, <1>2, <1>3, <2>4, <2>5, <2>6 DEF Attributed
<1>6. ASSUME NEW h \in Handlers, Review(h) PROVE Attributed'
  <2>1. PICK f \in files, reviewer \in Reviewers :
          /\ Turns(h, Doing("save", Reviewed(f, reviewer, opened + 1)))
          /\ reviewOf' = [reviewOf EXCEPT ![opened + 1] = reviewer]
    BY <1>6 DEF Review
  <2> DEFINE copy == Reviewed(f, reviewer, opened + 1)
             next == Doing("save", copy)
  <2>2. copy.review = opened + 1 /\ copy.by = reviewer
    BY DEF Reviewed
  <2>3. next.copy = copy
    BY DEF Doing
  <2>4. task'[h] = next /\ \A k \in Handlers \ {h} : task'[k] = task[k]
    BY <2>1, Turned
  <2> HIDE DEF next, copy
  <2>5. opened' = opened + 1 /\ opened + 1 \in 1..MaxOps /\ UNCHANGED <<files, lastReview>>
    BY <1>6, Opened DEF Review
  <2>6. task'[h].copy.review = opened + 1 /\ task'[h].copy.by = reviewer
    BY <2>2, <2>3, <2>4
  <2>7. /\ reviewOf'[opened + 1] = reviewer
        /\ \A k \in 0..opened : reviewOf'[k] = reviewOf[k]
    BY <1>1, <2>1, <2>5, Numbers DEF FilesTypeOK
  <2>8. reviewOf'[0] = "nobody"
    BY <1>1, <2>7 DEF Attributed
  <2>9. \A g \in files : g.review <= opened' /\ g.by = reviewOf'[g.review]
    BY <1>1, <1>2, <2>5, <2>7 DEF Attributed
  <2>10. ASSUME NEW k \in Handlers, task'[k].at = "save"
         PROVE  task'[k].copy.review <= opened' /\ task'[k].copy.by = reviewOf'[task'[k].copy.review]
    <3>1. CASE k = h
      BY <1>1, <2>5, <2>6, <2>7, <3>1
    <3>2. CASE k # h
      <4>1. task'[k] = task[k] /\ task[k].copy.review \in 0..opened
        BY <1>1, <1>3, <2>4, <2>10, <3>2 DEF Attributed
      <4>2. QED
        BY <1>1, <2>5, <2>7, <2>10, <4>1 DEF Attributed
    <3>3. QED
      BY <3>1, <3>2
  <2>11. \A k \in 1..MaxOps : (k > opened' => lastReview'[k] = 0) /\ lastReview'[k] <= opened'
    BY <1>1, <2>5 DEF Attributed
  <2>12. QED
    BY <2>5, <2>8, <2>9, <2>10, <2>11 DEF Attributed
<1>7. ASSUME NEW h \in Handlers, Destroy(h) PROVE Attributed'
  <2>0. PICK f \in files : \E copy, at : Copies(h, f, copy, at)
    BY <1>7, Copying
  <2>1. PICK copy, at : Copies(h, f, copy, at)
    BY <2>0
  <2>2. task'[h].at # "save"
    <3>1. PICK g \in files :
            Turns(h, Doing(IF g.object = 0 THEN "delete row" ELSE "delete object", g))
      BY <1>7 DEF Destroy
    <3>2. CASE g.object = 0
      <4> DEFINE next == Doing("delete row", g)
      <4>1. Turns(h, next)
        BY <3>1, <3>2
      <4>2. task'[h] = next
        BY <4>1, Turned
      <4>3. next.at = "delete row"
        BY DEF Doing
      <4> HIDE DEF next
      <4>4. QED
        BY <4>2, <4>3
    <3>3. CASE g.object # 0
      <4> DEFINE next == Doing("delete object", g)
      <4>1. Turns(h, next)
        BY <3>1, <3>3
      <4>2. task'[h] = next
        BY <4>1, Turned
      <4>3. next.at = "delete object"
        BY DEF Doing
      <4> HIDE DEF next
      <4>4. QED
        BY <4>2, <4>3
    <3>4. QED
      BY <3>2, <3>3
  <2>3. opened' = opened + 1 /\ UNCHANGED <<files, lastReview, reviewOf>>
    BY <1>7 DEF Destroy, Opens, SameFacts
  <2>4. \A k \in Handlers \ {h} : task'[k] = task[k]
    BY <2>1 DEF Copies
  <2>5. QED
    BY <1>1, <1>2, <1>3, <2>2, <2>3, <2>4 DEF Attributed
<1>8. ASSUME NEW h \in Handlers, Store(h) \/ DeleteObject(h) PROVE Attributed'
  <2>1. /\ task'[h].at # "save" /\ \A k \in Handlers \ {h} : task'[k] = task[k]
        /\ UNCHANGED <<files, opened, lastReview, reviewOf>>
    BY <1>8, Storing, Deleting DEF SameFacts
  <2>2. QED
    BY <2>1 DEF Attributed
<1>9. ASSUME NEW h \in Handlers, InsertFile(h) \/ DeleteFile(h) \/ Dies(h) PROVE Attributed'
  <2>1. /\ task'[h].at = "rest" /\ \A k \in Handlers \ {h} : task'[k] = task[k]
        /\ UNCHANGED <<opened, lastReview, reviewOf>>
    BY <1>9, Ending
  <2>2. \A f \in files' : f \in files \/ (f.review = 0 /\ f.by = "nobody")
    <3>1. CASE InsertFile(h)
      BY <3>1 DEF InsertFile, Uploads, Making
    <3>2. CASE DeleteFile(h) \/ Dies(h)
      BY <3>2 DEF DeleteFile, Dies
    <3>3. QED
      BY <1>9, <3>1, <3>2
  <2>3. \A f \in files' : f.review <= opened /\ f.by = reviewOf[f.review]
    BY <1>1, <2>2 DEF Attributed
  <2>4. QED
    BY <2>1, <2>3 DEF Attributed
<1>10. ASSUME NEW h \in Handlers, SaveFile(h) PROVE Attributed'
  <2> DEFINE f == task[h].copy
  <2>1. /\ task[h].at = "save" /\ task'[h].at = "rest"
        /\ files' = {g \in files : g.id # f.id} \cup {f}
        /\ \A k \in Handlers \ {h} : task'[k].at = task[k].at /\ task'[k].copy = task[k].copy
        /\ UNCHANGED <<opened, reviewOf>>
    BY <1>10, Saving
  <2>2. f.review <= opened /\ f.by = reviewOf[f.review] /\ f.id \in 1..opened /\ f.id \in 1..MaxOps
    BY <2>1, AtWork DEF Attributed
  <2>3. \A k \in 1..MaxOps : lastReview'[k] = lastReview[k] \/ (k = f.id /\ lastReview'[k] = f.review)
    BY <1>10, <2>2 DEF SaveFile, FilesTypeOK
  <2>4. \A k \in 1..MaxOps : (k > opened => lastReview'[k] = 0) /\ lastReview'[k] <= opened
    BY <1>1, <2>2, <2>3 DEF Attributed
  <2>5. QED
    BY <2>1, <2>2, <2>4 DEF Attributed
<1>11. CASE UNCHANGED fileVars
  BY <1>11 DEF fileVars, Attributed
<1>12. QED
  BY <1>4, <1>5, <1>6, <1>7, <1>8, <1>9, <1>10, <1>11 DEF FilesNext

Known(k) == k \in overwritten \cup reborn

LEMMA CurrentStep ==
  ASSUME FilesTypeOK, FilesNumbered, Uploads, Attributed, Current, [FilesNext]_fileVars
  PROVE  Current'
<1>1. \A f \in files : f.review = lastReview[f.id] \/ Known(f.id)
  BY DEF Current, Known
<1>2. \A h \in Handlers : task[h].at = "save" /\ ~task[h].newer =>
        NewOrLast(task[h].copy) \/ Known(task[h].copy.id)
  BY DEF Current, Known
<1>3. ASSUME \A f \in files' : f.review = lastReview'[f.id] \/ Known(f.id)',
             \A h \in Handlers : task'[h].at = "save" /\ ~task'[h].newer =>
               NewOrLast(task[h].copy)' \/ Known(task[h].copy.id)'
      PROVE  Current'
  BY <1>3 DEF Current, Known
<1>4. ASSUME NEW h \in Handlers, task'[h].at # "save",
             \A k \in Handlers \ {h} : task'[k] = task[k],
             UNCHANGED <<files, reviewOf, lastReview, overwritten, reborn>>
      PROVE  Current'
  BY <1>4 DEF Current, NewOrLast
<1>5. ASSUME NEW h \in Handlers, Create(h) PROVE Current'
  <2>1. PICK object, at :
          /\ <<object, at>> \in {<<0, "insert">>, <<opened + 1, "store">>}
          /\ task'[h] = Doing(at, NewFile(opened + 1, object))
          /\ \A k \in Handlers \ {h} : task'[k] = task[k]
          /\ UNCHANGED <<files, reviewOf, lastReview, overwritten, reborn>>
    BY <1>5, Beginning DEF SameFacts
  <2>2. task'[h].at # "save"
    BY <2>1 DEF Doing
  <2>3. QED
    BY <1>4, <2>1, <2>2
<1>6. ASSUME NEW h \in Handlers, Describe(h) PROVE Current'
  <2>1. PICK f \in files : Turns(h, Doing("save", [f EXCEPT !.text = opened + 1]))
    BY <1>6 DEF Describe
  <2> DEFINE copy == [f EXCEPT !.text = opened + 1]
             next == Doing("save", copy)
  <2>2. copy.review = f.review /\ copy.id = f.id
    BY DEF FilesTypeOK, ProjectFile
  <2>3. next.copy = copy
    BY DEF Doing
  <2>4. task'[h] = next /\ \A k \in Handlers \ {h} : task'[k] = task[k]
    BY <2>1, Turned
  <2> HIDE DEF next, copy
  <2>5. UNCHANGED <<files, reviewOf, lastReview, overwritten, reborn>>
    BY <1>6 DEF Describe, SameFacts
  <2>6. task'[h].copy.review = f.review /\ task'[h].copy.id = f.id
    BY <2>2, <2>3, <2>4
  <2>7. NewOrLast(task[h].copy)' \/ Known(task[h].copy.id)'
    BY <1>1, <2>5, <2>6 DEF NewOrLast, Known
  <2>8. QED
    BY <1>1, <1>2, <2>4, <2>5, <2>7 DEF Current, Known, NewOrLast
<1>7. ASSUME NEW h \in Handlers, Review(h) PROVE Current'
  <2>1. PICK f \in files, reviewer \in Reviewers :
          /\ Turns(h, Doing("save", Reviewed(f, reviewer, opened + 1)))
          /\ reviewOf' = [reviewOf EXCEPT ![opened + 1] = reviewer]
    BY <1>7 DEF Review
  <2> DEFINE copy == Reviewed(f, reviewer, opened + 1)
             next == Doing("save", copy)
  <2>2. copy.review = opened + 1 /\ copy.id = f.id
    BY DEF Reviewed
  <2>3. next.copy = copy
    BY DEF Doing
  <2>4. task'[h] = next /\ \A k \in Handlers \ {h} : task'[k] = task[k]
    BY <2>1, Turned
  <2> HIDE DEF next, copy
  <2>5. /\ opened + 1 \in 1..MaxOps /\ opened \in Nat
        /\ UNCHANGED <<files, lastReview, overwritten, reborn>>
    BY <1>7, Opened, Numbers DEF Review
  <2>6. task'[h].copy.review = opened + 1 /\ task'[h].copy.id = f.id
    BY <2>2, <2>3, <2>4
  <2>7. reviewOf'[opened + 1] # "nobody" /\ \A k \in 0..opened : reviewOf'[k] = reviewOf[k]
    BY <2>1, <2>5, FilesAssumption, Numbers DEF FilesTypeOK
  <2>8. f.id \in 1..MaxOps
    BY FileFields DEF FilesTypeOK
  <2>9. lastReview[f.id] \in Nat /\ lastReview[f.id] <= opened
    BY <2>8 DEF Attributed, FilesTypeOK
  <2>10. NewOrLast(task[h].copy)'
    <3>1. opened + 1 > lastReview[f.id]
      BY <2>5, <2>9
    <3>2. QED
      BY <2>5, <2>6, <2>7, <3>1 DEF NewOrLast
  <2>11. ASSUME NEW k \in Handlers \ {h}, task'[k].at = "save", ~task'[k].newer
         PROVE  NewOrLast(task[k].copy)' \/ Known(task[k].copy.id)'
    <3>1. task'[k] = task[k] /\ task[k].at = "save" /\ ~task[k].newer
      BY <2>4, <2>11
    <3>2. task[k].copy.review \in 0..opened
      <4>1. task[k].copy.review \in 0..MaxOps /\ task[k].copy.review <= opened
        BY <3>1, AtWork, FileFields DEF Attributed
      <4>2. QED
        BY <2>5, <4>1
    <3>3. QED
      BY <1>2, <2>5, <2>7, <3>1, <3>2 DEF NewOrLast, Known
  <2>12. QED
    BY <1>1, <1>3, <2>5, <2>10, <2>11 DEF Known
<1>8. ASSUME NEW h \in Handlers, Destroy(h) PROVE Current'
  <2>1. PICK f \in files :
          Turns(h, Doing(IF f.object = 0 THEN "delete row" ELSE "delete object", f))
    BY <1>8 DEF Destroy
  <2> DEFINE next == Doing(IF f.object = 0 THEN "delete row" ELSE "delete object", f)
  <2>2. next.at # "save"
    BY DEF Doing
  <2>3. task'[h] = next /\ \A k \in Handlers \ {h} : task'[k] = task[k]
    BY <2>1, Turned
  <2> HIDE DEF next
  <2>4. UNCHANGED <<files, reviewOf, lastReview, overwritten, reborn>>
    BY <1>8 DEF Destroy, SameFacts
  <2>5. QED
    BY <1>4, <2>2, <2>3, <2>4
<1>9. ASSUME NEW h \in Handlers, Store(h) \/ DeleteObject(h) PROVE Current'
  <2>1. /\ task'[h].at # "save" /\ \A k \in Handlers \ {h} : task'[k] = task[k]
        /\ UNCHANGED <<files, reviewOf, lastReview, overwritten, reborn>>
    BY <1>9, Storing, Deleting DEF SameFacts
  <2>2. QED
    BY <1>4, <2>1
<1>10. ASSUME NEW h \in Handlers, InsertFile(h) \/ DeleteFile(h) \/ Dies(h) PROVE Current'
  <2>1. /\ task'[h].at = "rest" /\ \A k \in Handlers \ {h} : task'[k] = task[k]
        /\ UNCHANGED <<reviewOf, lastReview, overwritten, reborn>>
    BY <1>10, Ending
  <2>2. \A f \in files' : f \in files \/ f.review = lastReview[f.id]
    <3>1. CASE InsertFile(h)
      BY <3>1 DEF InsertFile, Uploads, Making
    <3>2. CASE DeleteFile(h) \/ Dies(h)
      BY <3>2 DEF DeleteFile, Dies
    <3>3. QED
      BY <1>10, <3>1, <3>2
  <2>3. QED
    BY <1>1, <1>2, <1>3, <2>1, <2>2 DEF Known, NewOrLast
<1>11. ASSUME NEW h \in Handlers, SaveFile(h) PROVE Current'
  <2> DEFINE f == task[h].copy
             fresh == reviewOf[f.review] # "nobody" /\ f.review > lastReview[f.id]
  <2>1. /\ task[h].at = "save" /\ task'[h].at = "rest"
        /\ files' = {g \in files : g.id # f.id} \cup {f}
        /\ \A k \in Handlers \ {h} :
             /\ task'[k].at = task[k].at /\ task'[k].copy = task[k].copy
             /\ ~task'[k].newer => ~task[k].newer
             /\ task[k].at = "save" /\ task[k].copy.id = f.id => task'[k].newer
        /\ UNCHANGED reviewOf
    BY <1>11, Saving
  <2>2. reborn \subseteq reborn' /\ overwritten \subseteq overwritten'
    BY <1>11 DEF SaveFile
  <2>3. f.id \in 1..MaxOps /\ f.review \in 0..MaxOps
    BY <2>1, AtWork, FileFields
  <2>4. /\ lastReview'[f.id] = IF fresh THEN f.review ELSE lastReview[f.id]
        /\ \A k \in 1..MaxOps \ {f.id} : lastReview'[k] = lastReview[k]
    BY <1>11, <2>3 DEF SaveFile, FilesTypeOK
  <2>5. ~fresh /\ f.review # lastReview[f.id] /\ task[h].newer => f.id \in overwritten'
    BY <1>11 DEF SaveFile
  <2>6. f.review = lastReview'[f.id] \/ f.id \in overwritten' \cup reborn'
    <3>1. CASE fresh
      <4>1. lastReview'[f.id] = f.review
        BY <2>4, <3>1
      <4>2. QED
        BY <4>1
    <3>2. CASE ~fresh /\ task[h].newer
      BY <2>4, <2>5, <3>2 DEF Known
    <3>3. CASE ~fresh /\ ~task[h].newer
      <4>1. NewOrLast(f) \/ Known(f.id)
        BY <1>2, <2>1, <3>3
      <4>2. f.review = lastReview[f.id] \/ Known(f.id)
        BY <3>3, <4>1 DEF NewOrLast
      <4>3. lastReview'[f.id] = lastReview[f.id]
        BY <2>4, <3>3
      <4>4. QED
        BY <2>2, <4>2, <4>3 DEF Known
    <3>4. QED
      BY <3>1, <3>2, <3>3
  <2>7. \A g \in files : g.id # f.id => g.review = lastReview'[g.id] \/ Known(g.id)'
    <3>1. \A g \in files : g.id \in 1..MaxOps
      BY FileFields DEF FilesTypeOK
    <3>2. QED
      BY <1>1, <2>2, <2>4, <3>1 DEF Known
  <2>8. ASSUME NEW k \in Handlers, task'[k].at = "save", ~task'[k].newer
        PROVE  NewOrLast(task[k].copy)' \/ Known(task[k].copy.id)'
    <3>1. /\ k # h /\ task'[k].copy = task[k].copy /\ task[k].at = "save" /\ ~task[k].newer
          /\ task[k].copy.id # f.id
      BY <2>1, <2>8
    <3>2. task[k].copy.id \in 1..MaxOps \ {f.id}
      BY <3>1, AtWork
    <3>3. lastReview'[task[k].copy.id] = lastReview[task[k].copy.id]
      BY <2>4, <3>2
    <3>4. NewOrLast(task[k].copy) \/ Known(task[k].copy.id)
      BY <1>2, <3>1
    <3>5. Known(task[k].copy.id) => Known(task[k].copy.id)'
      BY <2>2, <3>1 DEF Known
    <3>6. NewOrLast(task[k].copy) => NewOrLast(task[k].copy)'
      BY <2>1, <3>1, <3>3 DEF NewOrLast
    <3>7. QED
      BY <3>4, <3>5, <3>6
  <2>9. QED
    <3>1. \A g \in files' : g.review = lastReview'[g.id] \/ Known(g.id)'
      BY <2>1, <2>6, <2>7 DEF Known
    <3>2. QED
      BY <1>3, <2>8, <3>1
<1>12. CASE UNCHANGED fileVars
  BY <1>12 DEF fileVars, Current, NewOrLast
<1>13. QED
  BY <1>5, <1>6, <1>7, <1>8, <1>9, <1>10, <1>11, <1>12 DEF FilesNext

-----------------------------------------------------------------------------
(* Rows and objects. *)

BeingDeleted(f) == \E h \in Handlers : task[h].at = "delete row" /\ task[h].copy.id = f.id
RowIsSound(f) == f.object \in objects \cup {0} \cup cutShort \cup reborn \/ BeingDeleted(f)

LEMMA RowsStep ==
  ASSUME FilesTypeOK, FilesNumbered, Uploads, Stored, RowsHaveObjects, [FilesNext]_fileVars
  PROVE  RowsHaveObjects'
<1>1. \A f \in files : RowIsSound(f)
  BY DEF RowsHaveObjects, RowIsSound, BeingDeleted
<1>2. ASSUME \A f \in files' : RowIsSound(f)' PROVE RowsHaveObjects'
  BY <1>2 DEF RowsHaveObjects, RowIsSound, BeingDeleted
<1>3. ASSUME NEW h \in Handlers, task[h].at # "delete row",
             \A k \in Handlers \ {h} : task'[k].at = task[k].at /\ task'[k].copy = task[k].copy,
             NEW f, RowIsSound(f),
             objects \subseteq objects', cutShort \subseteq cutShort', reborn \subseteq reborn'
      PROVE  RowIsSound(f)'
  <2>1. BeingDeleted(f) => BeingDeleted(f)'
    BY <1>3 DEF BeingDeleted
  <2>2. QED
    BY <1>3, <2>1 DEF RowIsSound
<1>4. ASSUME NEW h \in Handlers, Create(h) PROVE RowsHaveObjects'
  <2>1. /\ task[h].at = "rest" /\ \A k \in Handlers \ {h} : task'[k] = task[k]
        /\ UNCHANGED <<files, objects, cutShort, reborn>>
    BY <1>4, Beginning DEF SameFacts
  <2>2. QED
    BY <1>1, <1>2, <1>3, <2>1
<1>5. ASSUME NEW h \in Handlers, Describe(h) \/ Review(h) \/ Destroy(h) PROVE RowsHaveObjects'
  <2>1. task[h].at = "rest" /\ UNCHANGED <<files, objects, cutShort, reborn>>
    BY <1>5, Copying
  <2>2. \A k \in Handlers \ {h} : task'[k] = task[k]
    BY <1>5, Copying DEF Copies
  <2>3. QED
    BY <1>1, <1>2, <1>3, <2>1, <2>2
<1>6. ASSUME NEW h \in Handlers, Store(h) PROVE RowsHaveObjects'
  <2>1. /\ task[h].at = "store" /\ \A k \in Handlers \ {h} : task'[k] = task[k]
        /\ objects \subseteq objects' /\ UNCHANGED <<files, cutShort, reborn>>
    BY <1>6, Storing DEF SameFacts
  <2>2. QED
    BY <1>1, <1>2, <1>3, <2>1
<1>7. ASSUME NEW h \in Handlers, InsertFile(h) PROVE RowsHaveObjects'
  <2> DEFINE c == task[h].copy
  <2>1. /\ task[h].at = "insert" /\ \A k \in Handlers \ {h} : task'[k] = task[k]
        /\ UNCHANGED <<objects, reborn>>
    BY <1>7, Ending
  <2>2. files' \subseteq files \cup {c} /\ UNCHANGED cutShort
    BY <1>7 DEF InsertFile
  <2>3. c.object \in objects \cup {0}
    BY <2>1 DEF Stored
  <2>4. RowIsSound(c)
    BY <2>3 DEF RowIsSound
  <2>5. ASSUME NEW f \in files' PROVE RowIsSound(f)'
    <3>1. RowIsSound(f)
      BY <1>1, <2>2, <2>4, <2>5
    <3>2. QED
      BY <1>3, <2>1, <2>2, <3>1
  <2>6. QED
    BY <1>2, <2>5
<1>8. ASSUME NEW h \in Handlers, SaveFile(h) PROVE RowsHaveObjects'
  <2> DEFINE c == task[h].copy
  <2>1. /\ task[h].at = "save"
        /\ files' = {g \in files : g.id # c.id} \cup {c}
        /\ \A k \in Handlers \ {h} : task'[k].at = task[k].at /\ task'[k].copy = task[k].copy
        /\ reborn' = IF \E g \in files : g.id = c.id THEN reborn ELSE reborn \cup {c.id}
        /\ UNCHANGED <<objects, cutShort>>
    BY <1>8, Saving
  <2>2. reborn \subseteq reborn'
    BY <2>1
  <2>3. ASSUME NEW f, RowIsSound(f) PROVE RowIsSound(f)'
    BY <1>3, <2>1, <2>2, <2>3
  <2>4. ASSUME NEW f \in files' PROVE RowIsSound(f)'
    <3>1. CASE f \in files
      BY <1>1, <2>3, <3>1
    <3>2. CASE f = c /\ \E g \in files : g.id = c.id
      <4>1. PICK g \in files : g.id = c.id
        BY <3>2
      <4>2. g.object = c.object
        BY <2>1, <4>1 DEF FilesNumbered, SameObject
      <4>3. RowIsSound(g)
        BY <1>1
      <4>4. RowIsSound(c)
        BY <4>1, <4>2, <4>3 DEF RowIsSound, BeingDeleted
      <4>5. QED
        BY <2>3, <3>2, <4>4
    <3>3. CASE f = c /\ ~\E g \in files : g.id = c.id
      <4>1. c.object \in {0, c.id}
        BY <2>1, AtWork DEF OwnObject
      <4>2. f.object \in {0} \cup reborn'
        BY <2>1, <3>3, <4>1
      <4>3. QED
        BY <4>2 DEF RowIsSound
    <3>4. QED
      BY <2>1, <3>1, <3>2, <3>3
  <2>5. QED
    BY <1>2, <2>4
<1>9. ASSUME NEW h \in Handlers, DeleteObject(h) PROVE RowsHaveObjects'
  <2> DEFINE c == task[h].copy
  <2>1. /\ task[h].at = "delete object" /\ task'[h].at = "delete row" /\ task'[h].copy = c
        /\ \A k \in Handlers \ {h} : task'[k] = task[k]
        /\ objects' = objects \ {c.object}
        /\ UNCHANGED <<files, cutShort, reborn>>
    BY <1>9, Deleting DEF SameFacts
  <2>2. c.object \in {0, c.id}
    BY <2>1, AtWork DEF OwnObject
  <2>3. ASSUME NEW f \in files' PROVE RowIsSound(f)'
    <3>1. f \in files /\ RowIsSound(f) /\ f.object \in {0, f.id}
      BY <1>1, <2>1, <2>3 DEF FilesNumbered, OwnObject
    <3>2. BeingDeleted(f) => BeingDeleted(f)'
      BY <2>1 DEF BeingDeleted
    <3>3. CASE f.object = 0
      BY <3>3 DEF RowIsSound
    <3>4. CASE f.object # 0 /\ f.object = c.object
      <4>1. c.id = f.id
        BY <2>2, <3>1, <3>4
      <4>2. QED
        BY <2>1, <4>1 DEF RowIsSound, BeingDeleted
    <3>5. CASE f.object # c.object
      BY <2>1, <3>1, <3>2, <3>5 DEF RowIsSound
    <3>6. QED
      BY <3>3, <3>4, <3>5
  <2>4. QED
    BY <1>2, <2>3
<1>10. ASSUME NEW h \in Handlers, DeleteFile(h) \/ Dies(h) PROVE RowsHaveObjects'
  <2> DEFINE c == task[h].copy
  <2>1. /\ \A k \in Handlers \ {h} : task'[k] = task[k]
        /\ UNCHANGED <<objects, reborn>>
    BY <1>10, Ending
  <2>2. ASSUME NEW f \in files' PROVE RowIsSound(f)'
    <3>1. f \in files /\ cutShort \subseteq cutShort' /\ (f.id = c.id => c.id \in cutShort')
      BY <1>10, <2>2 DEF DeleteFile, Dies, SameFacts
    <3>2. RowIsSound(f) /\ f.object \in {0, f.id}
      BY <1>1, <3>1 DEF FilesNumbered, OwnObject
    <3>3. CASE f.id = c.id
      BY <3>1, <3>2, <3>3 DEF RowIsSound
    <3>4. CASE f.id # c.id
      <4>1. BeingDeleted(f) => BeingDeleted(f)'
        BY <2>1, <3>4 DEF BeingDeleted
      <4>2. QED
        BY <2>1, <3>1, <3>2, <4>1 DEF RowIsSound
    <3>5. QED
      BY <3>3, <3>4
  <2>3. QED
    BY <1>2, <2>2
<1>11. CASE UNCHANGED fileVars
  BY <1>11 DEF fileVars, RowsHaveObjects
<1>12. QED
  BY <1>4, <1>5, <1>6, <1>7, <1>8, <1>9, <1>10, <1>11 DEF FilesNext

BeingMade(o) == \E h \in Handlers : task[h].at = "insert" /\ task[h].copy.object = o
ObjectIsSound(o) == o \in refused \/ (\E f \in files : f.object = o) \/ BeingMade(o)

LEMMA ObjectsStep ==
  ASSUME FilesTypeOK, FilesNumbered, Stored, ObjectsHaveRows, [FilesNext]_fileVars
  PROVE  ObjectsHaveRows'
<1>1. \A o \in objects : ObjectIsSound(o)
  BY DEF ObjectsHaveRows, ObjectIsSound, BeingMade
<1>2. ASSUME \A o \in objects' : ObjectIsSound(o)' PROVE ObjectsHaveRows'
  BY <1>2 DEF ObjectsHaveRows, ObjectIsSound, BeingMade
<1>3. ASSUME NEW h \in Handlers, task[h].at # "insert",
             \A k \in Handlers \ {h} : task'[k].at = task[k].at /\ task'[k].copy = task[k].copy,
             NEW o, ObjectIsSound(o), refused' = refused,
             (\E f \in files : f.object = o) => \E f \in files' : f.object = o
      PROVE  ObjectIsSound(o)'
  <2>1. BeingMade(o) => BeingMade(o)'
    BY <1>3 DEF BeingMade
  <2>2. QED
    BY <1>3, <2>1 DEF ObjectIsSound
<1>4. ASSUME NEW h \in Handlers, Create(h) PROVE ObjectsHaveRows'
  <2>1. /\ task[h].at = "rest" /\ \A k \in Handlers \ {h} : task'[k] = task[k]
        /\ UNCHANGED <<files, objects, refused>>
    BY <1>4, Beginning DEF SameFacts
  <2>2. QED
    BY <1>1, <1>2, <1>3, <2>1
<1>5. ASSUME NEW h \in Handlers, Describe(h) \/ Review(h) \/ Destroy(h) PROVE ObjectsHaveRows'
  <2>1. task[h].at = "rest" /\ UNCHANGED <<files, objects, refused>>
    BY <1>5, Copying
  <2>2. \A k \in Handlers \ {h} : task'[k] = task[k]
    BY <1>5, Copying DEF Copies
  <2>3. QED
    BY <1>1, <1>2, <1>3, <2>1, <2>2
<1>6. ASSUME NEW h \in Handlers, Store(h) PROVE ObjectsHaveRows'
  <2>1. /\ task[h].at = "store" /\ \A k \in Handlers \ {h} : task'[k] = task[k]
        /\ task'[h].at = "insert" /\ task'[h].copy = task[h].copy
        /\ objects' = objects \cup {task[h].copy.object} /\ UNCHANGED <<files, refused>>
    BY <1>6, Storing DEF SameFacts
  <2>2. ObjectIsSound(task[h].copy.object)'
    <3> DEFINE o == task[h].copy.object
    <3>1. task'[h].copy.object = o
      BY <2>1
    <3>2. \E k \in Handlers : task'[k].at = "insert" /\ task'[k].copy.object = task'[h].copy.object
      BY <2>1
    <3>3. QED
      BY <3>2 DEF ObjectIsSound, BeingMade
  <2>3. \A o \in objects : ObjectIsSound(o)'
    BY <1>1, <1>3, <2>1
  <2>4. QED
    <3>1. task'[h].copy.object = task[h].copy.object
      BY <2>1
    <3>2. \A o \in objects' : o \in objects \/ o = task'[h].copy.object
      BY <2>1, <3>1
    <3>3. \A o \in objects' : ObjectIsSound(o)'
      BY <2>2, <2>3, <3>2
    <3>4. QED
      BY <1>2, <3>3
<1>7. ASSUME NEW h \in Handlers, InsertFile(h) PROVE ObjectsHaveRows'
  <2> DEFINE c == task[h].copy
  <2>1. /\ task[h].at = "insert" /\ \A k \in Handlers \ {h} : task'[k] = task[k]
        /\ objects' = objects
    BY <1>7, Ending
  <2>2. \/ files' = files \cup {c} /\ refused' = refused
        \/ files' = files /\ refused' = refused \cup {c.object}
    BY <1>7 DEF InsertFile
  <2>3. ASSUME NEW o \in objects' PROVE ObjectIsSound(o)'
    <3>1. ObjectIsSound(o)
      BY <1>1, <2>1
    <3>2. CASE o = c.object
      BY <2>2, <3>2 DEF ObjectIsSound
    <3>3. CASE o # c.object
      <4>1. BeingMade(o) => BeingMade(o)'
        BY <2>1, <3>3 DEF BeingMade
      <4>2. QED
        BY <2>2, <3>1, <4>1 DEF ObjectIsSound
    <3>4. QED
      BY <3>2, <3>3
  <2>4. QED
    BY <1>2, <2>3
<1>8. ASSUME NEW h \in Handlers, SaveFile(h) PROVE ObjectsHaveRows'
  <2> DEFINE c == task[h].copy
  <2>1. /\ task[h].at = "save"
        /\ files' = {g \in files : g.id # c.id} \cup {c}
        /\ \A k \in Handlers \ {h} : task'[k].at = task[k].at /\ task'[k].copy = task[k].copy
        /\ UNCHANGED <<objects, refused>>
    BY <1>8, Saving
  <2>2. \A g \in files : g.id = c.id => g.object = c.object
    BY <2>1 DEF FilesNumbered, SameObject
  <2>3. \A g \in files : \E f \in files' : f.object = g.object
    BY <2>1, <2>2
  <2>4. \A o \in objects' : ObjectIsSound(o)'
    BY <1>1, <1>3, <2>1, <2>3
  <2>5. QED
    BY <1>2, <2>4
<1>9. ASSUME NEW h \in Handlers, DeleteObject(h) PROVE ObjectsHaveRows'
  <2>1. /\ task[h].at = "delete object" /\ \A k \in Handlers \ {h} : task'[k] = task[k]
        /\ objects' \subseteq objects /\ UNCHANGED <<files, refused>>
    BY <1>9, Deleting DEF SameFacts
  <2>2. QED
    BY <1>1, <1>2, <1>3, <2>1
<1>10. ASSUME NEW h \in Handlers, DeleteFile(h) PROVE ObjectsHaveRows'
  <2> DEFINE c == task[h].copy
  <2>1. /\ task[h].at = "delete row" /\ \A k \in Handlers \ {h} : task'[k] = task[k]
        /\ files' = {f \in files : f.id # c.id} /\ UNCHANGED <<objects, refused>>
    BY <1>10, Turned DEF DeleteFile, SameFacts
  <2>2. c.object \notin objects
    BY <2>1 DEF Stored
  <2>3. \A g \in files : g.id = c.id => g.object = c.object
    BY <2>1 DEF FilesNumbered, SameObject
  <2>4. ASSUME NEW o \in objects' PROVE ObjectIsSound(o)'
    <3>1. (\E f \in files : f.object = o) => \E f \in files' : f.object = o
      BY <2>1, <2>2, <2>3
    <3>2. QED
      BY <1>1, <1>3, <2>1, <3>1
  <2>5. QED
    BY <1>2, <2>4
<1>11. ASSUME NEW h \in Handlers, Dies(h) PROVE ObjectsHaveRows'
  <2>1. /\ task[h].at = "delete row" /\ \A k \in Handlers \ {h} : task'[k] = task[k]
        /\ UNCHANGED <<files, objects, refused>>
    BY <1>11, Turned DEF Dies
  <2>2. QED
    BY <1>1, <1>2, <1>3, <2>1
<1>12. CASE UNCHANGED fileVars
  BY <1>12 DEF fileVars, ObjectsHaveRows
<1>13. QED
  BY <1>4, <1>5, <1>6, <1>7, <1>8, <1>9, <1>10, <1>11, <1>12 DEF FilesNext

-----------------------------------------------------------------------------
(* The invariant. *)

LEMMA FilesInitially == FilesInit => FilesInv
<1> SUFFICES ASSUME FilesInit PROVE FilesInv
  OBVIOUS
<1>1. /\ files = {} /\ objects = {} /\ opened = 0 /\ reviewOf = [k \in 0..MaxOps |-> "nobody"]
      /\ lastReview = [k \in 1..MaxOps |-> 0]
      /\ \A h \in Handlers : task[h].at = "rest"
  BY RestIsTask DEF FilesInit
<1>2. MaxOps \in Nat /\ 0 \in 0..MaxOps
  BY FilesAssumption
<1>3. FilesTypeOK
  <2>1. task \in [Handlers -> Task]
    BY RestIsTask DEF FilesInit
  <2>2. QED
    BY <1>1, <1>2, <2>1 DEF FilesInit, FilesTypeOK
<1>4. FilesNumbered /\ Uploads /\ Stored
  BY <1>1 DEF FilesNumbered, Uploads, Making, Stored
<1>5. Attributed
  BY <1>1, <1>2 DEF Attributed
<1>6. Current /\ RowsHaveObjects /\ ObjectsHaveRows
  BY <1>1 DEF Current, RowsHaveObjects, ObjectsHaveRows
<1>7. QED
  BY <1>3, <1>4, <1>5, <1>6 DEF FilesInv

LEMMA FilesInvariance == FilesInv /\ [FilesNext]_fileVars => FilesInv'
  BY FilesTypeStep, FilesNumberedStep, UploadsStep, StoredStep, AttributedStep, CurrentStep, RowsStep,
     ObjectsStep DEF FilesInv

\* Rows, objects, copies and reviews agree in every reachable state: who makes or
\* deletes a row knows where its object is.
THEOREM FilesInductive == FilesSpec => []FilesInv
  BY FilesInitially, FilesInvariance, PTL DEF FilesSpec

\* Every reachable state is well-typed.
THEOREM FilesTypeCorrect == FilesSpec => []FilesTypeOK
<1>1. FilesInv => FilesTypeOK
  BY DEF FilesInv
<1>2. QED
  BY <1>1, FilesInductive, PTL

\* Whatever overlaps or dies, ProjectFileViewSet leaves the row, the object and
\* the review of a file in agreement, but for the cases the property names.
THEOREM FilesStaySound == FilesSpec => []FilesAreSound
<1>1. FilesInv => FilesAreSound
  BY DEF FilesInv, Attributed, Current, FilesAreSound, ReviewsAreAttributed
<1>2. QED
  BY <1>1, FilesInductive, PTL
-----------------------------------------------------------------------------
(*****************************************************************************)
(* Client records: a client, its inquiry and the order it becomes.           *)
(*****************************************************************************)
IsClient(c) == c = [id |-> c.id, active |-> c.active, projects |-> c.projects]
IsInquiry(i) == i = [id |-> i.id, client |-> i.client, status |-> i.status, reply |-> i.reply]
IsOrder(o) ==
    /\ o = [id |-> o.id, client |-> o.client, inquiry |-> o.inquiry, open |-> o.open, total |-> o.total]
    /\ o.open \in BOOLEAN
Shaped(d) == d = [at |-> d.at, k |-> d.k, of |-> d.of, row |-> d.row, seen |-> d.seen, total |-> d.total,
                  items |-> d.items, flag |-> d.flag, newer |-> d.newer, jumbled |-> d.jumbled]
IsDesk(d) ==
    /\ Shaped(d)
    /\ d.flag \in BOOLEAN /\ d.newer \in BOOLEAN /\ d.jumbled \in BOOLEAN

InquiryStages == {"saveInquiry", "clear", "item", "convert", "copy", "commit"}
ErasingStages == {"check", "deactivate", "delete"}

\* What a request holds, by how far it has come.
Holding(w) ==
    LET d == desk[w] IN
    /\ IsDesk(d) /\ d.k \in 0..begun /\ d.seen.id \in 0..begun
    /\ d.at \in InquiryStages \cup ErasingStages \cup {"idle", "saveOrder", "saveClient"}
    /\ d.of = "inquiry" <=> d.at \in InquiryStages
    /\ d.of = "order" <=> d.at = "saveOrder"
    /\ d.of = "client" <=> d.at = "saveClient"
    /\ d.of = "records" <=> d.at \in ErasingStages
    /\ d.at # "idle" => d.k # 0
    /\ d.at \in InquiryStages => IsInquiry(d.row) /\ d.row.id \in 1..begun
    /\ d.at = "saveInquiry" =>
         /\ d.row.client # 0 /\ d.items \in {{}, TwoItems(d.k)}
         /\ d.row.id # d.k => (d.flag <=> d.items # {})
    /\ d.at = "clear" => d.items = TwoItems(d.k)
    /\ d.at = "item" => d.items # {} /\ d.items \subseteq TwoItems(d.k)
    /\ d.at = "saveOrder" =>
         /\ IsOrder(d.row) /\ d.row.id # 0 /\ d.row.inquiry \in 0..begun
         /\ d.items \in {{}, TwoItems(d.k)} /\ d.total \in {{}, Given(d.k)}
    /\ d.at \in {"copy", "commit", "saveClient"} => IsClient(d.seen)
    /\ d.at \in {"copy", "commit", "saveClient"} \cup ErasingStages => d.seen.id # 0

Whole(S) == S = {} \/ \E k \in 1..Last : S = TwoItems(k)

\* What a request knows: unless a row was written since it was read, the row as
\* it is.
Knowing(w) ==
    LET d == desk[w] IN
    /\ d.at \in InquiryStages => inquiry.id \in {0, d.row.id}
    /\ d.at = "saveInquiry" /\ ~d.newer /\ d.row.id # d.k =>
         /\ inquiry.id = d.row.id
         /\ d.row.status \in {inquiry.status, "resolved"} \/ reopened
         /\ d.row.reply \in {inquiry.reply, d.k}
    /\ d.at \in {"convert", "copy", "commit"} /\ ~d.newer => d.row.reply = inquiry.reply
    /\ d.at \in {"convert", "copy"} /\ ~d.jumbled => Whole(items)
    /\ d.at = "copy" /\ ~d.jumbled => d.total = items
    /\ d.at = "commit" /\ ~d.jumbled => d.total = d.items /\ Whole(d.items)
    /\ d.at = "saveOrder" /\ ~d.newer =>
         /\ order.id = d.row.id /\ order.total = d.row.total
         /\ d.row.open <=> IF d.flag THEN ~order.open ELSE order.open
    /\ d.at = "saveClient" /\ ~d.newer => d.seen.id = client.id
    /\ d.at = "saveClient" /\ ~d.newer /\ ~d.flag => d.seen.projects = client.projects
    /\ d.at = "check" /\ ~d.newer /\ order.id # 0 /\ order.client = d.seen.id => d.flag
    /\ d.at = "delete" /\ ~d.newer =>
         /\ order.id # 0 => order.client # d.seen.id
         /\ inquiry.id # 0 => inquiry.client # d.seen.id

RowsTyped ==
    /\ IsClient(client) /\ IsInquiry(inquiry) /\ IsOrder(order)
    /\ begun \in 1..Last
    /\ client.id \in 0..begun /\ inquiry.id \in 0..begun /\ order.client \in 0..begun
    /\ order.inquiry \in {0, inquiry.id}
    /\ order.id = 0 => ~order.open /\ order.client = 0
    /\ inquiry.id = 0 => items = {}
    /\ halved \in BOOLEAN /\ reopened \in BOOLEAN /\ recorded \in BOOLEAN /\ owed \in BOOLEAN
RecordsTyped == desk = [w \in Workers |-> desk[w]] /\ (\A w \in Workers : Holding(w)) /\ RowsTyped

\* Who works on an inquiry works on the same; a new one has nobody else.
OneInquiry ==
    \A w \in Workers : desk[w].at \in InquiryStages =>
      /\ \A v \in Workers : desk[v].at \in InquiryStages => desk[v].row.id = desk[w].row.id
      /\ desk[w].at = "saveInquiry" /\ desk[w].row.id = desk[w].k =>
           /\ inquiry.id = 0 /\ ~desk[w].flag /\ desk[w].row.status = "new" /\ desk[w].row.reply = 0
           /\ \A v \in Workers : desk[v].at \in InquiryStages => v = w
           /\ \A v \in Workers : desk[v].at = "saveOrder" => desk[v].row.inquiry # desk[w].k

\* Items are written by one request at a time, and are whole when it is done.
OneWriter ==
    ~halved =>
      /\ \A w \in Workers : desk[w].at = "item" =>
           /\ \A v \in Workers : desk[v].at = "item" => v = w
           /\ items = TwoItems(desk[w].k) \ desk[w].items
      /\ (\A w \in Workers : desk[w].at # "item") => Whole(items)

\* The inquiry is or has been converted, and its order may come back.
Converted ==
    \/ order.id # 0 /\ order.inquiry = inquiry.id
    \/ \E w \in Workers : desk[w].at = "saveOrder" /\ desk[w].row.inquiry = inquiry.id
InquiryKept ==
    inquiry.id # 0 /\ "inquiry" \notin stale =>
      /\ Converted => inquiry.status = "resolved" \/ reopened
      /\ inquiry.reply = lastReply

NobodyTaken ==
    slipped = {} =>
      /\ inquiry.id # 0 => inquiry.client = client.id /\ client.id # 0
      /\ order.id # 0 => order.client = client.id /\ client.id # 0
Counted ==
    client.id # 0 /\ ~owed /\ "client" \notin stale =>
      client.projects = IF order.open /\ order.client = client.id THEN 1 ELSE 0

RecordsInv ==
    /\ RecordsTyped /\ (\A w \in Workers : Knowing(w))
    /\ OneInquiry /\ OneWriter /\ OrderAgrees /\ InquiryKept /\ NobodyTaken /\ Counted

\* What a request that goes on changes on its desk.
LEMMA GoesDesk ==
    ASSUME NEW d, Shaped(d), NEW a
    PROVE  [d EXCEPT !.at = a] =
             [at |-> a, k |-> d.k, of |-> d.of, row |-> d.row, seen |-> d.seen, total |-> d.total,
              items |-> d.items, flag |-> d.flag, newer |-> d.newer, jumbled |-> d.jumbled]
<1>1. PICK e1 : e1 = [d EXCEPT !.at = a]
  OBVIOUS
<1>2. [d EXCEPT !.at = a] = e1
  BY <1>1, Zenon
<1>3. e1 = [at |-> a, k |-> d.k, of |-> d.of, row |-> d.row, seen |-> d.seen, total |-> d.total,
            items |-> d.items, flag |-> d.flag, newer |-> d.newer, jumbled |-> d.jumbled]
  BY <1>1 DEF Shaped
<1>4. QED
  BY <1>2, <1>3, Zenon

LEMMA ItemsDesk ==
    ASSUME NEW d, Shaped(d), NEW i
    PROVE  [d EXCEPT !.items = i] =
             [at |-> d.at, k |-> d.k, of |-> d.of, row |-> d.row, seen |-> d.seen, total |-> d.total,
              items |-> i, flag |-> d.flag, newer |-> d.newer, jumbled |-> d.jumbled]
<1>1. PICK e1 : e1 = [d EXCEPT !.items = i]
  OBVIOUS
<1>2. [d EXCEPT !.items = i] = e1
  BY <1>1, Zenon
<1>3. e1 = [at |-> d.at, k |-> d.k, of |-> d.of, row |-> d.row, seen |-> d.seen, total |-> d.total,
            items |-> i, flag |-> d.flag, newer |-> d.newer, jumbled |-> d.jumbled]
  BY <1>1 DEF Shaped
<1>4. QED
  BY <1>2, <1>3, Zenon

LEMMA PricedDesk ==
    ASSUME NEW d, Shaped(d), NEW a, NEW s, NEW t
    PROVE  [d EXCEPT !.at = a, !.seen = s, !.total = t] =
             [at |-> a, k |-> d.k, of |-> d.of, row |-> d.row, seen |-> s, total |-> t,
              items |-> d.items, flag |-> d.flag, newer |-> d.newer, jumbled |-> d.jumbled]
<1>1. PICK e1 : e1 = [d EXCEPT !.at = a]
  OBVIOUS
<1>2. PICK e2 : e2 = [e1 EXCEPT !.seen = s]
  OBVIOUS
<1>3. PICK e3 : e3 = [e2 EXCEPT !.total = t]
  OBVIOUS
<1>4. [d EXCEPT !.at = a, !.seen = s, !.total = t] = e3
  BY <1>1, <1>2, <1>3, Zenon
<1>5. e3 = [at |-> a, k |-> d.k, of |-> d.of, row |-> d.row, seen |-> s, total |-> t,
            items |-> d.items, flag |-> d.flag, newer |-> d.newer, jumbled |-> d.jumbled]
  BY <1>1, <1>2, <1>3 DEF Shaped
<1>6. QED
  BY <1>4, <1>5, Zenon

LEMMA LearntDesk ==
    ASSUME NEW d, Shaped(d), NEW n, NEW j
    PROVE  [d EXCEPT !.newer = n, !.jumbled = j] =
             [at |-> d.at, k |-> d.k, of |-> d.of, row |-> d.row, seen |-> d.seen, total |-> d.total,
              items |-> d.items, flag |-> d.flag, newer |-> n, jumbled |-> j]
<1>1. PICK e1 : e1 = [d EXCEPT !.newer = n]
  OBVIOUS
<1>2. PICK e2 : e2 = [e1 EXCEPT !.jumbled = j]
  OBVIOUS
<1>3. [d EXCEPT !.newer = n, !.jumbled = j] = e2
  BY <1>1, <1>2, Zenon
<1>4. e2 = [at |-> d.at, k |-> d.k, of |-> d.of, row |-> d.row, seen |-> d.seen, total |-> d.total,
            items |-> d.items, flag |-> d.flag, newer |-> n, jumbled |-> j]
  BY <1>1, <1>2 DEF Shaped
<1>5. QED
  BY <1>3, <1>4, Zenon
-----------------------------------------------------------------------------
\* w turns to `next`, the others learn that the `rows` were written.
Sees(v, rows) ==
    /\ IsDesk(desk'[v])
    /\ desk'[v].at = desk[v].at /\ desk'[v].k = desk[v].k /\ desk'[v].of = desk[v].of
    /\ desk'[v].row = desk[v].row /\ desk'[v].seen = desk[v].seen
    /\ desk'[v].total = desk[v].total /\ desk'[v].items = desk[v].items /\ desk'[v].flag = desk[v].flag
    /\ desk'[v].newer <=> desk[v].newer \/ desk[v].of \in rows
    /\ desk'[v].jumbled <=> desk[v].jumbled \/ (desk[v].at \in {"convert", "copy"} /\ "items" \in rows)
TurnsTo(w, next, rows) ==
    /\ desk' = [v \in Workers |-> desk'[v]] /\ desk'[w] = next
    /\ \A v \in Workers \ {w} : Sees(v, rows)

LEMMA DeskWritten ==
    ASSUME RecordsTyped, NEW w \in Workers, NEW next, NEW rows, Writes(w, next, rows)
    PROVE  TurnsTo(w, next, rows)
<1>1. desk' = [v \in Workers |->
         IF v = w THEN next
         ELSE [desk[v] EXCEPT !.newer = @ \/ desk[v].of \in rows,
                              !.jumbled = @ \/ (desk[v].at \in {"convert", "copy"} /\ "items" \in rows)]]
  BY DEF Writes
<1>2. ASSUME NEW v \in Workers \ {w}
      PROVE  Sees(v, rows)
  <2>1. desk'[v] = [desk[v] EXCEPT !.newer = @ \/ desk[v].of \in rows,
                       !.jumbled = @ \/ (desk[v].at \in {"convert", "copy"} /\ "items" \in rows)]
    BY <1>1
  <2>2. PICK d : d = desk[v]
    OBVIOUS
  <2>3. IsDesk(d)
    BY <2>2 DEF RecordsTyped, Holding
  <2>4. PICK n \in BOOLEAN, j \in BOOLEAN :
          /\ n = (d.newer \/ d.of \in rows)
          /\ j = (d.jumbled \/ (d.at \in {"convert", "copy"} /\ "items" \in rows))
    OBVIOUS
  <2>5. desk'[v] = [d EXCEPT !.newer = n, !.jumbled = j]
    BY <2>1, <2>2, <2>4
  <2>6. [d EXCEPT !.newer = n, !.jumbled = j] =
          [at |-> d.at, k |-> d.k, of |-> d.of, row |-> d.row, seen |-> d.seen, total |-> d.total,
           items |-> d.items, flag |-> d.flag, newer |-> n, jumbled |-> j]
    <3>1. Shaped(d)
      BY <2>3 DEF IsDesk
    <3>2. QED
      BY <3>1, LearntDesk, Zenon
  <2>7. desk'[v] = [at |-> d.at, k |-> d.k, of |-> d.of, row |-> d.row, seen |-> d.seen, total |-> d.total,
                    items |-> d.items, flag |-> d.flag, newer |-> n, jumbled |-> j]
    BY <2>5, <2>6
  <2>8. IsDesk(desk'[v])
    BY <2>3, <2>7 DEF IsDesk, Shaped
  <2>9. desk'[v].newer = n /\ desk'[v].jumbled = j
    BY <2>7
  <2>10. /\ desk'[v].newer <=> desk[v].newer \/ desk[v].of \in rows
         /\ desk'[v].jumbled <=> desk[v].jumbled \/ (desk[v].at \in {"convert", "copy"} /\ "items" \in rows)
    BY <2>2, <2>4, <2>9, Zenon
  <2>11. /\ desk'[v].at = desk[v].at /\ desk'[v].k = desk[v].k /\ desk'[v].of = desk[v].of
         /\ desk'[v].row = desk[v].row /\ desk'[v].seen = desk[v].seen
         /\ desk'[v].total = desk[v].total /\ desk'[v].items = desk[v].items /\ desk'[v].flag = desk[v].flag
    BY <2>2, <2>7
  <2>12. QED
    BY <2>8, <2>10, <2>11 DEF Sees
<1>3. QED
  BY <1>1, <1>2 DEF TurnsTo

LEMMA DeskRead ==
    ASSUME RecordsTyped, NEW w \in Workers, NEW next, Reads(w, next)
    PROVE  TurnsTo(w, next, {}) /\ \A v \in Workers \ {w} : desk'[v] = desk[v]
<1>1. /\ desk' = [v \in Workers |-> desk'[v]] /\ desk'[w] = next
      /\ \A v \in Workers \ {w} : desk'[v] = desk[v]
  BY DEF Reads, RecordsTyped
<1>2. QED
  BY <1>1 DEF TurnsTo, Sees, RecordsTyped, Holding

\* What a step of w changes is announced to the others.
Announced(w, rows) ==
    /\ begun' \in begun..Last
    /\ inquiry' = inquiry \/ "inquiry" \in rows
    /\ inquiry'.id \in {0, inquiry.id} \/ (desk[w].at \in InquiryStages /\ inquiry'.id = desk[w].row.id)
    /\ (reopened => reopened') \/ "inquiry" \in rows
    /\ items' = items \/ "items" \in rows
    /\ order' = order \/ "order" \in rows
    /\ (client'.id = client.id /\ client'.projects = client.projects) \/ "client" \in rows
    /\ \/ "records" \in rows
       \/ /\ order'.id \in {0, order.id} /\ order'.client \in {0, order.client}
          /\ inquiry'.id \in {0, inquiry.id} /\ inquiry'.client \in {0, inquiry.client}

LEMMA OthersHold ==
    ASSUME RecordsInv, NEW w \in Workers, NEW next, NEW rows, TurnsTo(w, next, rows),
           Announced(w, rows), NEW v \in Workers \ {w}
    PROVE  Holding(v)' /\ Knowing(v)'
<1>1. Holding(v) /\ Knowing(v) /\ Sees(v, rows) /\ RecordsTyped
  BY DEF RecordsInv, RecordsTyped, TurnsTo
<1>2. begun' \in begun..Last /\ begun \in Nat
  BY <1>1, RequestsAssumption DEF Announced, RecordsTyped, RowsTyped, Last
<1>3. Holding(v)'
  <2>1. 0..begun \subseteq 0..begun' /\ 1..begun \subseteq 1..begun'
    BY <1>2
  <2>2. QED
    BY <1>1, <2>1 DEF Holding, Sees
<1>4. desk[v].at \in InquiryStages => inquiry'.id \in {0, desk[v].row.id}
  BY <1>1 DEF RecordsInv, OneInquiry, Announced, Knowing
<1>5. desk[v].at \in ErasingStages => desk[v].seen.id # 0
  BY <1>1 DEF Holding
<1>6. ASSUME desk'[v].at \in {"saveInquiry", "convert", "copy", "commit"}, ~desk'[v].newer
      PROVE  inquiry' = inquiry /\ ~desk[v].newer /\ (reopened => reopened')
  BY <1>1, <1>6 DEF Sees, Holding, Announced, InquiryStages
<1>7. ASSUME desk'[v].at \in {"convert", "copy"}, ~desk'[v].jumbled
      PROVE  items' = items /\ ~desk[v].jumbled
  BY <1>1, <1>7 DEF Sees, Announced
<1>8. ASSUME desk'[v].at = "saveOrder", ~desk'[v].newer
      PROVE  order' = order /\ ~desk[v].newer
  BY <1>1, <1>8 DEF Sees, Holding, Announced
<1>9. ASSUME desk'[v].at = "saveClient", ~desk'[v].newer
      PROVE  client'.id = client.id /\ client'.projects = client.projects /\ ~desk[v].newer
  BY <1>1, <1>9 DEF Sees, Holding, Announced
<1>10. ASSUME desk'[v].at \in ErasingStages, ~desk'[v].newer
       PROVE  /\ order'.id \in {0, order.id} /\ order'.client \in {0, order.client}
              /\ inquiry'.id \in {0, inquiry.id} /\ inquiry'.client \in {0, inquiry.client}
              /\ ~desk[v].newer /\ desk[v].seen.id # 0
  BY <1>1, <1>5, <1>10 DEF Sees, Holding, Announced
<1>11. Knowing(v)'
  <2>1. /\ desk'[v].at = desk[v].at /\ desk'[v].k = desk[v].k /\ desk'[v].row = desk[v].row
        /\ desk'[v].seen = desk[v].seen /\ desk'[v].total = desk[v].total
        /\ desk'[v].items = desk[v].items /\ desk'[v].flag = desk[v].flag
        /\ ~desk'[v].jumbled => ~desk[v].jumbled
    BY <1>1 DEF Sees
  <2>2. desk[v].at = "check" \/ desk[v].at = "delete" => desk[v].at \in ErasingStages
    BY DEF ErasingStages
  <2>3. desk'[v].at \in InquiryStages => inquiry'.id \in {0, desk'[v].row.id}
    BY <1>4, <2>1
  <2>4. desk'[v].at = "saveInquiry" /\ ~desk'[v].newer /\ desk'[v].row.id # desk'[v].k =>
          /\ inquiry'.id = desk'[v].row.id
          /\ desk'[v].row.status \in {inquiry'.status, "resolved"} \/ reopened'
          /\ desk'[v].row.reply \in {inquiry'.reply, desk'[v].k}
    BY <1>1, <1>6, <2>1 DEF Knowing
  <2>5. desk'[v].at \in {"convert", "copy", "commit"} /\ ~desk'[v].newer => desk'[v].row.reply = inquiry'.reply
    BY <1>1, <1>6, <2>1 DEF Knowing
  <2>6. /\ desk'[v].at \in {"convert", "copy"} /\ ~desk'[v].jumbled => Whole(items')
        /\ desk'[v].at = "copy" /\ ~desk'[v].jumbled => desk'[v].total = items'
    BY <1>1, <1>7, <2>1 DEF Knowing
  <2>7. desk'[v].at = "commit" /\ ~desk'[v].jumbled => desk'[v].total = desk'[v].items /\ Whole(desk'[v].items)
    BY <1>1, <2>1 DEF Knowing
  <2>8. desk'[v].at = "saveOrder" /\ ~desk'[v].newer =>
          /\ order'.id = desk'[v].row.id /\ order'.total = desk'[v].row.total
          /\ desk'[v].row.open <=> IF desk'[v].flag THEN ~order'.open ELSE order'.open
    BY <1>1, <1>8, <2>1 DEF Knowing
  <2>9. desk'[v].at = "saveClient" /\ ~desk'[v].newer =>
          /\ desk'[v].seen.id = client'.id
          /\ ~desk'[v].flag => desk'[v].seen.projects = client'.projects
    BY <1>1, <1>9, <2>1 DEF Knowing
  <2>10. /\ desk'[v].at = "check" /\ ~desk'[v].newer /\ order'.id # 0 /\ order'.client = desk'[v].seen.id => desk'[v].flag
         /\ desk'[v].at = "delete" /\ ~desk'[v].newer =>
              /\ order'.id # 0 => order'.client # desk'[v].seen.id
              /\ inquiry'.id # 0 => inquiry'.client # desk'[v].seen.id
    BY <1>1, <1>10, <2>1, <2>2 DEF Knowing
  <2>11. QED
    BY <2>3, <2>4, <2>5, <2>6, <2>7, <2>8, <2>9, <2>10 DEF Knowing, Whole
<1>12. QED
  BY <1>3, <1>11


LEMMA LastIsNat == Last \in Nat \ {0}
BY RequestsAssumption DEF Last

LEMMA BegunInRange ==
    ASSUME RecordsTyped, begun' \in begun..Last
    PROVE  /\ begun' \in 1..Last /\ begun \in 1..Last
           /\ 0..begun \subseteq 0..begun' /\ 1..begun \subseteq 1..begun'
<1>1. begun \in 1..Last
  BY DEF RecordsTyped, RowsTyped
<1>2. QED
  BY <1>1, LastIsNat

\* A request that is over holds and knows nothing.
LEMMA SeatedHolds ==
    ASSUME NEW w \in Workers, desk'[w] = Seated, begun' \in Nat
    PROVE  Holding(w)' /\ Knowing(w)'
<1>1. Holding(w)'
  BY DEF Holding, Seated, IsDesk, Shaped, InquiryStages, ErasingStages, NoClient
<1>2. Knowing(w)'
  BY DEF Knowing, Seated, InquiryStages
<1>3. QED
  BY <1>1, <1>2

LEMMA AllHold ==
    ASSUME RecordsInv, NEW w \in Workers, NEW next, NEW rows, TurnsTo(w, next, rows),
           Announced(w, rows), Holding(w)', Knowing(w)', RowsTyped'
    PROVE  RecordsTyped' /\ \A v \in Workers : Knowing(v)'
<1>1. ASSUME NEW v \in Workers
      PROVE  Holding(v)' /\ Knowing(v)'
  BY OthersHold
<1>2. QED
  BY <1>1 DEF RecordsTyped, TurnsTo

\* w begins nothing, or goes on with what it has or what is there.
GoesOn(w, next) ==
    /\ next.at \in InquiryStages => \/ desk[w].at \in InquiryStages /\ next.row.id = desk[w].row.id
                                    \/ inquiry.id # 0 /\ next.row.id = inquiry.id
    /\ next.at = "saveInquiry" => next.row.id # next.k
    /\ next.at = "saveOrder" => next.row.inquiry \in {0, inquiry.id}

LEMMA SeatedGoesOn ==
    ASSUME NEW w
    PROVE  GoesOn(w, Seated)
BY DEF GoesOn, Seated, InquiryStages

LEMMA SameInquiry ==
    ASSUME RecordsInv, NEW w \in Workers, NEW next, NEW rows, TurnsTo(w, next, rows),
           Announced(w, rows), GoesOn(w, next)
    PROVE  OneInquiry'
<1>1. \A v \in Workers \ {w} : /\ desk'[v].at = desk[v].at /\ desk'[v].k = desk[v].k
                               /\ desk'[v].row = desk[v].row /\ desk'[v].flag = desk[v].flag
  BY DEF TurnsTo, Sees
<1>2. desk'[w] = next
  BY DEF TurnsTo
<1>3. /\ inquiry'.id \in {0, inquiry.id} \/ desk[w].at \in InquiryStages
      /\ "saveInquiry" \in InquiryStages
  BY DEF Announced, InquiryStages
<1>4. \A v \in Workers : desk[v].at \in InquiryStages => inquiry.id \in {0, desk[v].row.id}
  BY DEF RecordsInv, Knowing
<1>5. \A v \in Workers : desk[v].at # "idle" => desk[v].k # 0
  BY DEF RecordsInv, RecordsTyped, Holding
<1>6. ASSUME NEW v \in Workers, desk'[v].at \in InquiryStages, NEW u \in Workers, desk'[u].at \in InquiryStages
      PROVE  desk'[u].row.id = desk'[v].row.id
  <2>1. \A a, b \in Workers : desk[a].at \in InquiryStages /\ desk[b].at \in InquiryStages =>
                               desk[b].row.id = desk[a].row.id
    BY DEF RecordsInv, OneInquiry
  <2>2. ASSUME NEW a \in Workers \ {w}, desk'[a].at \in InquiryStages, next.at \in InquiryStages
        PROVE  next.row.id = desk'[a].row.id
    <3>1. desk[a].at \in InquiryStages /\ desk'[a].row = desk[a].row
      BY <1>1, <2>2
    <3>2. CASE desk[w].at \in InquiryStages /\ next.row.id = desk[w].row.id
      BY <2>1, <3>1, <3>2
    <3>3. CASE inquiry.id # 0 /\ next.row.id = inquiry.id
      BY <1>4, <3>1, <3>3
    <3>4. QED
      BY <2>2, <3>2, <3>3 DEF GoesOn
  <2>3. CASE u = w \/ v = w
    BY <1>2, <1>6, <2>2, <2>3
  <2>4. CASE u # w /\ v # w
    BY <1>1, <1>6, <2>1, <2>4
  <2>5. QED
    BY <2>3, <2>4
<1>7. ASSUME NEW v \in Workers, desk'[v].at = "saveInquiry", desk'[v].row.id = desk'[v].k
      PROVE  /\ inquiry'.id = 0 /\ ~desk'[v].flag /\ desk'[v].row.status = "new" /\ desk'[v].row.reply = 0
             /\ \A u \in Workers : desk'[u].at \in InquiryStages => u = v
             /\ \A u \in Workers : desk'[u].at = "saveOrder" => desk'[u].row.inquiry # desk'[v].k
  <2>1. v # w
    BY <1>2, <1>7 DEF GoesOn
  <2>2. /\ desk[v].at = "saveInquiry" /\ desk[v].row.id = desk[v].k
        /\ desk[v].at \in InquiryStages
    BY <1>1, <1>3, <1>7, <2>1
  <2>3. /\ inquiry.id = 0 /\ ~desk[v].flag /\ desk[v].row.status = "new" /\ desk[v].row.reply = 0
        /\ \A u \in Workers : desk[u].at \in InquiryStages => u = v
        /\ \A u \in Workers : desk[u].at = "saveOrder" => desk[u].row.inquiry # desk[v].k
    BY <2>2 DEF RecordsInv, OneInquiry
  <2>4. inquiry'.id = 0 /\ next.at \notin InquiryStages
    BY <1>3, <2>1, <2>3 DEF GoesOn
  <2>5. next.at = "saveOrder" => next.row.inquiry # desk[v].k
    BY <1>5, <2>2, <2>3 DEF GoesOn
  <2>6. QED
    BY <1>1, <1>2, <2>1, <2>3, <2>4, <2>5
<1>8. QED
  BY <1>6, <1>7 DEF OneInquiry

LEMMA SameWriters ==
    ASSUME RecordsInv, NEW w \in Workers, NEW next, NEW rows, TurnsTo(w, next, rows),
           halved' = halved, items' = items, desk[w].at # "item", next.at # "item"
    PROVE  OneWriter'
<1>1. \A v \in Workers : /\ desk'[v].at = "item" <=> desk[v].at = "item"
                         /\ desk'[v].at = "item" => desk'[v].k = desk[v].k /\ desk'[v].items = desk[v].items
  BY DEF TurnsTo, Sees
<1>2. QED
  BY <1>1 DEF RecordsInv, OneWriter, Whole, TwoItems

LEMMA SameConverted ==
    ASSUME RecordsInv, NEW w \in Workers, NEW next, NEW rows, TurnsTo(w, next, rows),
           inquiry'.id = inquiry.id,
           order'.id # 0 /\ order'.inquiry = inquiry.id => Converted,
           next.at = "saveOrder" /\ next.row.inquiry = inquiry.id => Converted,
           Converted'
    PROVE  Converted
<1>1. \A v \in Workers \ {w} : desk'[v].at = desk[v].at /\ desk'[v].row = desk[v].row
  BY DEF TurnsTo, Sees
<1>2. desk'[w] = next
  BY DEF TurnsTo
<1>3. QED
  BY <1>1, <1>2 DEF Converted

LEMMA Quietly ==
    ASSUME RecordsInv, NEW w \in Workers, NEW next, TurnsTo(w, next, {}),
           begun' \in begun..Last, UNCHANGED <<rowVars, factVars>>,
           GoesOn(w, next), desk[w].at # "item", next.at # "item",
           next.at = "saveOrder" => order.id # 0 /\ next.row.inquiry = order.inquiry,
           Holding(w)', Knowing(w)'
    PROVE  RecordsInv'
<1>1. /\ client' = client /\ inquiry' = inquiry /\ items' = items /\ order' = order /\ orderItems' = orderItems
      /\ halved' = halved /\ torn' = torn /\ stale' = stale /\ reopened' = reopened
      /\ lastReply' = lastReply /\ recorded' = recorded /\ slipped' = slipped /\ owed' = owed
  BY DEF rowVars, factVars
<1>2. Announced(w, {})
  BY <1>1 DEF Announced
<1>3. begun' \in 1..Last /\ 0..begun \subseteq 0..begun'
  BY BegunInRange DEF RecordsInv
<1>4. RowsTyped'
  BY <1>1, <1>3 DEF RecordsInv, RecordsTyped, RowsTyped
<1>5. RecordsTyped' /\ \A v \in Workers : Knowing(v)'
  BY <1>2, <1>4, AllHold
<1>6. OneInquiry'
  BY <1>2, SameInquiry
<1>7. OneWriter'
  BY <1>1, SameWriters
<1>8. Converted' => Converted
  <2>1. order.id # 0 /\ order.inquiry = inquiry.id => Converted
    BY DEF Converted
  <2>2. QED
    BY <1>1, <2>1, SameConverted
<1>9. InquiryKept'
  BY <1>1, <1>8 DEF RecordsInv, InquiryKept
<1>10. OrderAgrees' /\ NobodyTaken' /\ Counted'
  BY <1>1 DEF RecordsInv, OrderAgrees, NobodyTaken, Counted
<1>11. QED
  BY <1>5, <1>6, <1>7, <1>9, <1>10 DEF RecordsInv

LEMMA BeginsOK ==
    ASSUME RecordsTyped, NEW w \in Workers, Begins(w)
    PROVE  /\ desk[w].at = "idle" /\ begun' = begun + 1 /\ begun' \in begun..Last /\ begun' \in 1..Last
           /\ begun \in 1..Last /\ 0..begun \subseteq 0..begun' /\ 1..begun \subseteq 1..begun'
<1>1. desk[w].at = "idle" /\ begun <= MaxRequests /\ begun' = begun + 1
  BY DEF Begins
<1>2. begun \in 1..Last
  BY DEF RecordsTyped, RowsTyped
<1>3. QED
  BY <1>1, <1>2, RequestsAssumption DEF Last

LEMMA BegunStays ==
    ASSUME RecordsTyped, begun' = begun
    PROVE  begun' \in begun..Last /\ begun \in 1..Last
<1>1. begun \in 1..Last
  BY DEF RecordsTyped, RowsTyped
<1>2. QED
  BY <1>1, LastIsNat

\* A request ends, or begins nothing, without writing.
LEMMA QuietlyOver ==
    ASSUME RecordsInv, NEW w \in Workers, Reads(w, Seated),
           UNCHANGED <<rowVars, begun, factVars>>, desk[w].at # "item"
    PROVE  RecordsInv'
<1>1. TurnsTo(w, Seated, {})
  BY DeskRead DEF RecordsInv
<1>2. begun' \in begun..Last /\ begun' \in Nat
  BY BegunStays DEF RecordsInv
<1>3. Holding(w)' /\ Knowing(w)'
  <2>1. desk'[w] = Seated
    BY <1>1 DEF TurnsTo
  <2>2. QED
    BY <1>2, <2>1, SeatedHolds
<1>4. Seated.at = "idle"
  BY DEF Seated
<1>5. QED
  BY <1>1, <1>2, <1>3, <1>4, SeatedGoesOn, Quietly

LEMMA StartConvertKeeps ==
    ASSUME RecordsInv, NEW w \in Workers, StartConvert(w)
    PROVE  RecordsInv'
<1>1. Begins(w) /\ inquiry.id # 0 /\ UNCHANGED <<rowVars, factVars>>
  BY DEF StartConvert
<1>2. RecordsTyped /\ RowsTyped
  BY DEF RecordsInv, RecordsTyped
<1>3. PICK j \in BOOLEAN : j <=> halved \/ \E v \in Workers : desk[v].at = "item"
  OBVIOUS
<1>4. PICK f \in BOOLEAN, u \in BOOLEAN :
        /\ u = (halved \/ \E v \in Workers : desk[v].at = "item")
        /\ Reads(w, [Seated EXCEPT !.at = "convert", !.k = begun', !.of = "inquiry",
                     !.row = inquiry, !.flag = f, !.jumbled = u])
  BY DEF StartConvert
<1>5. PICK n : n = [at |-> "convert", k |-> begun', of |-> "inquiry", row |-> inquiry, seen |-> NoClient,
                    total |-> {}, items |-> {}, flag |-> f, newer |-> FALSE, jumbled |-> u]
  OBVIOUS
<1>6. TurnsTo(w, n, {})
  <2>1. [Seated EXCEPT !.at = "convert", !.k = begun', !.of = "inquiry", !.row = inquiry,
                      !.flag = f, !.jumbled = u] = n
    <3>1. PICK e1 : e1 = [Seated EXCEPT !.at = "convert"]
      OBVIOUS
    <3>2. PICK e2 : e2 = [e1 EXCEPT !.k = begun']
      OBVIOUS
    <3>3. PICK e3 : e3 = [e2 EXCEPT !.of = "inquiry"]
      OBVIOUS
    <3>4. PICK e4 : e4 = [e3 EXCEPT !.row = inquiry]
      OBVIOUS
    <3>5. PICK e5 : e5 = [e4 EXCEPT !.flag = f]
      OBVIOUS
    <3>6. PICK e6 : e6 = [e5 EXCEPT !.jumbled = u]
      OBVIOUS
    <3>7. [Seated EXCEPT !.at = "convert", !.k = begun', !.of = "inquiry", !.row = inquiry,
                         !.flag = f, !.jumbled = u] = e6
      BY <3>1, <3>2, <3>3, <3>4, <3>5, <3>6, Zenon
    <3>8. e6 = [at |-> "convert", k |-> begun', of |-> "inquiry", row |-> inquiry, seen |-> NoClient,
                 total |-> {}, items |-> {}, flag |-> f, newer |-> FALSE, jumbled |-> u]
      BY <3>1, <3>2, <3>3, <3>4, <3>5, <3>6 DEF Seated
    <3>9. QED
      BY <1>5, <3>7, <3>8, Zenon
  <2>2. QED
    BY <1>2, <1>4, <1>5, <2>1, DeskRead
<1>7. desk'[w] = n
  BY <1>6 DEF TurnsTo
<1>8. /\ inquiry' = inquiry /\ items' = items /\ halved' = halved
  BY <1>1 DEF rowVars, factVars
<1>9. Holding(w)'
  BY <1>1, <1>2, <1>5, <1>7, BeginsOK
     DEF Holding, IsDesk, Shaped, InquiryStages, ErasingStages, RowsTyped, NoClient
<1>10. Knowing(w)'
  <2>1. ~u => Whole(items)
    BY <1>4 DEF RecordsInv, OneWriter
  <2>2. QED
    BY <1>5, <1>7, <1>8, <2>1 DEF Knowing, InquiryStages, Whole
<1>11. GoesOn(w, n)
  BY <1>1, <1>5 DEF GoesOn
<1>12. QED
  BY <1>1, <1>2, <1>5, <1>6, <1>9, <1>10, <1>11, BeginsOK, Quietly

LEMMA PriceOrderKeeps ==
    ASSUME RecordsInv, NEW w \in Workers, PriceOrder(w)
    PROVE  RecordsInv'
<1>1. PICK d : d = desk[w]
  OBVIOUS
<1>2. PICK c : c = IF d.row.client = 0 THEN Upserted(d.k) ELSE client
  OBVIOUS
<1>3. /\ d.at = "convert" /\ UNCHANGED <<rowVars, begun, factVars>>
      /\ Reads(w, IF Ordered(d.row.id) \/ d.row.client \notin {0, client.id} THEN Seated
                  ELSE [d EXCEPT !.at = "copy", !.seen = c, !.total = items])
  BY <1>1, <1>2 DEF PriceOrder
<1>4. Holding(w) /\ Knowing(w) /\ RecordsTyped /\ RowsTyped
  BY DEF RecordsInv, RecordsTyped
<1>5. CASE Ordered(d.row.id) \/ d.row.client \notin {0, client.id}
  BY <1>1, <1>3, <1>5, QuietlyOver
<1>6. CASE d.row.client \in {0, client.id} /\ ~Ordered(d.row.id)
  <2>1. PICK n : n = [at |-> "copy", k |-> d.k, of |-> d.of, row |-> d.row, seen |-> c, total |-> items,
                      items |-> d.items, flag |-> d.flag, newer |-> d.newer, jumbled |-> d.jumbled]
    OBVIOUS
  <2>2. [d EXCEPT !.at = "copy", !.seen = c, !.total = items] = n
    <3>1. Shaped(d)
      BY <1>1, <1>4 DEF Holding, IsDesk, Shaped
    <3>2. QED
      BY <2>1, <3>1, PricedDesk, Zenon
  <2>3. TurnsTo(w, n, {})
    BY <1>3, <1>4, <1>6, <2>2, DeskRead
  <2>4. desk'[w] = n
    BY <2>3 DEF TurnsTo
  <2>5. begun' = begun /\ inquiry' = inquiry /\ items' = items /\ order' = order
    BY <1>3 DEF rowVars
  <2>6. IsClient(c) /\ c.id \in 0..begun /\ c.id # 0
    <3>1. d.k \in 0..begun /\ d.k # 0
      BY <1>1, <1>3, <1>4 DEF Holding
    <3>2. QED
      BY <1>2, <1>4, <1>6, <3>1 DEF Upserted, NewClient, RowsTyped, IsClient
  <2>7. Holding(w)'
    BY <1>1, <1>3, <1>4, <2>1, <2>4, <2>5, <2>6 DEF Holding, IsDesk, Shaped, InquiryStages, ErasingStages
  <2>8. Knowing(w)'
    BY <1>1, <1>3, <1>4, <2>1, <2>4, <2>5 DEF Knowing, InquiryStages, Whole
  <2>9. GoesOn(w, n)
    BY <1>1, <1>3, <2>1 DEF GoesOn, InquiryStages
  <2>10. begun' \in begun..Last
    BY <1>4, <2>5, BegunStays
  <2>11. desk[w].at # "item" /\ n.at # "item" /\ n.at # "saveOrder"
    BY <1>1, <1>3, <2>1
  <2>12. UNCHANGED <<rowVars, factVars>>
    BY <1>3
  <2>13. QED
    BY <2>3, <2>7, <2>8, <2>9, <2>10, <2>11, <2>12, Quietly
<1>7. QED
  BY <1>5, <1>6

LEMMA CopyItemsKeeps ==
    ASSUME RecordsInv, NEW w \in Workers, CopyItems(w)
    PROVE  RecordsInv'
<1>1. PICK d : d = desk[w]
  OBVIOUS
<1>2. /\ d.at = "copy" /\ UNCHANGED <<rowVars, begun, factVars>>
      /\ Reads(w, [[d EXCEPT !.at = "commit"] EXCEPT !.items = items])
  BY <1>1 DEF CopyItems, Goes
<1>3. Holding(w) /\ Knowing(w) /\ RecordsTyped /\ RowsTyped
  BY DEF RecordsInv, RecordsTyped
<1>4. PICK n : n = [at |-> "commit", k |-> d.k, of |-> d.of, row |-> d.row, seen |-> d.seen, total |-> d.total,
                    items |-> items, flag |-> d.flag, newer |-> d.newer, jumbled |-> d.jumbled]
  OBVIOUS
<1>5. [[d EXCEPT !.at = "commit"] EXCEPT !.items = items] = n
  <2>1. PICK e : e = [d EXCEPT !.at = "commit"]
    OBVIOUS
  <2>2. e = [at |-> "commit", k |-> d.k, of |-> d.of, row |-> d.row, seen |-> d.seen, total |-> d.total,
             items |-> d.items, flag |-> d.flag, newer |-> d.newer, jumbled |-> d.jumbled]
    BY <1>1, <1>3, <2>1 DEF Holding, IsDesk, Shaped
  <2>3. [e EXCEPT !.items = items] = n
    BY <1>4, <2>2
  <2>4. QED
    BY <2>1, <2>3, Zenon
<1>6. TurnsTo(w, n, {})
  BY <1>2, <1>3, <1>5, DeskRead
<1>7. desk'[w] = n
  BY <1>6 DEF TurnsTo
<1>8. begun' = begun /\ inquiry' = inquiry /\ UNCHANGED <<rowVars, factVars>>
  BY <1>2 DEF rowVars
<1>9. Holding(w)'
  BY <1>1, <1>2, <1>3, <1>4, <1>7, <1>8 DEF Holding, IsDesk, Shaped, InquiryStages, ErasingStages
<1>10. Knowing(w)'
  BY <1>1, <1>2, <1>3, <1>4, <1>7, <1>8 DEF Knowing, InquiryStages, Whole
<1>11. GoesOn(w, n)
  BY <1>1, <1>2, <1>4 DEF GoesOn, InquiryStages
<1>12. begun' \in begun..Last
  BY <1>3, <1>8, BegunStays
<1>13. desk[w].at # "item" /\ n.at # "item" /\ n.at # "saveOrder"
  BY <1>1, <1>2, <1>4
<1>14. QED
  BY <1>6, <1>8, <1>9, <1>10, <1>11, <1>12, <1>13, Quietly

LEMMA PatchOrderKeeps ==
    ASSUME RecordsInv, NEW w \in Workers, PatchOrder(w)
    PROVE  RecordsInv'
<1>1. Begins(w) /\ order.id # 0 /\ UNCHANGED <<rowVars, factVars>>
  BY DEF PatchOrder
<1>2. RecordsTyped /\ RowsTyped
  BY DEF RecordsInv, RecordsTyped
<1>3. PICK f \in BOOLEAN, rows \in {{}, TwoItems(begun')}, total \in {{}, Given(begun')} :
        Reads(w, [Seated EXCEPT !.at = "saveOrder", !.k = begun', !.of = "order",
                     !.row = [order EXCEPT !.open = IF f THEN ~@ ELSE @],
                     !.items = rows, !.total = total, !.flag = f])
  BY DEF PatchOrder
<1>4. PICK b, c : b = (IF f THEN ~order.open ELSE order.open) /\ c = [order EXCEPT !.open = b]
  OBVIOUS
<1>5. c = [id |-> order.id, client |-> order.client, inquiry |-> order.inquiry, open |-> b, total |-> order.total]
  BY <1>2, <1>4 DEF RowsTyped, IsOrder
<1>6. /\ IsOrder(c) /\ c.id = order.id /\ c.inquiry = order.inquiry /\ c.total = order.total
      /\ c.open <=> IF f THEN ~order.open ELSE order.open
  <2>1. c.open = b /\ b \in BOOLEAN /\ order.open \in BOOLEAN
    BY <1>2, <1>4, <1>5 DEF RowsTyped, IsOrder
  <2>2. c.open <=> IF f THEN ~order.open ELSE order.open
    BY <1>4, <2>1, Zenon
  <2>3. QED
    BY <1>5, <2>1, <2>2 DEF IsOrder
<1>7. PICK n : n = [at |-> "saveOrder", k |-> begun', of |-> "order", row |-> c, seen |-> NoClient,
                    total |-> total, items |-> rows, flag |-> f, newer |-> FALSE, jumbled |-> FALSE]
  OBVIOUS
<1>8. TurnsTo(w, n, {})
  <2>1. [Seated EXCEPT !.at = "saveOrder", !.k = begun', !.of = "order", !.row = c,
                      !.items = rows, !.total = total, !.flag = f] = n
    <3>1. PICK e1 : e1 = [Seated EXCEPT !.at = "saveOrder"]
      OBVIOUS
    <3>2. PICK e2 : e2 = [e1 EXCEPT !.k = begun']
      OBVIOUS
    <3>3. PICK e3 : e3 = [e2 EXCEPT !.of = "order"]
      OBVIOUS
    <3>4. PICK e4 : e4 = [e3 EXCEPT !.row = c]
      OBVIOUS
    <3>5. PICK e5 : e5 = [e4 EXCEPT !.items = rows]
      OBVIOUS
    <3>6. PICK e6 : e6 = [e5 EXCEPT !.total = total]
      OBVIOUS
    <3>7. PICK e7 : e7 = [e6 EXCEPT !.flag = f]
      OBVIOUS
    <3>8. [Seated EXCEPT !.at = "saveOrder", !.k = begun', !.of = "order", !.row = c,
                         !.items = rows, !.total = total, !.flag = f] = e7
      BY <3>1, <3>2, <3>3, <3>4, <3>5, <3>6, <3>7, Zenon
    <3>9. e7 = [at |-> "saveOrder", k |-> begun', of |-> "order", row |-> c, seen |-> NoClient,
                 total |-> total, items |-> rows, flag |-> f, newer |-> FALSE, jumbled |-> FALSE]
      BY <3>1, <3>2, <3>3, <3>4, <3>5, <3>6, <3>7 DEF Seated
    <3>10. QED
      BY <1>7, <3>8, <3>9, Zenon
  <2>2. Reads(w, [Seated EXCEPT !.at = "saveOrder", !.k = begun', !.of = "order",
                     !.row = c, !.items = rows, !.total = total, !.flag = f])
    BY <1>3, <1>4
  <2>3. QED
    BY <1>2, <2>1, <2>2, DeskRead
<1>9. desk'[w] = n
  BY <1>8 DEF TurnsTo
<1>10. /\ desk'[w].at = "saveOrder" /\ desk'[w].k = begun' /\ desk'[w].of = "order" /\ desk'[w].row = c
       /\ desk'[w].seen = NoClient /\ desk'[w].items = rows /\ desk'[w].total = total /\ desk'[w].newer = FALSE
  BY <1>7, <1>9
<1>11. IsDesk(desk'[w])
  BY <1>7, <1>9 DEF IsDesk, Shaped
<1>12. desk'[w].flag = f
  BY <1>7, <1>9
<1>13. order' = order /\ inquiry' = inquiry
  BY <1>1 DEF rowVars
<1>14. Holding(w)'
  BY <1>1, <1>2, <1>3, <1>6, <1>10, <1>11, BeginsOK DEF Holding, InquiryStages, ErasingStages, RowsTyped, NoClient
<1>15. Knowing(w)'
  <2>2. c.open <=> IF desk'[w].flag THEN ~order'.open ELSE order'.open
    BY <1>6, <1>12, <1>13, Zenon
  <2>3. QED
    BY <1>6, <1>10, <1>13, <2>2 DEF Knowing, InquiryStages
<1>16. GoesOn(w, n)
  BY <1>2, <1>6, <1>7 DEF GoesOn, InquiryStages, RowsTyped
<1>17. QED
  BY <1>1, <1>2, <1>6, <1>7, <1>8, <1>14, <1>15, <1>16, BeginsOK, Quietly

LEMMA PatchClientKeeps ==
    ASSUME RecordsInv, NEW w \in Workers, PatchClient(w)
    PROVE  RecordsInv'
<1>1. Begins(w) /\ client.id # 0 /\ UNCHANGED <<rowVars, factVars>>
  BY DEF PatchClient
<1>2. RecordsTyped /\ RowsTyped
  BY DEF RecordsInv, RecordsTyped
<1>3. PICK f \in BOOLEAN, given \in BOOLEAN, m \in Counts \cup {0} :
        Reads(w, [Seated EXCEPT !.at = "saveClient", !.k = begun', !.of = "client", !.flag = given,
                    !.seen = [client EXCEPT !.active = f, !.projects = IF given THEN m ELSE @]])
  BY DEF PatchClient
<1>4. PICK p : p = IF given THEN m ELSE client.projects
  OBVIOUS
<1>5. PICK c : c = [client EXCEPT !.active = f, !.projects = IF given THEN m ELSE @]
  OBVIOUS
<1>6. IsClient(c) /\ c.id = client.id /\ (~given => c.projects = client.projects)
  <2>1. PICK c1 : c1 = [client EXCEPT !.active = f]
    OBVIOUS
  <2>2. c1 = [id |-> client.id, active |-> f, projects |-> client.projects]
    BY <1>2, <2>1 DEF RowsTyped, IsClient
  <2>3. c1.projects = client.projects
    BY <2>2
  <2>4. c = [c1 EXCEPT !.projects = IF given THEN m ELSE @]
    BY <1>5, <2>1, Zenon
  <2>5. c = [id |-> client.id, active |-> f, projects |-> p]
    BY <1>4, <2>2, <2>3, <2>4
  <2>6. QED
    BY <1>4, <2>5 DEF IsClient
<1>7. PICK n : n = [at |-> "saveClient", k |-> begun', of |-> "client", row |-> NoInquiry, seen |-> c,
                    total |-> {}, items |-> {}, flag |-> given, newer |-> FALSE, jumbled |-> FALSE]
  OBVIOUS
<1>8. TurnsTo(w, n, {})
  <2>1. [Seated EXCEPT !.at = "saveClient", !.k = begun', !.of = "client", !.flag = given, !.seen = c] = n
    <3>1. PICK e1 : e1 = [Seated EXCEPT !.at = "saveClient"]
      OBVIOUS
    <3>2. PICK e2 : e2 = [e1 EXCEPT !.k = begun']
      OBVIOUS
    <3>3. PICK e3 : e3 = [e2 EXCEPT !.of = "client"]
      OBVIOUS
    <3>4. PICK e4 : e4 = [e3 EXCEPT !.flag = given]
      OBVIOUS
    <3>5. PICK e5 : e5 = [e4 EXCEPT !.seen = c]
      OBVIOUS
    <3>6. [Seated EXCEPT !.at = "saveClient", !.k = begun', !.of = "client", !.flag = given, !.seen = c] = e5
      BY <3>1, <3>2, <3>3, <3>4, <3>5, Zenon
    <3>7. e5 = [at |-> "saveClient", k |-> begun', of |-> "client", row |-> NoInquiry, seen |-> c,
                 total |-> {}, items |-> {}, flag |-> given, newer |-> FALSE, jumbled |-> FALSE]
      BY <3>1, <3>2, <3>3, <3>4, <3>5 DEF Seated
    <3>8. QED
      BY <1>7, <3>6, <3>7, Zenon
  <2>2. QED
    BY <1>2, <1>3, <1>5, <2>1, DeskRead
<1>9. desk'[w] = n
  BY <1>8 DEF TurnsTo
<1>10. /\ desk'[w].at = "saveClient" /\ desk'[w].k = begun' /\ desk'[w].of = "client" /\ desk'[w].seen = c
       /\ desk'[w].newer = FALSE /\ desk'[w].flag = given
  BY <1>7, <1>9
<1>11. IsDesk(desk'[w])
  BY <1>7, <1>9 DEF IsDesk, Shaped
<1>12. client' = client
  BY <1>1 DEF rowVars
<1>13. Holding(w)'
  BY <1>1, <1>2, <1>6, <1>10, <1>11, BeginsOK DEF Holding, InquiryStages, ErasingStages, RowsTyped
<1>14. Knowing(w)'
  BY <1>6, <1>10, <1>12 DEF Knowing, InquiryStages
<1>15. GoesOn(w, n)
  BY <1>7 DEF GoesOn, InquiryStages
<1>16. QED
  BY <1>1, <1>2, <1>7, <1>8, <1>13, <1>14, <1>15, BeginsOK, Quietly

LEMMA DeleteClientKeeps ==
    ASSUME RecordsInv, NEW w \in Workers, DeleteClient(w)
    PROVE  RecordsInv'
<1>1. Begins(w) /\ client.id # 0 /\ UNCHANGED <<rowVars, factVars>>
  BY DEF DeleteClient
<1>2. RecordsTyped /\ RowsTyped
  BY DEF RecordsInv, RecordsTyped
<1>3. PICK f \in BOOLEAN : f = (order.client = client.id)
  OBVIOUS
<1>4. PICK n : n = [at |-> "check", k |-> begun', of |-> "records", row |-> NoInquiry, seen |-> client,
                    total |-> {}, items |-> {}, flag |-> f, newer |-> FALSE, jumbled |-> FALSE]
  OBVIOUS
<1>5. TurnsTo(w, n, {})
  <2>1. [Seated EXCEPT !.at = "check", !.k = begun', !.of = "records",
                      !.seen = client, !.flag = f] = n
    <3>1. PICK e1 : e1 = [Seated EXCEPT !.at = "check"]
      OBVIOUS
    <3>2. PICK e2 : e2 = [e1 EXCEPT !.k = begun']
      OBVIOUS
    <3>3. PICK e3 : e3 = [e2 EXCEPT !.of = "records"]
      OBVIOUS
    <3>4. PICK e4 : e4 = [e3 EXCEPT !.seen = client]
      OBVIOUS
    <3>5. PICK e5 : e5 = [e4 EXCEPT !.flag = f]
      OBVIOUS
    <3>6. [Seated EXCEPT !.at = "check", !.k = begun', !.of = "records",
                         !.seen = client, !.flag = f] = e5
      BY <3>1, <3>2, <3>3, <3>4, <3>5, Zenon
    <3>7. e5 = [at |-> "check", k |-> begun', of |-> "records", row |-> NoInquiry, seen |-> client,
                 total |-> {}, items |-> {}, flag |-> f, newer |-> FALSE, jumbled |-> FALSE]
      BY <3>1, <3>2, <3>3, <3>4, <3>5 DEF Seated
    <3>8. QED
      BY <1>4, <3>6, <3>7, Zenon
  <2>2. Reads(w, [Seated EXCEPT !.at = "check", !.k = begun', !.of = "records", !.seen = client,
                               !.flag = f])
    BY <1>3 DEF DeleteClient
  <2>3. QED
    BY <1>2, <2>1, <2>2, DeskRead
<1>6. desk'[w] = n
  BY <1>5 DEF TurnsTo
<1>7. order' = order
  BY <1>1 DEF rowVars
<1>8. Holding(w)'
  BY <1>1, <1>2, <1>4, <1>6, BeginsOK
     DEF Holding, IsDesk, Shaped, InquiryStages, ErasingStages, RowsTyped
<1>9. Knowing(w)'
  <2>1. desk'[w].at = "check" /\ desk'[w].seen = client /\ desk'[w].flag = f
    BY <1>4, <1>6
  <2>2. order'.client = desk'[w].seen.id => desk'[w].flag
    BY <1>3, <1>7, <2>1
  <2>3. QED
    BY <2>1, <2>2 DEF Knowing, InquiryStages
<1>10. GoesOn(w, n)
  BY <1>4 DEF GoesOn, InquiryStages
<1>11. QED
  BY <1>1, <1>2, <1>4, <1>5, <1>8, <1>9, <1>10, BeginsOK, Quietly

LEMMA CheckRecordsKeeps ==
    ASSUME RecordsInv, NEW w \in Workers, CheckRecords(w)
    PROVE  RecordsInv'
<1>1. PICK d, a : d = desk[w] /\ a = IF HasRecords(desk[w]) THEN "deactivate" ELSE "delete"
  OBVIOUS
<1>2. /\ d.at = "check" /\ UNCHANGED <<rowVars, begun, factVars>>
      /\ Reads(w, [d EXCEPT !.at = a])
  BY <1>1 DEF CheckRecords, Goes
<1>3. Holding(w) /\ Knowing(w) /\ RecordsTyped /\ RowsTyped
  BY DEF RecordsInv, RecordsTyped
<1>4. PICK n : n = [at |-> a, k |-> d.k, of |-> d.of, row |-> d.row, seen |-> d.seen, total |-> d.total,
                    items |-> d.items, flag |-> d.flag, newer |-> d.newer, jumbled |-> d.jumbled]
  OBVIOUS
<1>5. TurnsTo(w, n, {})
  <2>1. Shaped(d)
    BY <1>1, <1>3 DEF Holding, IsDesk
  <2>2. [d EXCEPT !.at = a] = n
    BY <1>4, <2>1, GoesDesk, Zenon
  <2>3. QED
    BY <1>2, <1>3, <2>2, DeskRead
<1>6. desk'[w] = n
  BY <1>5 DEF TurnsTo
<1>7. begun' = begun /\ order' = order /\ inquiry' = inquiry /\ UNCHANGED <<rowVars, factVars>>
  BY <1>2 DEF rowVars
<1>8. a \in {"deactivate", "delete"}
  BY <1>1
<1>9. Holding(w)'
  BY <1>1, <1>2, <1>3, <1>4, <1>6, <1>7, <1>8 DEF Holding, IsDesk, Shaped, InquiryStages, ErasingStages
<1>10. Knowing(w)'
  BY <1>1, <1>2, <1>3, <1>4, <1>6, <1>7, <1>8 DEF Knowing, InquiryStages, HasRecords
<1>11. GoesOn(w, n)
  BY <1>4, <1>8 DEF GoesOn, InquiryStages
<1>12. begun' \in begun..Last
  BY <1>3, <1>7, BegunStays
<1>13. desk[w].at # "item" /\ n.at # "item" /\ n.at # "saveOrder"
  BY <1>1, <1>2, <1>4, <1>8
<1>14. QED
  BY <1>5, <1>7, <1>9, <1>10, <1>11, <1>12, <1>13, Quietly

\* The client is found or inserted; nothing else is written.
LEMMA UpsertKeeps ==
    ASSUME RecordsInv, begun' = begun + 1, begun' \in 1..Last, begun \in 1..Last, client' = Upserted(begun'),
           inquiry' = inquiry, items' = items, order' = order, slipped' = slipped, owed' = owed,
           stale' = stale, halved' = halved, recorded' = recorded, reopened' \in BOOLEAN
    PROVE  /\ RowsTyped' /\ NobodyTaken' /\ Counted'
           /\ client'.id # 0 /\ (client.id # 0 => client' = client)
<1>1. RowsTyped /\ begun \in Nat
  BY LastIsNat DEF RecordsInv, RecordsTyped
<1>2. CASE client.id # 0
  <2>1. client' = client
    BY <1>2 DEF Upserted
  <2>2. RowsTyped'
    BY <1>1, <2>1 DEF RowsTyped
  <2>3. NobodyTaken' /\ Counted'
    BY <2>1 DEF RecordsInv, NobodyTaken, Counted
  <2>4. QED
    BY <1>2, <2>1, <2>2, <2>3
<1>3. CASE client.id = 0
  <2>1. client' = [id |-> begun', active |-> TRUE, projects |-> 0]
    BY <1>3 DEF Upserted, NewClient
  <2>2. IsClient(client') /\ client'.id = begun' /\ client'.projects = 0
    BY <2>1 DEF IsClient
  <2>3. RowsTyped'
    BY <1>1, <2>2 DEF RowsTyped
  <2>4. NobodyTaken'
    BY <1>3 DEF RecordsInv, NobodyTaken
  <2>5. Counted'
    BY <1>1, <2>2 DEF Counted, RowsTyped
  <2>6. QED
    BY <1>1, <1>3, <2>2, <2>3, <2>4, <2>5
<1>4. QED
  BY <1>2, <1>3

LEMMA SubmitInquiryKeeps ==
    ASSUME RecordsInv, NEW w \in Workers, SubmitInquiry(w)
    PROVE  RecordsInv'
<1>1. /\ Begins(w) /\ inquiry.id = 0 /\ (\A v \in Workers : desk[v].of # "inquiry")
      /\ client' = Upserted(begun')
      /\ inquiry' = inquiry /\ items' = items /\ order' = order /\ orderItems' = orderItems
      /\ halved' = halved /\ torn' = torn /\ stale' = stale /\ reopened' = reopened
      /\ lastReply' = lastReply /\ recorded' = recorded /\ slipped' = slipped /\ owed' = owed
  BY DEF SubmitInquiry, factVars
<1>2. RecordsTyped /\ RowsTyped /\ \A v \in Workers : Holding(v)
  BY DEF RecordsInv, RecordsTyped
<1>3. /\ desk[w].at = "idle" /\ begun' = begun + 1 /\ begun' \in begun..Last /\ begun' \in 1..Last
      /\ begun \in 1..Last /\ 0..begun \subseteq 0..begun' /\ begun \in Nat /\ reopened' \in BOOLEAN
  BY <1>1, <1>2, BeginsOK, LastIsNat DEF RowsTyped
<1>4. /\ RowsTyped' /\ NobodyTaken' /\ Counted'
      /\ client'.id # 0 /\ (client.id # 0 => client' = client)
  BY <1>1, <1>3, UpsertKeeps
<1>5. PICK r : r = NewInquiry(begun', client'.id)
  OBVIOUS
<1>6. IsInquiry(r) /\ r.id = begun' /\ r.client = client'.id /\ r.status = "new" /\ r.reply = 0
  <2>1. PICK e : e = [NoInquiry EXCEPT !.id = begun']
    OBVIOUS
  <2>2. e = [id |-> begun', client |-> 0, status |-> "new", reply |-> 0]
    BY <2>1 DEF NoInquiry
  <2>3. [e EXCEPT !.client = client'.id] = [id |-> begun', client |-> client'.id, status |-> "new", reply |-> 0]
    BY <2>2
  <2>4. r = [e EXCEPT !.client = client'.id]
    BY <1>5, <2>1, Zenon DEF NewInquiry
  <2>5. r = [id |-> begun', client |-> client'.id, status |-> "new", reply |-> 0]
    BY <2>3, <2>4, Zenon
  <2>6. QED
    BY <2>5 DEF IsInquiry
<1>7. PICK rows \in {{}, TwoItems(begun')} :
        Writes(w, [Seated EXCEPT !.at = "saveInquiry", !.k = begun', !.of = "inquiry", !.row = r, !.items = rows],
               IF client.id = 0 THEN {"client"} ELSE {})
  BY <1>5 DEF SubmitInquiry
<1>8. PICK n, R : /\ n = [at |-> "saveInquiry", k |-> begun', of |-> "inquiry", row |-> r, seen |-> NoClient,
                          total |-> {}, items |-> rows, flag |-> FALSE, newer |-> FALSE, jumbled |-> FALSE]
                  /\ R = IF client.id = 0 THEN {"client"} ELSE {}
  OBVIOUS
<1>9. TurnsTo(w, n, R)
  <2>1. [Seated EXCEPT !.at = "saveInquiry", !.k = begun', !.of = "inquiry",
                      !.row = r, !.items = rows] = n
    <3>1. PICK e1 : e1 = [Seated EXCEPT !.at = "saveInquiry"]
      OBVIOUS
    <3>2. PICK e2 : e2 = [e1 EXCEPT !.k = begun']
      OBVIOUS
    <3>3. PICK e3 : e3 = [e2 EXCEPT !.of = "inquiry"]
      OBVIOUS
    <3>4. PICK e4 : e4 = [e3 EXCEPT !.row = r]
      OBVIOUS
    <3>5. PICK e5 : e5 = [e4 EXCEPT !.items = rows]
      OBVIOUS
    <3>6. [Seated EXCEPT !.at = "saveInquiry", !.k = begun', !.of = "inquiry",
                         !.row = r, !.items = rows] = e5
      BY <3>1, <3>2, <3>3, <3>4, <3>5, Zenon
    <3>7. e5 = [at |-> "saveInquiry", k |-> begun', of |-> "inquiry", row |-> r, seen |-> NoClient,
                 total |-> {}, items |-> rows, flag |-> FALSE, newer |-> FALSE, jumbled |-> FALSE]
      BY <3>1, <3>2, <3>3, <3>4, <3>5 DEF Seated
    <3>8. QED
      BY <1>8, <3>6, <3>7, Zenon
  <2>2. QED
    BY <1>2, <1>7, <1>8, <2>1, DeskWritten
<1>10. desk'[w] = n
  BY <1>9 DEF TurnsTo
<1>11. Announced(w, R)
  BY <1>1, <1>3, <1>4, <1>8 DEF Announced
<1>12. Holding(w)'
  BY <1>3, <1>4, <1>6, <1>7, <1>8, <1>10
     DEF Holding, IsDesk, Shaped, InquiryStages, ErasingStages, NoClient
<1>13. Knowing(w)'
  BY <1>1, <1>6, <1>8, <1>10 DEF Knowing, InquiryStages
<1>14. RecordsTyped' /\ \A v \in Workers : Knowing(v)'
  BY <1>4, <1>9, <1>11, <1>12, <1>13, AllHold
<1>15. OneInquiry'
  <2>1. \A v \in Workers \ {w} : /\ desk'[v].at = desk[v].at /\ desk'[v].row = desk[v].row
                                 /\ desk[v].at \notin InquiryStages
    BY <1>1, <1>2, <1>9 DEF TurnsTo, Sees, Holding
  <2>2. \A v \in Workers \ {w} : desk[v].at = "saveOrder" => desk[v].row.inquiry # begun'
    BY <1>2, <1>3 DEF Holding
  <2>3. /\ desk'[w].at \in InquiryStages /\ desk'[w].at # "saveOrder" /\ ~desk'[w].flag
        /\ desk'[w].row = r /\ desk'[w].k = begun'
    BY <1>8, <1>10 DEF InquiryStages
  <2>4. inquiry'.id = 0
    BY <1>1
  <2>5. QED
    BY <1>6, <2>1, <2>2, <2>3, <2>4 DEF OneInquiry
<1>16. OneWriter'
  BY <1>1, <1>3, <1>8, <1>9, SameWriters
<1>17. OrderAgrees' /\ InquiryKept'
  BY <1>1 DEF RecordsInv, OrderAgrees, InquiryKept
<1>18. QED
  BY <1>4, <1>14, <1>15, <1>16, <1>17 DEF RecordsInv

LEMMA PatchInquiryKeeps ==
    ASSUME RecordsInv, NEW w \in Workers, PatchInquiry(w)
    PROVE  RecordsInv'
<1>1. /\ Begins(w) /\ inquiry.id # 0 /\ client' = Upserted(begun')
      /\ inquiry' = inquiry /\ items' = items /\ order' = order /\ orderItems' = orderItems
      /\ halved' = halved /\ torn' = torn /\ stale' = stale
      /\ lastReply' = lastReply /\ recorded' = recorded /\ slipped' = slipped /\ owed' = owed
  BY DEF PatchInquiry
<1>2. RecordsTyped /\ RowsTyped
  BY DEF RecordsInv, RecordsTyped
<1>3. PICK status \in {"new", "reviewed", "resolved"}, reply \in {inquiry.reply, begun'}, f \in BOOLEAN :
        /\ Writes(w, [Seated EXCEPT !.at = "saveInquiry", !.k = begun', !.of = "inquiry",
                         !.row = [inquiry EXCEPT !.client = client'.id, !.status = status, !.reply = reply],
                         !.items = IF f THEN TwoItems(begun') ELSE {}, !.flag = f],
                   IF client.id = 0 THEN {"client"} ELSE {})
        /\ reopened' = (reopened \/ status \notin {inquiry.status, "resolved"})
  BY DEF PatchInquiry
<1>4. /\ reopened \in BOOLEAN /\ reopened' \in BOOLEAN /\ (reopened => reopened')
      /\ status \in {inquiry.status, "resolved"} \/ reopened'
  BY <1>2, <1>3 DEF RowsTyped
<1>5. /\ desk[w].at = "idle" /\ begun' = begun + 1 /\ begun' \in begun..Last /\ begun' \in 1..Last
      /\ begun \in 1..Last /\ 0..begun \subseteq 0..begun' /\ begun \in Nat
  BY <1>1, <1>2, BeginsOK, LastIsNat
<1>6. /\ RowsTyped' /\ NobodyTaken' /\ Counted'
      /\ client'.id # 0 /\ (client.id # 0 => client' = client)
  BY <1>1, <1>4, <1>5, UpsertKeeps
<1>7. PICK r : r = [inquiry EXCEPT !.client = client'.id, !.status = status, !.reply = reply]
  OBVIOUS
<1>8. IsInquiry(r) /\ r.id = inquiry.id /\ r.client = client'.id /\ r.status = status /\ r.reply = reply
  <2>1. PICK e1 : e1 = [inquiry EXCEPT !.client = client'.id]
    OBVIOUS
  <2>2. PICK e2 : e2 = [e1 EXCEPT !.status = status]
    OBVIOUS
  <2>3. r = [e2 EXCEPT !.reply = reply]
    BY <1>7, <2>1, <2>2, Zenon
  <2>4. r = [id |-> inquiry.id, client |-> client'.id, status |-> status, reply |-> reply]
    BY <1>2, <2>1, <2>2, <2>3 DEF RowsTyped, IsInquiry
  <2>5. QED
    BY <2>4 DEF IsInquiry
<1>9. PICK n, R, rows :
        /\ rows = (IF f THEN TwoItems(begun') ELSE {})
        /\ n = [at |-> "saveInquiry", k |-> begun', of |-> "inquiry", row |-> r, seen |-> NoClient,
                total |-> {}, items |-> rows, flag |-> f, newer |-> FALSE, jumbled |-> FALSE]
        /\ R = IF client.id = 0 THEN {"client"} ELSE {}
  OBVIOUS
<1>10. TurnsTo(w, n, R)
  <2>1. [Seated EXCEPT !.at = "saveInquiry", !.k = begun', !.of = "inquiry", !.row = r,
                      !.items = rows, !.flag = f] = n
    <3>1. PICK e1 : e1 = [Seated EXCEPT !.at = "saveInquiry"]
      OBVIOUS
    <3>2. PICK e2 : e2 = [e1 EXCEPT !.k = begun']
      OBVIOUS
    <3>3. PICK e3 : e3 = [e2 EXCEPT !.of = "inquiry"]
      OBVIOUS
    <3>4. PICK e4 : e4 = [e3 EXCEPT !.row = r]
      OBVIOUS
    <3>5. PICK e5 : e5 = [e4 EXCEPT !.items = rows]
      OBVIOUS
    <3>6. PICK e6 : e6 = [e5 EXCEPT !.flag = f]
      OBVIOUS
    <3>7. [Seated EXCEPT !.at = "saveInquiry", !.k = begun', !.of = "inquiry", !.row = r,
                         !.items = rows, !.flag = f] = e6
      BY <3>1, <3>2, <3>3, <3>4, <3>5, <3>6, Zenon
    <3>8. e6 = [at |-> "saveInquiry", k |-> begun', of |-> "inquiry", row |-> r, seen |-> NoClient,
                 total |-> {}, items |-> rows, flag |-> f, newer |-> FALSE, jumbled |-> FALSE]
      BY <3>1, <3>2, <3>3, <3>4, <3>5, <3>6 DEF Seated
    <3>9. QED
      BY <1>9, <3>7, <3>8, Zenon
  <2>2. Writes(w, [Seated EXCEPT !.at = "saveInquiry", !.k = begun', !.of = "inquiry",
                         !.row = r, !.items = rows, !.flag = f], R)
    BY <1>3, <1>7, <1>9
  <2>3. QED
    BY <1>2, <2>1, <2>2, DeskWritten
<1>11. desk'[w] = n
  BY <1>10 DEF TurnsTo
<1>12. Announced(w, R)
  BY <1>1, <1>4, <1>5, <1>6, <1>9 DEF Announced
<1>13. r.id \in 1..begun /\ r.id # begun' /\ r.id \in 1..begun'
  BY <1>1, <1>2, <1>5, <1>8 DEF RowsTyped
<1>14. Holding(w)'
  <2>1. rows \in {{}, TwoItems(begun')} /\ (f <=> rows # {})
    <3>1. <<begun', 1>> \in TwoItems(begun')
      BY DEF TwoItems
    <3>2. QED
      BY <1>9, <3>1
  <2>2. QED
    BY <1>5, <1>6, <1>8, <1>9, <1>11, <1>13, <2>1
       DEF Holding, IsDesk, Shaped, InquiryStages, ErasingStages, NoClient
<1>15. Knowing(w)'
  BY <1>1, <1>3, <1>4, <1>8, <1>9, <1>11 DEF Knowing, InquiryStages
<1>16. RecordsTyped' /\ \A v \in Workers : Knowing(v)'
  BY <1>6, <1>10, <1>12, <1>14, <1>15, AllHold
<1>17. GoesOn(w, n)
  BY <1>1, <1>8, <1>9, <1>13 DEF GoesOn, InquiryStages
<1>18. OneInquiry'
  BY <1>10, <1>12, <1>17, SameInquiry
<1>19. OneWriter'
  BY <1>1, <1>5, <1>9, <1>10, SameWriters
<1>20. Converted' => Converted
  <2>1. n.at # "saveOrder" /\ inquiry'.id = inquiry.id
    BY <1>1, <1>9
  <2>2. order'.id # 0 /\ order'.inquiry = inquiry.id => Converted
    BY <1>1 DEF Converted
  <2>3. QED
    BY <1>10, <2>1, <2>2, SameConverted
<1>21. OrderAgrees' /\ InquiryKept'
  BY <1>1, <1>4, <1>20 DEF RecordsInv, OrderAgrees, InquiryKept
<1>22. QED
  BY <1>6, <1>16, <1>18, <1>19, <1>21 DEF RecordsInv

LEMMA SaveInquiryKeeps ==
    ASSUME RecordsInv, NEW w \in Workers, SaveInquiry(w)
    PROVE  RecordsInv'
<1>1. PICK d : d = desk[w]
  OBVIOUS
<1>2. /\ d.at = "saveInquiry" /\ begun' = begun
      /\ client' = client /\ items' = items /\ order' = order /\ orderItems' = orderItems /\ threads' = threads
      /\ halved' = halved /\ torn' = torn /\ reopened' = reopened
      /\ recorded' = recorded /\ slipped' = slipped /\ owed' = owed
  BY <1>1 DEF SaveInquiry
<1>3. Holding(w) /\ Knowing(w) /\ RecordsTyped /\ RowsTyped
  BY DEF RecordsInv, RecordsTyped
<1>4. CASE d.row.client # client.id
  <2>1. Reads(w, Seated) /\ UNCHANGED <<inquiry, stale, lastReply>>
    BY <1>1, <1>4 DEF SaveInquiry
  <2>2. UNCHANGED <<rowVars, begun, factVars>>
    BY <1>2, <2>1 DEF rowVars, factVars
  <2>3. QED
    BY <1>1, <1>2, <2>1, <2>2, QuietlyOver
<1>5. CASE d.row.client = client.id
  <2>1. PICK n : n = IF d.flag THEN Goes(w, "clear") ELSE IF d.items # {} THEN Goes(w, "item") ELSE Seated
    OBVIOUS
  <2>2. /\ inquiry' = d.row /\ Writes(w, n, {"inquiry", "records"})
        /\ stale' = (IF d.newer THEN stale \cup {"inquiry"} ELSE stale)
        /\ lastReply' = IF d.row.reply = d.k \/ inquiry.id = 0 THEN d.row.reply ELSE lastReply
    BY <1>1, <1>5, <2>1 DEF SaveInquiry
  <2>3. /\ Shaped(d) /\ d.k \in 0..begun /\ d.k # 0 /\ d.seen.id \in 0..begun /\ d.flag \in BOOLEAN
        /\ d.newer \in BOOLEAN /\ d.jumbled \in BOOLEAN /\ d.of = "inquiry"
        /\ IsInquiry(d.row) /\ d.row.id \in 1..begun /\ d.row.client # 0
        /\ d.items \in {{}, TwoItems(d.k)}
        /\ d.row.id # d.k => (d.flag <=> d.items # {})
    BY <1>1, <1>2, <1>3 DEF Holding, IsDesk, InquiryStages
  <2>4. \/ d.flag /\ n = [d EXCEPT !.at = "clear"]
        \/ ~d.flag /\ d.items # {} /\ n = [d EXCEPT !.at = "item"]
        \/ ~d.flag /\ d.items = {} /\ n = Seated
    BY <1>1, <2>1 DEF Goes
  <2>5. \/ /\ n = [at |-> n.at, k |-> d.k, of |-> d.of, row |-> d.row, seen |-> d.seen, total |-> d.total,
                   items |-> d.items, flag |-> d.flag, newer |-> d.newer, jumbled |-> d.jumbled]
           /\ (n.at = "clear" /\ d.flag) \/ (n.at = "item" /\ ~d.flag /\ d.items # {})
        \/ n = Seated
    <3>1. CASE d.flag /\ n = [d EXCEPT !.at = "clear"]
      BY <2>3, <3>1 DEF Shaped
    <3>2. CASE ~d.flag /\ d.items # {} /\ n = [d EXCEPT !.at = "item"]
      BY <2>3, <3>2 DEF Shaped
    <3>3. QED
      BY <2>4, <3>1, <3>2
  <2>6. TurnsTo(w, n, {"inquiry", "records"})
    BY <1>3, <2>2, DeskWritten
  <2>7. desk'[w] = n
    BY <2>6 DEF TurnsTo
  <2>8. begun' \in begun..Last /\ begun \in 1..Last /\ begun \in Nat
    BY <1>2, <1>3, BegunStays, LastIsNat
  <2>9. inquiry.id \in {0, d.row.id} /\ d.at \in InquiryStages
    BY <1>1, <1>2, <1>3 DEF Knowing, InquiryStages
  <2>10. RowsTyped'
    BY <1>2, <1>3, <2>2, <2>3, <2>8, <2>9 DEF RowsTyped
  <2>11. Announced(w, {"inquiry", "records"})
    BY <1>1, <1>2, <2>2, <2>8, <2>9 DEF Announced
  <2>12. GoesOn(w, n)
    <3>1. CASE n = Seated
      BY <3>1, SeatedGoesOn
    <3>2. CASE n # Seated
      BY <1>1, <2>5, <2>9, <3>2 DEF GoesOn
    <3>3. QED
      BY <3>1, <3>2
  <2>13. d.flag => d.items = TwoItems(d.k)
    <3>1. CASE d.row.id = d.k
      BY <1>1, <1>2, <2>9, <3>1 DEF RecordsInv, OneInquiry
    <3>2. CASE d.row.id # d.k
      BY <2>3, <3>2
    <3>3. QED
      BY <3>1, <3>2
  <2>14. Holding(w)' /\ Knowing(w)'
    <3>1. CASE n = Seated
      BY <1>2, <2>7, <2>8, <3>1, SeatedHolds
    <3>2. CASE n # Seated
      <4>1. Holding(w)'
        BY <1>2, <2>3, <2>5, <2>7, <2>13, <3>2 DEF Holding, IsDesk, Shaped, InquiryStages, ErasingStages
      <4>2. Knowing(w)'
        BY <2>2, <2>5, <2>7, <3>2 DEF Knowing, InquiryStages
      <4>3. QED
        BY <4>1, <4>2
    <3>3. QED
      BY <3>1, <3>2
  <2>15. RecordsTyped' /\ \A v \in Workers : Knowing(v)'
    BY <2>6, <2>10, <2>11, <2>14, AllHold
  <2>16. OneInquiry'
    BY <2>6, <2>11, <2>12, SameInquiry
  <2>17. OneWriter'
    <3>1. CASE n.at = "item"
      <4>1. /\ ~d.flag /\ d.items # {} /\ n.items = d.items /\ n.k = d.k
        BY <2>5, <3>1 DEF Seated
      <4>2. d.row.id = d.k /\ d.items = TwoItems(d.k)
        BY <2>3, <4>1
      <4>3. inquiry.id = 0 /\ \A v \in Workers : desk[v].at \in InquiryStages => v = w
        BY <1>1, <1>2, <2>9, <4>2 DEF RecordsInv, OneInquiry
      <4>4. \A v \in Workers \ {w} : desk'[v].at # "item"
        BY <2>6, <4>3 DEF TurnsTo, Sees, InquiryStages
      <4>5. items' = {}
        BY <1>2, <1>3, <4>3 DEF RowsTyped
      <4>6. items' = TwoItems(n.k) \ n.items
        BY <4>1, <4>2, <4>5
      <4>7. QED
        BY <2>7, <3>1, <4>4, <4>6 DEF OneWriter, TwoItems
    <3>2. CASE n.at # "item"
      BY <1>1, <1>2, <2>6, <3>2, SameWriters
    <3>3. QED
      BY <3>1, <3>2
  <2>18. OrderAgrees'
    BY <1>2, <2>2 DEF RecordsInv, OrderAgrees
  <2>19. NobodyTaken'
    BY <1>2, <1>5, <2>2, <2>3 DEF RecordsInv, NobodyTaken
  <2>20. Counted'
    BY <1>2, <2>2 DEF RecordsInv, Counted
  <2>21. n.at # "saveOrder"
    BY <2>5 DEF Seated
  <2>22. InquiryKept'
    <3>1. SUFFICES ASSUME "inquiry" \notin stale'
                   PROVE  /\ Converted' => d.row.status = "resolved" \/ reopened
                          /\ d.row.reply = lastReply'
      BY <1>2, <2>2 DEF InquiryKept
    <3>2. ~d.newer /\ "inquiry" \notin stale
      BY <2>2, <3>1
    <3>3. CASE d.row.id = d.k
      <4>1. /\ inquiry.id = 0
            /\ \A v \in Workers : desk[v].at = "saveOrder" => desk[v].row.inquiry # d.row.id
        BY <1>1, <1>2, <2>9, <3>3 DEF RecordsInv, OneInquiry
      <4>2. ~Converted'
        <5>1. order'.inquiry # inquiry'.id
          BY <1>2, <1>3, <2>2, <2>3, <4>1 DEF RowsTyped
        <5>2. \A v \in Workers : desk'[v].at = "saveOrder" => desk'[v].row.inquiry # inquiry'.id
          BY <2>2, <2>6, <2>7, <2>21, <4>1 DEF TurnsTo, Sees
        <5>3. QED
          BY <5>1, <5>2 DEF Converted
      <4>3. QED
        BY <2>2, <4>1, <4>2
    <3>4. CASE d.row.id # d.k
      <4>1. /\ inquiry.id = d.row.id
            /\ d.row.status \in {inquiry.status, "resolved"} \/ reopened
            /\ d.row.reply \in {inquiry.reply, d.k}
        BY <1>1, <1>2, <1>3, <3>2, <3>4 DEF Knowing
      <4>2. /\ Converted => inquiry.status = "resolved" \/ reopened
            /\ inquiry.reply = lastReply
        BY <2>3, <3>2, <4>1 DEF RecordsInv, InquiryKept
      <4>3. Converted' => Converted
        <5>1. order'.id # 0 /\ order'.inquiry = inquiry.id => Converted
          BY <1>2 DEF Converted
        <5>2. inquiry'.id = inquiry.id
          BY <2>2, <4>1
        <5>3. QED
          BY <2>6, <2>21, <5>1, <5>2, SameConverted
      <4>4. QED
        BY <2>2, <4>1, <4>2, <4>3
    <3>5. QED
      BY <3>3, <3>4
  <2>23. QED
    BY <2>15, <2>16, <2>17, <2>18, <2>19, <2>20, <2>22 DEF RecordsInv
<1>6. QED
  BY <1>4, <1>5

\* Of the item writers: the rows but the items stay.
LEMMA ItemsKeep ==
    ASSUME RecordsInv, NEW w \in Workers, NEW next, NEW rows, TurnsTo(w, next, rows),
           begun' = begun, client' = client, inquiry' = inquiry, order' = order, orderItems' = orderItems,
           torn' = torn, stale' = stale, reopened' = reopened, lastReply' = lastReply,
           recorded' = recorded, slipped' = slipped, owed' = owed,
           halved' \in BOOLEAN, items' = items \/ "items" \in rows, inquiry.id = 0 => items' = {},
           GoesOn(w, next), next.at # "saveOrder", Holding(w)', Knowing(w)', OneWriter'
    PROVE  RecordsInv'
<1>1. RowsTyped /\ RowsTyped'
  BY DEF RecordsInv, RecordsTyped, RowsTyped
<1>2. begun' \in begun..Last
  BY BegunStays DEF RecordsInv
<1>3. Announced(w, rows)
  BY <1>2 DEF Announced
<1>4. RecordsTyped' /\ \A v \in Workers : Knowing(v)'
  BY <1>1, <1>3, AllHold
<1>5. OneInquiry'
  BY <1>3, SameInquiry
<1>6. Converted' => Converted
  <2>1. inquiry'.id = inquiry.id
    OBVIOUS
  <2>2. order'.id # 0 /\ order'.inquiry = inquiry.id => Converted
    BY DEF Converted
  <2>3. QED
    BY <2>1, <2>2, SameConverted
<1>7. OrderAgrees' /\ InquiryKept' /\ NobodyTaken' /\ Counted'
  BY <1>6 DEF RecordsInv, OrderAgrees, InquiryKept, NobodyTaken, Counted
<1>8. QED
  BY <1>4, <1>5, <1>7 DEF RecordsInv

LEMMA ClearItemsKeeps ==
    ASSUME RecordsInv, NEW w \in Workers, ClearItems(w)
    PROVE  RecordsInv'
<1>1. PICK d : d = desk[w]
  OBVIOUS
<1>2. /\ d.at = "clear" /\ begun' = begun /\ items' = {} /\ halved' = (halved \/ OthersWrite(w))
      /\ client' = client /\ inquiry' = inquiry /\ order' = order /\ orderItems' = orderItems
      /\ torn' = torn /\ stale' = stale /\ reopened' = reopened /\ lastReply' = lastReply
      /\ recorded' = recorded /\ slipped' = slipped /\ owed' = owed
      /\ Writes(w, [d EXCEPT !.at = "item"], {"items"})
  BY <1>1 DEF ClearItems, Goes
<1>3. Holding(w) /\ Knowing(w) /\ RecordsTyped /\ RowsTyped /\ Shaped(d)
  BY <1>1 DEF RecordsInv, RecordsTyped, Holding, IsDesk
<1>4. PICK n : n = [at |-> "item", k |-> d.k, of |-> d.of, row |-> d.row, seen |-> d.seen, total |-> d.total,
                    items |-> d.items, flag |-> d.flag, newer |-> d.newer, jumbled |-> d.jumbled]
  OBVIOUS
<1>5. TurnsTo(w, n, {"items"})
  <2>1. [d EXCEPT !.at = "item"] = n
    BY <1>3, <1>4, GoesDesk, Zenon
  <2>2. QED
    BY <1>2, <1>3, <2>1, DeskWritten
<1>6. desk'[w] = n
  BY <1>5 DEF TurnsTo
<1>7. d.items = TwoItems(d.k) /\ <<d.k, 1>> \in TwoItems(d.k)
  BY <1>1, <1>2, <1>3 DEF Holding, TwoItems
<1>8. Holding(w)'
  BY <1>1, <1>2, <1>3, <1>4, <1>6, <1>7 DEF Holding, IsDesk, Shaped, InquiryStages, ErasingStages
<1>9. Knowing(w)'
  BY <1>1, <1>2, <1>3, <1>4, <1>6 DEF Knowing, InquiryStages
<1>10. GoesOn(w, n)
  BY <1>1, <1>2, <1>4 DEF GoesOn, InquiryStages
<1>11. halved' \in BOOLEAN
  BY <1>2, <1>3 DEF RowsTyped
<1>12. OneWriter'
  <2>1. SUFFICES ASSUME ~halved'
                 PROVE  /\ \A v \in Workers : desk'[v].at = "item" => v = w
                        /\ items' = TwoItems(n.k) \ n.items /\ n.at = "item"
    BY <1>6 DEF OneWriter
  <2>2. \A v \in Workers \ {w} : desk[v].at # "item"
    BY <1>2, <1>3, <2>1 DEF OthersWrite, RowsTyped
  <2>3. \A v \in Workers \ {w} : desk'[v].at = desk[v].at
    BY <1>5 DEF TurnsTo, Sees
  <2>4. QED
    BY <1>2, <1>4, <1>7, <2>2, <2>3
<1>13. "items" \in {"items"} /\ n.at # "saveOrder"
  BY <1>4
<1>14. QED
  BY <1>2, <1>5, <1>8, <1>9, <1>10, <1>11, <1>12, <1>13, ItemsKeep

LEMMA StopsHalfwayKeeps ==
    ASSUME RecordsInv, NEW w \in Workers, StopsHalfway(w)
    PROVE  RecordsInv'
<1>1. /\ desk[w].at = "item" /\ begun' = begun /\ items' = items /\ halved' = TRUE
      /\ client' = client /\ inquiry' = inquiry /\ order' = order /\ orderItems' = orderItems
      /\ torn' = torn /\ stale' = stale /\ reopened' = reopened /\ lastReply' = lastReply
      /\ recorded' = recorded /\ slipped' = slipped /\ owed' = owed
      /\ Reads(w, Seated)
  BY DEF StopsHalfway, rowVars
<1>2. RecordsTyped /\ RowsTyped
  BY DEF RecordsInv, RecordsTyped
<1>3. TurnsTo(w, Seated, {}) /\ desk'[w] = Seated
  BY <1>1, <1>2, DeskRead DEF TurnsTo
<1>4. Holding(w)' /\ Knowing(w)'
  BY <1>1, <1>2, <1>3, SeatedHolds, LastIsNat DEF RowsTyped
<1>5. OneWriter'
  BY <1>1 DEF OneWriter
<1>6. GoesOn(w, Seated) /\ Seated.at # "saveOrder" /\ halved' \in BOOLEAN /\ (inquiry.id = 0 => items' = {})
  BY <1>1, <1>2, SeatedGoesOn DEF Seated, RowsTyped
<1>7. QED
  BY <1>1, <1>3, <1>4, <1>5, <1>6, ItemsKeep

LEMMA InsertItemKeeps ==
    ASSUME RecordsInv, NEW w \in Workers, InsertItem(w)
    PROVE  RecordsInv'
<1>1. PICK d : d = desk[w]
  OBVIOUS
<1>2. PICK item : item = IF <<d.k, 1>> \in d.items THEN <<d.k, 1>> ELSE <<d.k, 2>>
  OBVIOUS
<1>3. /\ d.at = "item" /\ begun' = begun /\ halved' = halved
      /\ client' = client /\ inquiry' = inquiry /\ order' = order /\ orderItems' = orderItems
      /\ torn' = torn /\ stale' = stale /\ reopened' = reopened /\ lastReply' = lastReply
      /\ recorded' = recorded /\ slipped' = slipped /\ owed' = owed
      /\ IF inquiry.id # d.row.id THEN Reads(w, Seated) /\ items' = items
         ELSE /\ items' = items \cup {item}
              /\ Writes(w, IF d.items = {item} THEN Seated
                           ELSE [d EXCEPT !.items = @ \ {item}], {"items"})
  BY <1>1, <1>2 DEF InsertItem, factVars
<1>4. Holding(w) /\ Knowing(w) /\ RecordsTyped /\ RowsTyped /\ Shaped(d)
  BY <1>1 DEF RecordsInv, RecordsTyped, Holding, IsDesk
<1>5. begun' \in begun..Last /\ begun' \in Nat /\ d.k \in 1..Last
  <2>1. d.k \in 0..begun /\ d.k # 0
    BY <1>1, <1>3, <1>4 DEF Holding
  <2>2. QED
    BY <1>3, <1>4, <2>1, BegunStays, LastIsNat
<1>6. ~halved => /\ \A v \in Workers : desk[v].at = "item" => v = w
                 /\ items = TwoItems(d.k) \ d.items
  BY <1>1, <1>3 DEF RecordsInv, OneWriter
<1>7. inquiry.id \in {0, d.row.id}
  BY <1>1, <1>3, <1>4 DEF Knowing, InquiryStages
<1>8. halved' \in BOOLEAN
  BY <1>3, <1>4 DEF RowsTyped
<1>9. CASE inquiry.id # d.row.id
  <2>1. TurnsTo(w, Seated, {}) /\ desk'[w] = Seated
    BY <1>3, <1>4, <1>9, DeskRead DEF TurnsTo
  <2>2. items' = items /\ items = {}
    BY <1>3, <1>4, <1>7, <1>9 DEF RowsTyped
  <2>3. Holding(w)' /\ Knowing(w)'
    BY <1>5, <2>1, SeatedHolds
  <2>4. OneWriter'
    <3>1. \A v \in Workers \ {w} : desk'[v].at = desk[v].at
      BY <2>1 DEF TurnsTo, Sees
    <3>2. desk'[w].at # "item"
      BY <2>1 DEF Seated
    <3>3. QED
      BY <1>3, <1>6, <2>2, <3>1, <3>2 DEF OneWriter, Whole
  <2>5. GoesOn(w, Seated) /\ Seated.at # "saveOrder" /\ (inquiry.id = 0 => items' = {})
    BY <2>2, SeatedGoesOn DEF Seated
  <2>6. QED
    BY <1>3, <1>8, <2>1, <2>2, <2>3, <2>4, <2>5, ItemsKeep
<1>10. CASE inquiry.id = d.row.id
  <2>1. d.items # {} /\ d.items \subseteq TwoItems(d.k) /\ inquiry.id # 0
    BY <1>1, <1>3, <1>4, <1>10 DEF Holding, InquiryStages
  <2>2. item \in d.items /\ item \in TwoItems(d.k)
    BY <1>2, <2>1 DEF TwoItems
  <2>3. PICK n : n = IF d.items = {item} THEN Seated ELSE [d EXCEPT !.items = d.items \ {item}]
    OBVIOUS
  <2>4. items' = items \cup {item} /\ TurnsTo(w, n, {"items"})
    BY <1>3, <1>4, <1>10, <2>3, DeskWritten
  <2>5. desk'[w] = n
    BY <2>4 DEF TurnsTo
  <2>6. "items" \in {"items"} /\ inquiry.id # 0
    BY <2>1
  <2>7. \A v \in Workers \ {w} : desk'[v].at = desk[v].at
    BY <2>4 DEF TurnsTo, Sees
  <2>8. CASE d.items = {item}
    <3>1. n = Seated
      BY <2>3, <2>8
    <3>2. Holding(w)' /\ Knowing(w)'
      BY <1>5, <2>5, <3>1, SeatedHolds
    <3>3. OneWriter'
      <4>1. desk'[w].at # "item"
        BY <2>5, <3>1 DEF Seated
      <4>2. ~halved => items' = TwoItems(d.k)
        BY <1>6, <2>2, <2>4, <2>8
      <4>3. QED
        BY <1>3, <1>5, <1>6, <2>7, <4>1, <4>2 DEF OneWriter, Whole, TwoItems
    <3>4. GoesOn(w, n) /\ n.at # "saveOrder"
      BY <3>1, SeatedGoesOn DEF Seated
    <3>5. QED
      BY <1>3, <1>8, <2>4, <2>6, <3>2, <3>3, <3>4, ItemsKeep
  <2>9. CASE d.items # {item}
    <3>1. n = [at |-> d.at, k |-> d.k, of |-> d.of, row |-> d.row, seen |-> d.seen, total |-> d.total,
               items |-> d.items \ {item}, flag |-> d.flag, newer |-> d.newer, jumbled |-> d.jumbled]
      BY <1>4, <2>3, <2>9 DEF Shaped
    <3>2. n.items # {} /\ n.items \subseteq TwoItems(d.k)
      BY <2>1, <2>2, <2>9, <3>1
    <3>3. Holding(w)'
      BY <1>1, <1>3, <1>4, <2>5, <3>1, <3>2 DEF Holding, IsDesk, Shaped, InquiryStages, ErasingStages
    <3>4. Knowing(w)'
      BY <1>3, <1>7, <2>5, <3>1 DEF Knowing, InquiryStages
    <3>5. OneWriter'
      <4>1. n.k = d.k /\ (~halved => items' = TwoItems(n.k) \ n.items)
        BY <1>6, <2>2, <2>4, <3>1
      <4>2. n.at = "item"
        BY <1>3, <3>1
      <4>3. QED
        BY <1>3, <1>6, <2>5, <2>7, <4>1, <4>2 DEF OneWriter, TwoItems
    <3>6. GoesOn(w, n) /\ n.at # "saveOrder"
      BY <1>1, <1>3, <3>1 DEF GoesOn, InquiryStages
    <3>7. QED
      BY <1>3, <1>8, <2>4, <2>6, <3>3, <3>4, <3>5, <3>6, ItemsKeep
  <2>10. QED
    BY <2>8, <2>9
<1>11. QED
  BY <1>9, <1>10

LEMMA DeleteInquiryKeeps ==
    ASSUME RecordsInv, NEW w \in Workers, DeleteInquiry(w)
    PROVE  RecordsInv'
<1>1. /\ Begins(w) /\ inquiry.id # 0 /\ inquiry' = NoInquiry /\ items' = {}
      /\ order' = [order EXCEPT !.inquiry = 0] /\ halved' = (halved \/ OthersWrite(w))
      /\ client' = client /\ orderItems' = orderItems
      /\ torn' = torn /\ stale' = stale /\ reopened' = reopened /\ lastReply' = lastReply
      /\ recorded' = recorded /\ slipped' = slipped /\ owed' = owed
      /\ Writes(w, Seated, {"inquiry", "items", "order"})
  BY DEF DeleteInquiry
<1>2. RecordsTyped /\ RowsTyped
  BY DEF RecordsInv, RecordsTyped
<1>3. /\ desk[w].at = "idle" /\ begun' \in begun..Last /\ begun' \in 1..Last
      /\ 0..begun \subseteq 0..begun' /\ begun' \in Nat
  BY <1>1, <1>2, BeginsOK, LastIsNat
<1>4. TurnsTo(w, Seated, {"inquiry", "items", "order"}) /\ desk'[w] = Seated
  BY <1>1, <1>2, DeskWritten DEF TurnsTo
<1>5. /\ IsOrder(order') /\ order'.id = order.id /\ order'.client = order.client /\ order'.inquiry = 0
      /\ order'.open = order.open /\ order'.total = order.total
  <2>1. order' = [id |-> order.id, client |-> order.client, inquiry |-> 0, open |-> order.open, total |-> order.total]
    BY <1>1, <1>2 DEF RowsTyped, IsOrder
  <2>2. QED
    BY <1>2, <2>1 DEF RowsTyped, IsOrder
<1>6. IsInquiry(inquiry') /\ inquiry'.id = 0 /\ inquiry'.client = 0
  BY <1>1 DEF IsInquiry, NoInquiry
<1>7. RowsTyped'
  BY <1>1, <1>2, <1>3, <1>5, <1>6 DEF RowsTyped
<1>8. Announced(w, {"inquiry", "items", "order"})
  BY <1>1, <1>3, <1>5, <1>6 DEF Announced
<1>9. Holding(w)' /\ Knowing(w)'
  BY <1>3, <1>4, SeatedHolds
<1>10. RecordsTyped' /\ \A v \in Workers : Knowing(v)'
  BY <1>4, <1>7, <1>8, <1>9, AllHold
<1>11. OneInquiry'
  BY <1>4, <1>8, SeatedGoesOn, SameInquiry
<1>12. OneWriter'
  <2>1. SUFFICES ASSUME ~halved'
                 PROVE  \A v \in Workers : desk'[v].at # "item"
    BY <1>1 DEF OneWriter, Whole
  <2>2. \A v \in Workers \ {w} : desk[v].at # "item"
    BY <1>1, <1>2, <2>1 DEF OthersWrite, RowsTyped
  <2>3. \A v \in Workers \ {w} : desk'[v].at = desk[v].at
    BY <1>4 DEF TurnsTo, Sees
  <2>4. desk'[w].at # "item"
    BY <1>4 DEF Seated
  <2>5. QED
    BY <2>2, <2>3, <2>4
<1>13. OrderAgrees'
  BY <1>1, <1>5 DEF RecordsInv, OrderAgrees
<1>14. InquiryKept' /\ NobodyTaken' /\ Counted'
  BY <1>1, <1>5, <1>6 DEF RecordsInv, InquiryKept, NobodyTaken, Counted
<1>15. QED
  BY <1>10, <1>11, <1>12, <1>13, <1>14 DEF RecordsInv

\* Of the steps that end a request and leave inquiry and items alone: what is
\* left to show is that the rows agree.
LEMMA OverKeeps ==
    ASSUME RecordsInv, NEW w \in Workers, NEW rows, TurnsTo(w, Seated, rows), Announced(w, rows),
           inquiry'.id = inquiry.id, items' = items, halved' = halved, desk[w].at # "item", RowsTyped'
    PROVE  RecordsTyped' /\ (\A v \in Workers : Knowing(v)') /\ OneInquiry' /\ OneWriter'
<1>1. desk'[w] = Seated /\ begun' \in Nat
  BY LastIsNat DEF TurnsTo, RowsTyped
<1>2. Holding(w)' /\ Knowing(w)'
  BY <1>1, SeatedHolds
<1>3. Seated.at # "item"
  BY DEF Seated
<1>4. RecordsTyped' /\ (\A v \in Workers : Knowing(v)')
  BY <1>2, AllHold
<1>5. OneInquiry'
  BY SeatedGoesOn, SameInquiry
<1>6. OneWriter'
  BY <1>3, SameWriters
<1>7. QED
  BY <1>4, <1>5, <1>6

LEMMA DeleteOrderKeeps ==
    ASSUME RecordsInv, NEW w \in Workers, DeleteOrder(w)
    PROVE  RecordsInv'
<1>1. /\ Begins(w) /\ order' = NoOrder /\ owed' = TRUE
      /\ client' = client /\ inquiry' = inquiry /\ items' = items
      /\ halved' = halved /\ torn' = torn /\ stale' = stale /\ reopened' = reopened
      /\ lastReply' = lastReply /\ recorded' = recorded /\ slipped' = slipped
      /\ Writes(w, Seated, {"order"})
  BY DEF DeleteOrder
<1>2. RecordsTyped /\ RowsTyped
  BY DEF RecordsInv, RecordsTyped
<1>3. /\ desk[w].at = "idle" /\ begun' \in begun..Last /\ begun' \in 1..Last /\ 0..begun \subseteq 0..begun'
  BY <1>1, <1>2, BeginsOK
<1>4. TurnsTo(w, Seated, {"order"})
  BY <1>1, <1>2, DeskWritten
<1>5. IsOrder(order') /\ order'.id = 0 /\ order'.client = 0 /\ order'.inquiry = 0 /\ ~order'.open
  BY <1>1 DEF NoOrder, IsOrder
<1>6. RowsTyped'
  BY <1>1, <1>2, <1>3, <1>5 DEF RowsTyped
<1>7. Announced(w, {"order"})
  BY <1>1, <1>3, <1>5 DEF Announced
<1>8. RecordsTyped' /\ (\A v \in Workers : Knowing(v)') /\ OneInquiry' /\ OneWriter'
  BY <1>1, <1>3, <1>4, <1>6, <1>7, OverKeeps
<1>9. Converted' => Converted
  <2>1. inquiry'.id = inquiry.id /\ Seated.at # "saveOrder" /\ ~(order'.id # 0)
    BY <1>1, <1>5 DEF Seated
  <2>2. QED
    BY <1>4, <2>1, SameConverted
<1>10. OrderAgrees' /\ InquiryKept' /\ NobodyTaken' /\ Counted'
  BY <1>1, <1>5, <1>9 DEF RecordsInv, OrderAgrees, InquiryKept, NobodyTaken, Counted
<1>11. QED
  BY <1>8, <1>10 DEF RecordsInv

\* Of the steps that write the client alone: what is left to show is that the
\* client and its records agree.
LEMMA ClientKeeps ==
    ASSUME RecordsInv, NEW w \in Workers, NEW rows, TurnsTo(w, Seated, rows),
           begun' \in begun..Last, IsClient(client'), client'.id \in 0..begun',
           (client'.id = client.id /\ client'.projects = client.projects) \/ "client" \in rows,
           inquiry' = inquiry, items' = items, order' = order, orderItems' = orderItems,
           halved' = halved, torn' = torn, reopened' = reopened, lastReply' = lastReply,
           recorded' = recorded, owed' \in BOOLEAN,
           "order" \in stale <=> "order" \in stale', "inquiry" \in stale <=> "inquiry" \in stale',
           desk[w].at # "item", NobodyTaken', Counted'
    PROVE  RecordsInv'
<1>1. RecordsTyped /\ RowsTyped
  BY DEF RecordsInv, RecordsTyped
<1>2. RowsTyped'
  <2>1. begun' \in 1..Last /\ 0..begun \subseteq 0..begun'
    BY <1>1, BegunInRange
  <2>2. QED
    BY <1>1, <2>1 DEF RowsTyped
<1>3. Announced(w, rows)
  BY DEF Announced
<1>4. RecordsTyped' /\ (\A v \in Workers : Knowing(v)') /\ OneInquiry' /\ OneWriter'
  BY <1>2, <1>3, OverKeeps
<1>5. Converted' => Converted
  <2>1. inquiry'.id = inquiry.id /\ Seated.at # "saveOrder"
    BY DEF Seated
  <2>2. order'.id # 0 /\ order'.inquiry = inquiry.id => Converted
    BY DEF Converted
  <2>3. QED
    BY <2>1, <2>2, SameConverted
<1>6. OrderAgrees' /\ InquiryKept'
  BY <1>5 DEF RecordsInv, OrderAgrees, InquiryKept
<1>7. QED
  BY <1>4, <1>6 DEF RecordsInv

LEMMA AddClientKeeps ==
    ASSUME RecordsInv, NEW w \in Workers, AddClient(w)
    PROVE  RecordsInv'
<1>1. PICK n \in Counts \cup {0} : client' = [NewClient(begun') EXCEPT !.projects = n] /\ owed' = (n # 0)
  BY DEF AddClient
<1>2. /\ Begins(w) /\ client.id = 0
      /\ inquiry' = inquiry /\ items' = items /\ order' = order /\ orderItems' = orderItems
      /\ halved' = halved /\ torn' = torn /\ stale' = stale /\ reopened' = reopened
      /\ lastReply' = lastReply /\ recorded' = recorded /\ slipped' = slipped
      /\ Writes(w, Seated, {"client"})
  BY DEF AddClient
<1>3. RecordsTyped /\ RowsTyped
  BY DEF RecordsInv, RecordsTyped
<1>4. /\ desk[w].at = "idle" /\ begun' = begun + 1 /\ begun' \in begun..Last /\ begun' \in 1..Last
      /\ begun \in 1..Last
  BY <1>2, <1>3, BeginsOK DEF RowsTyped
<1>5. IsClient(client') /\ client'.id = begun' /\ client'.projects = n
  <2>1. client' = [id |-> begun', active |-> TRUE, projects |-> n]
    BY <1>1 DEF NewClient
  <2>2. QED
    BY <2>1 DEF IsClient
<1>6. TurnsTo(w, Seated, {"client"}) /\ "client" \in {"client"} /\ desk[w].at # "item"
  BY <1>2, <1>3, <1>4, DeskWritten
<1>7. client'.id \in 0..begun'
  BY <1>4, <1>5, LastIsNat
<1>8. NobodyTaken'
  BY <1>2 DEF RecordsInv, NobodyTaken
<1>9. Counted'
  <2>1. order'.client # client'.id
    BY <1>2, <1>3, <1>4, <1>5, LastIsNat DEF RowsTyped
  <2>2. ~owed' => client'.projects = 0
    BY <1>1, <1>5
  <2>3. QED
    BY <2>1, <2>2 DEF Counted
<1>10. owed' \in BOOLEAN
  BY <1>1
<1>11. QED
  BY <1>2, <1>4, <1>5, <1>6, <1>7, <1>8, <1>9, <1>10, ClientKeeps

LEMMA SaveClientKeeps ==
    ASSUME RecordsInv, NEW w \in Workers, SaveClient(w)
    PROVE  RecordsInv'
<1>1. PICK d : d = desk[w]
  OBVIOUS
<1>2. /\ d.at = "saveClient" /\ begun' = begun
      /\ inquiry' = inquiry /\ items' = items /\ order' = order /\ orderItems' = orderItems
      /\ halved' = halved /\ torn' = torn /\ reopened' = reopened
      /\ lastReply' = lastReply /\ recorded' = recorded /\ slipped' = slipped
      /\ owed' = (owed \/ (d.flag /\ ~(client.id \notin {0, d.seen.id})))
  BY <1>1 DEF SaveClient
<1>3. Holding(w) /\ Knowing(w) /\ RecordsTyped /\ RowsTyped
  BY DEF RecordsInv, RecordsTyped
<1>4. begun' \in begun..Last /\ desk[w].at # "item"
  BY <1>1, <1>2, <1>3, BegunStays
<1>5. owed' \in BOOLEAN
  BY <1>2
<1>6. CASE client.id \notin {0, d.seen.id}
  <2>1. client' = client /\ stale' = stale /\ Writes(w, Seated, {})
    BY <1>1, <1>6 DEF SaveClient
  <2>2. TurnsTo(w, Seated, {}) /\ IsClient(client') /\ client'.id \in 0..begun'
    BY <1>2, <1>3, <2>1, DeskWritten DEF RowsTyped
  <2>3. NobodyTaken' /\ Counted'
    BY <1>2, <1>6, <2>1 DEF RecordsInv, NobodyTaken, Counted
  <2>4. QED
    BY <1>2, <1>4, <1>5, <2>1, <2>2, <2>3, ClientKeeps
<1>7. CASE client.id \in {0, d.seen.id}
  <2>1. /\ client' = d.seen /\ Writes(w, Seated, {"client"})
        /\ stale' = (IF d.newer THEN stale \cup {"client"} ELSE stale)
    <3>1. ~(client.id \notin {0, d.seen.id})
      BY <1>7
    <3>2. QED
      BY <1>1, <3>1 DEF SaveClient
  <2>2. IsClient(d.seen) /\ d.seen.id \in 0..begun /\ d.seen.id # 0
    BY <1>1, <1>2, <1>3 DEF Holding
  <2>3. TurnsTo(w, Seated, {"client"}) /\ IsClient(client') /\ client'.id \in 0..begun' /\ "client" \in {"client"}
    BY <1>2, <1>3, <2>1, <2>2, DeskWritten
  <2>4. NobodyTaken'
    BY <1>2, <1>7, <2>1, <2>2 DEF RecordsInv, NobodyTaken
  <2>5. ~d.newer => d.seen.id = client.id /\ (~d.flag => d.seen.projects = client.projects)
    BY <1>1, <1>2, <1>3 DEF Knowing
  <2>6. Counted'
    <3>1. SUFFICES ASSUME "client" \notin stale', ~owed'
                   PROVE  d.seen.projects = IF order.open /\ order.client = d.seen.id THEN 1 ELSE 0
      BY <1>2, <2>1 DEF Counted
    <3>2. ~d.newer /\ "client" \notin stale /\ ~owed /\ ~d.flag
      BY <1>2, <1>7, <2>1, <3>1
    <3>3. QED
      BY <2>2, <2>5, <3>1, <3>2 DEF RecordsInv, Counted
  <2>7. ("order" \in stale <=> "order" \in stale') /\ ("inquiry" \in stale <=> "inquiry" \in stale')
    BY <2>1
  <2>8. QED
    BY <1>2, <1>4, <1>5, <2>3, <2>4, <2>6, <2>7, ClientKeeps
<1>8. QED
  BY <1>6, <1>7

LEMMA DeactivateKeeps ==
    ASSUME RecordsInv, NEW w \in Workers, Deactivate(w)
    PROVE  RecordsInv'
<1>1. PICK rows : rows = IF client.id = desk[w].seen.id THEN {"client"} ELSE {}
  OBVIOUS
<1>2. /\ desk[w].at = "deactivate" /\ begun' = begun
      /\ client' = (IF client.id = desk[w].seen.id THEN [client EXCEPT !.active = FALSE] ELSE client)
      /\ Writes(w, Seated, rows)
      /\ inquiry' = inquiry /\ items' = items /\ order' = order /\ orderItems' = orderItems
      /\ halved' = halved /\ torn' = torn /\ stale' = stale /\ reopened' = reopened
      /\ lastReply' = lastReply /\ recorded' = recorded /\ slipped' = slipped /\ owed' = owed
  BY <1>1 DEF Deactivate, factVars
<1>3. RecordsTyped /\ RowsTyped
  BY DEF RecordsInv, RecordsTyped
<1>4. begun' \in begun..Last /\ desk[w].at # "item"
  BY <1>2, <1>3, BegunStays
<1>5. IsClient(client') /\ client'.id = client.id /\ client'.projects = client.projects
  <2>1. client' = [id |-> client.id, active |-> FALSE, projects |-> client.projects] \/ client' = client
    BY <1>2, <1>3 DEF RowsTyped, IsClient
  <2>2. QED
    BY <1>3, <2>1 DEF RowsTyped, IsClient
<1>6. TurnsTo(w, Seated, rows) /\ client'.id \in 0..begun'
  BY <1>2, <1>3, <1>5, DeskWritten DEF RowsTyped
<1>7. NobodyTaken' /\ Counted'
  BY <1>2, <1>5 DEF RecordsInv, NobodyTaken, Counted
<1>8. owed' \in BOOLEAN
  BY <1>2, <1>3 DEF RowsTyped
<1>9. QED
  BY <1>2, <1>4, <1>5, <1>6, <1>7, <1>8, ClientKeeps

LEMMA EraseClientKeeps ==
    ASSUME RecordsInv, NEW w \in Workers, EraseClient(w)
    PROVE  RecordsInv'
<1>1. PICK d, rows : d = desk[w] /\ rows = {"client", "inquiry", "order"}
  OBVIOUS
<1>2. /\ d.at = "delete" /\ begun' = begun
      /\ client' = (IF client.id = d.seen.id THEN NoClient ELSE client)
      /\ inquiry' = (IF inquiry.client = d.seen.id THEN [inquiry EXCEPT !.client = 0] ELSE inquiry)
      /\ order' = (IF order.client = d.seen.id THEN [order EXCEPT !.client = 0] ELSE order)
      /\ Writes(w, Seated, rows)
      /\ slipped' = (IF d.newer THEN slipped \cup {d.seen.id} ELSE slipped)
      /\ items' = items /\ orderItems' = orderItems
      /\ halved' = halved /\ torn' = torn /\ stale' = stale /\ reopened' = reopened
      /\ lastReply' = lastReply /\ recorded' = recorded /\ owed' = owed
  BY <1>1 DEF EraseClient
<1>3. Holding(w) /\ Knowing(w) /\ RecordsTyped /\ RowsTyped
  BY DEF RecordsInv, RecordsTyped
<1>4. begun' \in begun..Last /\ desk[w].at # "item" /\ begun \in Nat
  BY <1>1, <1>2, <1>3, BegunStays, LastIsNat
<1>5. d.seen.id # 0
  BY <1>1, <1>2, <1>3 DEF Holding, ErasingStages
<1>6. IsClient(client') /\ client'.id \in {0, client.id} /\ (client'.id # 0 => client' = client /\ client.id # d.seen.id)
  BY <1>2, <1>3 DEF RowsTyped, IsClient, NoClient
<1>7. /\ IsInquiry(inquiry') /\ inquiry'.id = inquiry.id /\ inquiry'.status = inquiry.status
      /\ inquiry'.reply = inquiry.reply
      /\ inquiry'.client = IF inquiry.client = d.seen.id THEN 0 ELSE inquiry.client
  <2>1. CASE inquiry.client = d.seen.id
    <3>1. inquiry' = [id |-> inquiry.id, client |-> 0, status |-> inquiry.status, reply |-> inquiry.reply]
      BY <1>2, <1>3, <2>1 DEF RowsTyped, IsInquiry
    <3>2. QED
      BY <2>1, <3>1 DEF IsInquiry
  <2>2. CASE inquiry.client # d.seen.id
    BY <1>2, <1>3, <2>2 DEF RowsTyped
  <2>3. QED
    BY <2>1, <2>2
<1>8. /\ IsOrder(order') /\ order'.id = order.id /\ order'.inquiry = order.inquiry
      /\ order'.open = order.open /\ order'.total = order.total
      /\ order'.client = IF order.client = d.seen.id THEN 0 ELSE order.client
  <2>1. CASE order.client = d.seen.id
    <3>1. order' = [id |-> order.id, client |-> 0, inquiry |-> order.inquiry, open |-> order.open,
                    total |-> order.total]
      BY <1>2, <1>3, <2>1 DEF RowsTyped, IsOrder
    <3>2. QED
      BY <1>3, <2>1, <3>1 DEF RowsTyped, IsOrder
  <2>2. CASE order.client # d.seen.id
    BY <1>2, <1>3, <2>2 DEF RowsTyped
  <2>3. QED
    BY <2>1, <2>2
<1>9. RowsTyped'
  BY <1>2, <1>3, <1>4, <1>6, <1>7, <1>8 DEF RowsTyped
<1>10. TurnsTo(w, Seated, rows)
  BY <1>2, <1>3, DeskWritten
<1>11. Announced(w, rows)
  BY <1>1, <1>2, <1>4, <1>7, <1>8 DEF Announced
<1>12. RecordsTyped' /\ (\A v \in Workers : Knowing(v)') /\ OneInquiry' /\ OneWriter'
  BY <1>2, <1>4, <1>7, <1>9, <1>10, <1>11, OverKeeps
<1>13. Converted' => Converted
  <2>1. inquiry'.id = inquiry.id /\ Seated.at # "saveOrder"
    BY <1>7 DEF Seated
  <2>2. order'.id # 0 /\ order'.inquiry = inquiry.id => Converted
    BY <1>8 DEF Converted
  <2>3. QED
    BY <1>10, <2>1, <2>2, SameConverted
<1>14. OrderAgrees'
  BY <1>2, <1>8 DEF RecordsInv, OrderAgrees
<1>15. InquiryKept'
  BY <1>2, <1>7, <1>13 DEF RecordsInv, InquiryKept
<1>16. NobodyTaken'
  <2>1. SUFFICES ASSUME slipped' = {}
                 PROVE  /\ inquiry'.id # 0 => inquiry'.client = client'.id /\ client'.id # 0
                        /\ order'.id # 0 => order'.client = client'.id /\ client'.id # 0
    BY DEF NobodyTaken
  <2>2. ~d.newer /\ slipped = {}
    BY <1>2, <2>1
  <2>3. /\ order.id # 0 => order.client # d.seen.id
        /\ inquiry.id # 0 => inquiry.client # d.seen.id
    BY <1>1, <1>2, <1>3, <2>2 DEF Knowing
  <2>4. /\ inquiry.id # 0 => inquiry.client = client.id /\ client.id # 0
        /\ order.id # 0 => order.client = client.id /\ client.id # 0
    BY <2>2 DEF RecordsInv, NobodyTaken
  <2>5. QED
    BY <1>2, <1>7, <1>8, <2>3, <2>4
<1>17. Counted'
  BY <1>2, <1>5, <1>6, <1>8 DEF RecordsInv, Counted
<1>18. QED
  BY <1>12, <1>14, <1>15, <1>16, <1>17 DEF RecordsInv

LEMMA SaveOrderKeeps ==
    ASSUME RecordsInv, NEW w \in Workers, SaveOrder(w)
    PROVE  RecordsInv'
<1>1. PICK d, profile : d = desk[w] /\ profile = Upserted(d.k)
  OBVIOUS
<1>2. /\ d.at = "saveOrder" /\ begun' = begun
      /\ inquiry' = inquiry /\ items' = items /\ threads' = threads /\ halved' = halved /\ torn' = torn
      /\ reopened' = reopened /\ lastReply' = lastReply /\ slipped' = slipped
  BY <1>1 DEF SaveOrder
<1>3. Holding(w) /\ Knowing(w) /\ RecordsTyped /\ RowsTyped
  BY DEF RecordsInv, RecordsTyped
<1>4. CASE d.row.inquiry \notin {0, inquiry.id} \/ order.id \notin {0, d.row.id}
  <2>1. Reads(w, Seated) /\ UNCHANGED <<order, orderItems, client, stale, recorded, owed>>
    BY <1>1, <1>4 DEF SaveOrder
  <2>2. UNCHANGED <<rowVars, begun, factVars>> /\ desk[w].at # "item"
    BY <1>1, <1>2, <2>1 DEF rowVars, factVars
  <2>3. QED
    BY <2>1, <2>2, QuietlyOver
<1>5. CASE d.row.inquiry \in {0, inquiry.id} /\ order.id \in {0, d.row.id}
  <2>1. /\ order' = [d.row EXCEPT !.client = profile.id, !.total = Totalled(d)]
        /\ orderItems' = (IF d.items # {} THEN d.items ELSE orderItems)
        /\ client' = [profile EXCEPT !.projects = IF d.row.open THEN 1 ELSE 0]
        /\ Writes(w, Seated, {"order", "records", "client"})
        /\ stale' = (IF d.newer THEN stale \cup {"order"} ELSE stale)
        /\ recorded' = (IF d.flag THEN d.row.open ELSE recorded)
        /\ owed' = FALSE
    <3>1. ~(d.row.inquiry \notin {0, inquiry.id} \/ order.id \notin {0, d.row.id})
      BY <1>5
    <3>2. QED
      BY <1>1, <3>1 DEF SaveOrder
  <2>2. /\ d.k \in 0..begun /\ d.k # 0 /\ d.flag \in BOOLEAN /\ d.newer \in BOOLEAN
        /\ IsOrder(d.row) /\ d.row.id # 0
        /\ d.items \in {{}, TwoItems(d.k)} /\ d.total \in {{}, Given(d.k)}
    BY <1>1, <1>2, <1>3 DEF Holding, IsDesk
  <2>3. begun' \in begun..Last /\ desk[w].at # "item" /\ begun \in 1..Last /\ d.k \in 1..Last
    BY <1>1, <1>2, <1>3, <2>2, BegunStays, LastIsNat
  <2>4. IsClient(profile) /\ profile.id \in 0..begun /\ profile.id # 0 /\ (client.id # 0 => profile = client)
    BY <1>1, <1>3, <2>2 DEF Upserted, NewClient, RowsTyped, IsClient
  <2>5. /\ IsClient(client') /\ client'.id = profile.id
        /\ client'.projects = IF d.row.open THEN 1 ELSE 0
    <3>1. client' = [id |-> profile.id, active |-> profile.active, projects |-> IF d.row.open THEN 1 ELSE 0]
      BY <2>1, <2>4 DEF IsClient
    <3>2. QED
      BY <3>1 DEF IsClient
  <2>6. /\ IsOrder(order') /\ order'.id = d.row.id /\ order'.client = profile.id /\ order'.inquiry = d.row.inquiry
        /\ order'.open = d.row.open /\ order'.total = Totalled(d)
    <3>1. PICK e : e = [d.row EXCEPT !.client = profile.id]
      OBVIOUS
    <3>2. e = [id |-> d.row.id, client |-> profile.id, inquiry |-> d.row.inquiry, open |-> d.row.open,
               total |-> d.row.total]
      BY <2>2, <3>1 DEF IsOrder
    <3>3. [e EXCEPT !.total = Totalled(d)] =
            [id |-> d.row.id, client |-> profile.id, inquiry |-> d.row.inquiry, open |-> d.row.open,
             total |-> Totalled(d)]
      BY <3>2
    <3>4. order' = [e EXCEPT !.total = Totalled(d)]
      BY <2>1, <3>1, Zenon
    <3>5. order' = [id |-> d.row.id, client |-> profile.id, inquiry |-> d.row.inquiry, open |-> d.row.open,
                    total |-> Totalled(d)]
      BY <3>3, <3>4, Zenon
    <3>6. QED
      BY <2>2, <3>5 DEF IsOrder
  <2>7. recorded' \in BOOLEAN
    BY <1>3, <2>1, <2>2 DEF RowsTyped, IsOrder
  <2>8. RowsTyped'
    BY <1>2, <1>3, <1>5, <2>1, <2>2, <2>3, <2>4, <2>5, <2>6, <2>7 DEF RowsTyped
  <2>9. TurnsTo(w, Seated, {"order", "records", "client"})
    BY <1>3, <2>1, DeskWritten
  <2>10. Announced(w, {"order", "records", "client"})
    BY <1>2, <2>3 DEF Announced
  <2>11. RecordsTyped' /\ (\A v \in Workers : Knowing(v)') /\ OneInquiry' /\ OneWriter'
    BY <1>2, <2>3, <2>8, <2>9, <2>10, OverKeeps
  <2>12. Converted' => Converted
    <3>1. inquiry'.id = inquiry.id /\ Seated.at # "saveOrder"
      BY <1>2 DEF Seated
    <3>2. order'.id # 0 /\ order'.inquiry = inquiry.id => Converted
      BY <1>1, <1>2, <2>6 DEF Converted
    <3>3. QED
      BY <2>9, <3>1, <3>2, SameConverted
  <2>13. InquiryKept'
    BY <1>2, <2>1, <2>12 DEF RecordsInv, InquiryKept
  <2>14. NobodyTaken'
    BY <1>2, <2>4, <2>5, <2>6 DEF RecordsInv, NobodyTaken
  <2>15. Counted'
    BY <2>5, <2>6 DEF Counted
  <2>16. OrderAgrees'
    <3>1. SUFFICES ASSUME "order" \notin stale'
                   PROVE  /\ order'.open = recorded'
                          /\ order'.id \in torn \/ \E k \in 1..Last :
                               orderItems' \in {{}, TwoItems(k)} /\ order'.total \in {orderItems'} \cup {Given(j) : j \in 1..Last}
      BY <1>2 DEF OrderAgrees
    <3>2. ~d.newer /\ "order" \notin stale
      BY <2>1, <3>1
    <3>3. /\ order.id = d.row.id /\ order.total = d.row.total
          /\ d.row.open <=> IF d.flag THEN ~order.open ELSE order.open
      BY <1>1, <1>2, <1>3, <3>2 DEF Knowing
    <3>4. /\ order.open = recorded
          /\ order.id \in torn \/ \E k \in 1..Last :
               orderItems \in {{}, TwoItems(k)} /\ order.total \in {orderItems} \cup {Given(j) : j \in 1..Last}
      BY <2>2, <3>2, <3>3 DEF RecordsInv, OrderAgrees
    <3>5. order'.open = recorded'
      <4>1. order.open \in BOOLEAN /\ d.row.open \in BOOLEAN
        BY <1>3, <2>2 DEF RowsTyped, IsOrder
      <4>2. QED
        BY <2>1, <2>2, <2>6, <3>3, <3>4, <4>1
    <3>6. CASE d.items # {}
      <4>1. orderItems' = TwoItems(d.k) /\ order'.total \in {TwoItems(d.k), Given(d.k)}
        BY <2>1, <2>2, <2>6, <3>6 DEF Totalled
      <4>2. QED
        BY <2>3, <3>5, <4>1
    <3>7. CASE d.items = {}
      <4>1. orderItems' = orderItems /\ order'.id = order.id /\ order'.total \in {order.total, Given(d.k)}
        BY <2>1, <2>2, <2>6, <3>3, <3>7 DEF Totalled
      <4>2. QED
        BY <2>3, <3>4, <3>5, <4>1
    <3>8. QED
      BY <3>6, <3>7
  <2>17. QED
    BY <2>11, <2>13, <2>14, <2>15, <2>16 DEF RecordsInv
<1>6. QED
  BY <1>4, <1>5

LEMMA ConvertCommitsKeeps ==
    ASSUME RecordsInv, NEW w \in Workers, ConvertCommits(w)
    PROVE  RecordsInv'
<1>1. PICK d : d = desk[w]
  OBVIOUS
<1>2. d.at = "commit" /\ begun' = begun /\ items' = items /\ halved' = halved /\ slipped' = slipped
  BY <1>1 DEF ConvertCommits
<1>3. Holding(w) /\ Knowing(w) /\ RecordsTyped /\ RowsTyped
  BY DEF RecordsInv, RecordsTyped
<1>4. CASE inquiry.id # d.row.id \/ order.id # 0 \/ (~(d.seen.id = d.k) /\ client.id # d.seen.id)
  <2>1. Reads(w, Seated) /\ UNCHANGED <<rowVars, torn, stale, reopened, lastReply, recorded, owed>>
    BY <1>1, <1>4 DEF ConvertCommits
  <2>2. UNCHANGED <<rowVars, begun, factVars>> /\ desk[w].at # "item"
    BY <1>1, <1>2, <2>1 DEF factVars
  <2>3. QED
    BY <2>1, <2>2, QuietlyOver
<1>5. CASE inquiry.id = d.row.id /\ order.id = 0 /\ (d.seen.id = d.k \/ client.id = d.seen.id)
  <2>1. /\ order' = [id |-> d.k, client |-> d.seen.id, inquiry |-> d.row.id, open |-> TRUE, total |-> d.total]
        /\ orderItems' = d.items /\ inquiry' = Resolved(d) /\ threads' = threads \cup {d.seen.id}
        /\ client' = (IF d.seen.id = d.k THEN [d.seen EXCEPT !.projects = 1] ELSE Synchronised(d.seen, 1))
        /\ Writes(w, Seated, {"inquiry", "records", "client", "order"})
        /\ torn' = (IF d.jumbled THEN torn \cup {d.k} ELSE torn)
        /\ stale' = (stale \ {"order"}) \cup (IF d.newer THEN {"inquiry"} ELSE {})
                      \cup (IF ~(d.seen.id = d.k) /\ d.seen.projects # client.projects THEN {"client"} ELSE {})
        /\ reopened' = FALSE /\ recorded' = TRUE /\ owed' = FALSE
        /\ lastReply' = IF d.flag /\ d.row.reply = 0 THEN d.k ELSE lastReply
    <3>1. ~(inquiry.id # d.row.id \/ order.id # 0 \/ (~(d.seen.id = d.k) /\ client.id # d.seen.id))
      BY <1>5
    <3>2. QED
      BY <1>1, <3>1 DEF ConvertCommits
  <2>2. /\ d.k \in 0..begun /\ d.k # 0 /\ d.newer \in BOOLEAN /\ d.jumbled \in BOOLEAN
        /\ d.row.id \in 1..begun /\ IsClient(d.seen) /\ d.seen.id # 0 /\ d.seen.id \in 0..begun
    BY <1>1, <1>2, <1>3 DEF Holding, IsDesk, InquiryStages
  <2>3. begun' \in begun..Last /\ desk[w].at # "item" /\ begun \in 1..Last /\ d.k \in 1..Last /\ d.row.id # 0
    BY <1>1, <1>2, <1>3, <2>2, BegunStays, LastIsNat
  <2>4. /\ IsClient(client') /\ client'.id = d.seen.id
        /\ client'.projects = 1 \/ (d.seen.id # d.k /\ d.seen.projects # client.projects)
    <3>1. CASE d.seen.id = d.k
      <4>1. client' = [id |-> d.seen.id, active |-> d.seen.active, projects |-> 1]
        BY <2>1, <2>2, <3>1 DEF IsClient
      <4>2. QED
        BY <4>1 DEF IsClient
    <3>2. CASE d.seen.id # d.k
      <4>1. PICK p : p = IF d.seen.projects # 1 THEN 1 ELSE client.projects
        OBVIOUS
      <4>2. client' = [client EXCEPT !.projects = p]
        BY <2>1, <3>2, <4>1 DEF Synchronised
      <4>3. client' = [id |-> client.id, active |-> client.active, projects |-> p]
        BY <1>3, <4>2 DEF RowsTyped, IsClient
      <4>4. IsClient(client') /\ client'.id = client.id /\ client'.projects = p
        BY <4>3 DEF IsClient
      <4>5. QED
        BY <1>5, <3>2, <4>1, <4>4
    <3>3. QED
      BY <3>1, <3>2
  <2>5. /\ IsInquiry(inquiry') /\ inquiry'.id = inquiry.id /\ inquiry'.client = d.seen.id
        /\ inquiry'.status = "resolved"
        /\ inquiry'.reply = IF d.flag /\ d.row.reply = 0 THEN d.k ELSE d.row.reply
    <3>1. PICK p : p = IF d.flag /\ d.row.reply = 0 THEN d.k ELSE d.row.reply
      OBVIOUS
    <3>2. inquiry' = [inquiry EXCEPT !.client = d.seen.id, !.status = "resolved", !.reply = p]
      BY <2>1, <3>1 DEF Resolved
    <3>3. PICK e1 : e1 = [inquiry EXCEPT !.client = d.seen.id]
      OBVIOUS
    <3>4. PICK e2 : e2 = [e1 EXCEPT !.status = "resolved"]
      OBVIOUS
    <3>5. inquiry' = [e2 EXCEPT !.reply = p]
      BY <3>2, <3>3, <3>4, Zenon
    <3>6. inquiry' = [id |-> inquiry.id, client |-> d.seen.id, status |-> "resolved", reply |-> p]
      BY <1>3, <3>3, <3>4, <3>5 DEF RowsTyped, IsInquiry
    <3>7. QED
      BY <3>1, <3>6 DEF IsInquiry
  <2>6. /\ IsOrder(order') /\ order'.id = d.k /\ order'.client = d.seen.id /\ order'.inquiry = inquiry.id
        /\ order'.open = TRUE /\ order'.total = d.total
    BY <1>5, <2>1 DEF IsOrder
  <2>7. RowsTyped'
    BY <1>2, <1>3, <2>1, <2>2, <2>3, <2>4, <2>5, <2>6 DEF RowsTyped
  <2>8. TurnsTo(w, Seated, {"inquiry", "records", "client", "order"})
    BY <1>3, <2>1, DeskWritten
  <2>9. Announced(w, {"inquiry", "records", "client", "order"})
    BY <1>2, <2>3, <2>5 DEF Announced
  <2>10. RecordsTyped' /\ (\A v \in Workers : Knowing(v)') /\ OneInquiry' /\ OneWriter'
    BY <1>2, <2>3, <2>5, <2>7, <2>8, <2>9, OverKeeps
  <2>11. InquiryKept'
    <3>1. SUFFICES ASSUME "inquiry" \notin stale'
                   PROVE  inquiry'.reply = lastReply'
      BY <2>5 DEF InquiryKept
    <3>2. ~d.newer /\ "inquiry" \notin stale
      BY <2>1, <3>1
    <3>3. d.row.reply = inquiry.reply
      BY <1>1, <1>2, <1>3, <3>2 DEF Knowing
    <3>4. inquiry.reply = lastReply
      BY <1>5, <2>3, <3>2 DEF RecordsInv, InquiryKept
    <3>5. QED
      BY <2>1, <2>5, <3>3, <3>4
  <2>12. NobodyTaken'
    BY <2>2, <2>4, <2>5, <2>6 DEF NobodyTaken
  <2>13. Counted'
    BY <2>1, <2>4, <2>6 DEF Counted
  <2>14. OrderAgrees'
    <3>1. order'.open = recorded'
      BY <2>1, <2>6
    <3>2. CASE d.jumbled
      BY <2>1, <2>6, <3>1, <3>2 DEF OrderAgrees
    <3>3. CASE ~d.jumbled
      <4>1. d.total = d.items /\ Whole(d.items)
        BY <1>1, <1>2, <1>3, <3>3 DEF Knowing
      <4>2. PICK k \in 1..Last : d.items \in {{}, TwoItems(k)}
        BY <2>3, <4>1 DEF Whole
      <4>3. orderItems' \in {{}, TwoItems(k)} /\ order'.total = orderItems'
        BY <2>1, <2>6, <4>1, <4>2
      <4>4. QED
        BY <3>1, <4>3 DEF OrderAgrees
    <3>4. QED
      BY <3>2, <3>3
  <2>15. QED
    BY <2>10, <2>11, <2>12, <2>13, <2>14 DEF RecordsInv
<1>6. QED
  BY <1>4, <1>5
-----------------------------------------------------------------------------
LEMMA RecordsBegin ==
    ASSUME RecordsInit
    PROVE  RecordsInv
<1>1. PICK n \in 0..3 :
         /\ client = IF n = 0 THEN NoClient ELSE [NewClient(1) EXCEPT !.projects = IF n = 3 THEN 1 ELSE 0]
         /\ inquiry = CASE n < 2 -> NoInquiry
                        [] n = 2 -> NewInquiry(1, 1)
                        [] n = 3 -> [NewInquiry(1, 1) EXCEPT !.status = "resolved"]
         /\ items = IF n < 2 THEN {} ELSE TwoItems(1)
         /\ order = IF n < 3 THEN NoOrder
                    ELSE [id |-> 1, client |-> 1, inquiry |-> 1, open |-> TRUE, total |-> TwoItems(1)]
         /\ orderItems = IF n < 3 THEN {} ELSE TwoItems(1)
  BY DEF RecordsInit
<1>2. /\ desk = [w \in Workers |-> Seated] /\ begun = 1 /\ halved = FALSE /\ stale = {} /\ reopened = FALSE
      /\ lastReply = 0 /\ recorded = TRUE /\ slipped = {} /\ owed = FALSE
  BY DEF RecordsInit
<1>3. /\ client = [id |-> IF n = 0 THEN 0 ELSE 1, active |-> IF n = 0 THEN FALSE ELSE TRUE,
                   projects |-> IF n = 3 THEN 1 ELSE 0]
  <2>1. PICK p : p = IF n = 3 THEN 1 ELSE 0
    OBVIOUS
  <2>2. PICK c : c = NewClient(1)
    OBVIOUS
  <2>3. [c EXCEPT !.projects = p] = [id |-> 1, active |-> TRUE, projects |-> p]
    <3>1. c = [id |-> 1, active |-> TRUE, projects |-> 0]
      BY <2>2 DEF NewClient
    <3>2. IsClient(c) /\ c.id = 1 /\ c.active = TRUE
      BY <3>1 DEF IsClient
    <3>3. [c EXCEPT !.projects = p] = [id |-> c.id, active |-> c.active, projects |-> p]
      BY <3>2 DEF IsClient
    <3>4. QED
      BY <3>2, <3>3
  <2>4. CASE n = 0
    BY <1>1, <2>4 DEF NoClient
  <2>5. CASE n # 0
    <3>1. client = [c EXCEPT !.projects = p]
      BY <1>1, <2>1, <2>2, <2>5
    <3>2. QED
      BY <2>1, <2>3, <2>5, <3>1
  <2>6. QED
    BY <2>4, <2>5
<1>4. inquiry = IF n < 2 THEN [id |-> 0, client |-> 0, status |-> "new", reply |-> 0]
                ELSE [id |-> 1, client |-> 1, status |-> IF n = 3 THEN "resolved" ELSE "new", reply |-> 0]
  <2>1. NewInquiry(1, 1) = [id |-> 1, client |-> 1, status |-> "new", reply |-> 0]
    <3>1. PICK e : e = [NoInquiry EXCEPT !.id = 1]
      OBVIOUS
    <3>2. e = [id |-> 1, client |-> 0, status |-> "new", reply |-> 0]
      BY <3>1 DEF NoInquiry
    <3>3. [e EXCEPT !.client = 1] = [id |-> 1, client |-> 1, status |-> "new", reply |-> 0]
      BY <3>2
    <3>4. NewInquiry(1, 1) = [e EXCEPT !.client = 1]
      BY <3>1, Zenon DEF NewInquiry
    <3>5. QED
      BY <3>3, <3>4, Zenon
  <2>2. CASE n < 2
    BY <1>1, <2>2 DEF NoInquiry
  <2>3. CASE n = 2
    BY <1>1, <2>1, <2>3
  <2>4. CASE n = 3
    BY <1>1, <2>1, <2>4
  <2>5. QED
    BY <2>2, <2>3, <2>4
<1>5. /\ order = [id |-> IF n < 3 THEN 0 ELSE 1, client |-> IF n < 3 THEN 0 ELSE 1,
                  inquiry |-> IF n < 3 THEN 0 ELSE 1, open |-> IF n < 3 THEN FALSE ELSE TRUE,
                  total |-> IF n < 3 THEN {} ELSE TwoItems(1)]
  BY <1>1 DEF NoOrder
<1>6. 1 \in 1..Last
  BY LastIsNat
<1>7. RowsTyped
  <2>1. IsClient(client) /\ IsInquiry(inquiry)
    BY <1>3, <1>4 DEF IsClient, IsInquiry
  <2>2. IsOrder(order)
    BY <1>5 DEF IsOrder
  <2>3. /\ client.id \in {0, 1} /\ inquiry.id \in {0, 1} /\ order.client \in {0, 1}
        /\ order.inquiry \in {0, inquiry.id}
        /\ order.id = 0 => ~order.open /\ order.client = 0
        /\ inquiry.id = 0 => items = {}
    <3>1. CASE n < 2
      BY <1>1, <1>3, <1>4, <1>5, <3>1
    <3>2. CASE n = 2
      BY <1>1, <1>3, <1>4, <1>5, <3>2
    <3>3. CASE n = 3
      BY <1>1, <1>3, <1>4, <1>5, <3>3
    <3>4. QED
      BY <3>1, <3>2, <3>3
  <2>4. 1 \in 0..begun /\ 0 \in 0..begun /\ begun \in 1..Last
    BY <1>2, <1>6
  <2>5. client.id \in 0..begun /\ inquiry.id \in 0..begun /\ order.client \in 0..begun
    BY <2>3, <2>4
  <2>6. halved \in BOOLEAN /\ reopened \in BOOLEAN /\ recorded \in BOOLEAN /\ owed \in BOOLEAN
    BY <1>2
  <2>7. QED
    BY <2>1, <2>2, <2>3, <2>4, <2>5, <2>6 DEF RowsTyped
<1>8. \A w \in Workers : desk[w] = Seated
  BY <1>2
<1>9. Shaped(Seated) /\ IsDesk(Seated) /\ Seated.at = "idle" /\ Seated.k = 0 /\ Seated.of = "none" /\ Seated.seen.id = 0
  BY DEF Seated, Shaped, IsDesk, NoClient
<1>10. RecordsTyped
  <2>1. \A w \in Workers : Holding(w)
    BY <1>2, <1>8, <1>9 DEF Holding, InquiryStages, ErasingStages
  <2>2. QED
    BY <1>2, <1>7, <2>1 DEF RecordsTyped
<1>11. (\A w \in Workers : Knowing(w)) /\ OneInquiry
  BY <1>8, <1>9 DEF Knowing, OneInquiry, InquiryStages
<1>12. OneWriter
  BY <1>1, <1>6, <1>8, <1>9 DEF OneWriter, Whole
<1>13. ~(n = 3) => ~Converted
  BY <1>4, <1>5, <1>8, <1>9 DEF Converted
<1>14. InquiryKept
  BY <1>2, <1>4, <1>13 DEF InquiryKept
<1>15. NobodyTaken /\ Counted
  BY <1>3, <1>4, <1>5 DEF NobodyTaken, Counted
<1>16. OrderAgrees
  <2>1. CASE n < 3
    <3>1. order.id = 0
      BY <1>5, <2>1
    <3>2. QED
      BY <3>1 DEF OrderAgrees
  <2>2. CASE n = 3
    <3>1. order.open = TRUE /\ order.total = TwoItems(1) /\ orderItems = TwoItems(1)
      BY <1>1, <1>5, <2>2
    <3>2. QED
      BY <1>2, <1>6, <3>1 DEF OrderAgrees
  <2>3. QED
    BY <2>1, <2>2
<1>17. QED
  BY <1>10, <1>11, <1>12, <1>14, <1>15, <1>16 DEF RecordsInv

LEMMA RecordsStep ==
    ASSUME RecordsInv, [RecordsNext]_recordVars
    PROVE  RecordsInv'
<1>1. CASE UNCHANGED recordVars
  <2>1. /\ client' = client /\ inquiry' = inquiry /\ items' = items /\ order' = order /\ orderItems' = orderItems
        /\ desk' = desk /\ begun' = begun /\ halved' = halved /\ torn' = torn /\ stale' = stale
        /\ reopened' = reopened /\ lastReply' = lastReply /\ recorded' = recorded
        /\ slipped' = slipped /\ owed' = owed
    BY <1>1 DEF recordVars, rowVars, factVars
  <2>2. RecordsTyped' /\ \A w \in Workers : Knowing(w)'
    BY <2>1 DEF RecordsInv, RecordsTyped, RowsTyped, Holding, Knowing, Whole
  <2>3. OneInquiry' /\ OneWriter'
    BY <2>1 DEF RecordsInv, OneInquiry, OneWriter, Whole
  <2>4. OrderAgrees' /\ InquiryKept' /\ NobodyTaken' /\ Counted'
    BY <2>1 DEF RecordsInv, OrderAgrees, InquiryKept, Converted, NobodyTaken, Counted
  <2>5. QED
    BY <2>2, <2>3, <2>4 DEF RecordsInv
<1>2. ASSUME NEW w \in Workers, InquiryStep(w)
      PROVE  RecordsInv'
  BY <1>2, SubmitInquiryKeeps, PatchInquiryKeeps, SaveInquiryKeeps, ClearItemsKeeps, InsertItemKeeps,
     StopsHalfwayKeeps, DeleteInquiryKeeps DEF InquiryStep
<1>3. ASSUME NEW w \in Workers, OrderStep(w)
      PROVE  RecordsInv'
  BY <1>3, StartConvertKeeps, PriceOrderKeeps, CopyItemsKeeps, ConvertCommitsKeeps, PatchOrderKeeps,
     SaveOrderKeeps, DeleteOrderKeeps DEF OrderStep
<1>4. ASSUME NEW w \in Workers, ClientStep(w)
      PROVE  RecordsInv'
  BY <1>4, AddClientKeeps, PatchClientKeeps, SaveClientKeeps, DeleteClientKeeps, CheckRecordsKeeps,
     DeactivateKeeps, EraseClientKeeps DEF ClientStep
<1>5. QED
  BY <1>1, <1>2, <1>3, <1>4 DEF RecordsNext

\* RecordsInv is an inductive invariant of the client's records.
THEOREM RecordsInductive == RecordsSpec => []RecordsInv
<1>1. RecordsInit => RecordsInv
  BY RecordsBegin
<1>2. RecordsInv /\ [RecordsNext]_recordVars => RecordsInv'
  BY RecordsStep
<1>3. QED
  BY <1>1, <1>2, PTL DEF RecordsSpec

\* However requests edit, convert and delete at the same time, the order has the
\* items and total of one version, an inquiry with its order is resolved, and
\* the last reply is kept, but for the overwritten versions that the history
\* names.
THEOREM RecordsStayInAgreement == RecordsSpec => []RecordsAgree
<1>1. RecordsInv => RecordsAgree
  <2>1. ASSUME RecordsInv
        PROVE  InquiryRemembers
    <3>1. Ordered(inquiry.id) => Converted
      BY DEF Ordered, Converted
    <3>2. QED
      BY <2>1, <3>1 DEF RecordsInv, InquiryKept, InquiryRemembers
  <2>2. QED
    BY <2>1 DEF RecordsInv, RecordsAgree
<1>2. QED
  BY <1>1, RecordsInductive, PTL

\* A deletion takes a client from no record that its checks could have found,
\* and active_projects is the count, but for stale saves and while a
\* synchronisation is owed: an order was deleted, or an admin gave the count.
THEOREM ClientsStaySound == RecordsSpec => []ClientsAreSound
<1>1. RecordsInv => ClientsAreSound
  BY DEF RecordsInv, NobodyTaken, Counted, ClientsAreSound
<1>2. QED
  BY <1>1, RecordsInductive, PTL
=============================================================================
