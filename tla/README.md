# Verification of backend_devMasters

TLA+ models of the stateful parts of this Django backend, the TLC runs that check them on small
instances, and theorems about them checked by TLAPS. `PROJECT.json` lists the components, runs,
mutants, findings, hazards and theorems, and maps every definition to the source lines it stands for.

    tlc -workers 2 -config TaskQueue_safety.cfg MCTaskQueue     # a run: <config> <MC module>
    tlapm TaskQueueProofs.tla                                   # the proofs of a module

## 1. Inventory

The backend serves an agency's site: clients send inquiries, track orders, exchange messages and
files; staff work on them; administrators look after accounts and security. It is one Django
application behind gunicorn processes, with PostgreSQL, and one or more `run_task_worker`
processes. **Concurrency is between processes only, and only through the database** (and, for the
refresh token, through the cookies of a browser). `ATOMIC_REQUESTS` is not set: a request is a
sequence of autocommitted statements except where the code opens `transaction.atomic`. Nearly
every operation reads a row into an object, changes attributes and saves; a plain `save()` writes
every column as it was read, and inserts the row again if it is gone.

| Component (source) | State | Operations | Interacts with |
|---|---|---|---|
| Durable task queue (`apps/core/tasks.py`, `run_task_worker`) | `core_taskjob` rows, the worker's in-memory task | enqueue, claim (`SELECT ... FOR UPDATE`), run, complete, fail and retry | mail and alert senders enqueue; handlers call providers |
| Device and runtime sessions (`apps/users/use_cases`, `services/authentication.py`, `auth_views.py`) | `DeviceSession`, `UserSession`, simplejwt's outstanding and blacklisted tokens; a browser's cookie | login, refresh with rotation, logout, revoke, password change and reset | accounts; the browser |
| Audit log (`apps/audit`) | `AuditLog` rows, a hash chain | save, verify, purge by the retention command | written by the middleware after every request; accounts it names are deleted |
| Orders, inquiries, client profiles (`apps/orders`, `apps/inquiries`, `apps/clients`, `apps/services/convert_inquiry_to_order.py`) | `Order`, `Inquiry`, their items, `ClientProfile.active_projects` | submit, create, convert, edit, delete, synchronise metrics | a conversion opens a message thread |
| Staff tasks (`apps/workforce`) | `StaffTask`, its activity log | create, PATCH by admin or assignee, soft delete | may point to orders, inquiries, tickets |
| Support tickets (`apps/support`) | `SupportTicket` (status, deadlines, first response, escalation), `TicketReply` | create, PATCH, reply, each ending in `refresh_workflow_state` | staff tasks, client profiles |
| Accounts (`apps/users`, member views of `apps/workforce`, admin views of `apps/security`) | the user row, `FailedLoginAttempt` per e-mail and address, links sent | registration, login counters and locks, 2FA, e-mail and password changes, verification and reset links, suspension, roles, anonymisation, deletion | sessions, audit log, mail |
| Login guard and threat engine (`apps/security`) | `SuspiciousIP`, `BlockedIP`, `LoginAttempt` of an address | gates before a login, counting failures, risk, blocking, lifting, unblocking, purging | every login |
| Security alerts (`apps/security/utils.py`, events) | `KnownDevice`, `SecurityAlert`, security events | examine a login in the background, alert on repeated events, resolve, purge | domain events, task queue |
| Messages and notifications (`apps/messages_app`, `apps/notifications`) | `MessageThread`, `Message`, `Notification` | post, reply, open, mark read, move, delete; notify in a signal handler | accounts, clients, orders |
| Files (`apps/files`) | `ProjectFile` rows and stored objects | upload, describe, review, delete | object storage |
| Domain events (`apps/core/events.py`) | handler registry | publish on commit | messages, alerts |
| Pricing, catalogues, observability, sanitising, analytics, configuration | rows read and written one at a time, or none | create, read, update, delete | - |

What is hard in them, and what makes each correct:

* **Task queue.** Two workers on one row; a full-object save long after the read; a worker or a save
  that fails between claim and outcome; a back-off that a stale `now` could jump. Correct: a job is
  held by one worker, its saved copy is never stale, an effect is not repeated, a job is given up
  exactly when its attempts are spent, and every job settles.
* **Sessions.** Refresh, logout and password change split at their statements and interleaved; two
  refreshes of one token; a request that dies after blacklisting; replies that arrive out of order
  or never. Correct: what was revoked stays revoked, a password change ends older sessions, no
  session rests on a spent token, a browser holds the token of its own session.
* **Audit log.** The latest row is looked up and linked to without a lock; the clock is read twice;
  rows are purged and updated. Correct: the chain verifies unless something was tampered with.
* **Orders and records.** References drawn by reading the latest; a counter recomputed without a
  lock; unique constraints, row locks and deadlocks; stale PATCHes; items written one by one beside a
  conversion that reads them twice. Correct: `active_projects`, once
  synchronised, is the number of active orders, until an admin types another, an
  inquiry has one order, which has the inquiry's items and their sum, every request ends.
* **Staff tasks, support tickets.** Read, work on a copy, save, then log or look again. Correct:
  status and completion agree, the log tells every change of the status, a deletion lasts; the first answer is known and
  is the first, a missed deadline was missed and is recorded, a client's reply is not buried.
* **Accounts.** Some twenty operations of several actors on one row, some of which save all of it;
  counters read, incremented and saved. Correct: what an administrator wrote is not taken back by a request that
  started before; counters are the failures; what must be confirmed can be.
* **Threat engine, alerts.** Scores and blocks changed without locks, from several rules at once; a
  task that is retried from its start. Correct: a block lasts as long as announced, an attack ends in
  one, the user hears of every new device, once.
* **Messages, files.** A list fetched, then marked; a signal handler that notifies one after the
  other; a row and an object that are written apart. Correct: everyone concerned is told, what counts as
  read was shown, what was deleted stays deleted, row and object agree.

## 2. Modules, and how they correspond to the code

`MC<...>.tla` instantiates modules for TLC, `<Component>Proofs.tla` holds a component's theorems; `SecurityProofs` those of Account, ThreatEngine and
SecurityAlerts, `WorkspaceProofs` those of Messages, ProjectFiles and ClientRecords, `DeviceSessionsProofs` also those of Browser.

* **`JobLifecycle`**: what the queue promises: per job `unknown -> waiting -> working ->` `done`,
  `given_up` or back to `waiting`, at most `MaxAttempts` times.
* **`TaskQueue`**: `row` is the table; per worker `pc`, the `now` it read, the row it selected or
  holds (`pick`), the rest of its snapshot and its in-memory object (`copy`). A cycle is split at the
  clock reading (`Poll`), the snapshot of the `SELECT` (`Select`), the grant of the row lock with
  PostgreSQL's re-evaluation of the `WHERE` clause (`Claim`, `ClaimLost`), the handler, and the
  save (`CompleteTask`, `FailTask`). `SaveRaises`, `Crash` and `Restart` are the faults. `Lifecycle`
  is the refinement mapping. History: `successes`, `raises`.
* **`DeviceSessions`**: one account. `sess` and `runtime` are the two tables, `minted`, `black`,
  `expired`, `delivered` the tokens; `req` holds each request in progress and the statement it has
  come to. History: `parent`, `opened`, `ended`.
* **`Browser`** extends it by one browser: `jar` is its refresh cookie, `reply` the answers under
  way, `sent` the requests of its tabs. `Serve` runs a step of DeviceSessions and puts the answer under way
  when it is the last; `Receive` applies an answer in any order, `LoseReply` and `Dies` never do.
  History: `crossed`, `lost`, `left`.
* **`AuditChain`**: `writer` holds the objects being saved, split at both clock readings, the look-up
  of the latest row and the INSERT; `logs` and `entry` are the table. A hash stands for its row and is
  represented by its id; what was hashed (`signed`) is kept beside what was stored. `LinksVerify` and
  `SignaturesVerify` are the two checks of `verify_audit_integrity`. History: `seen`.
* **`OrderIntake`**: create, convert and PATCH run in `transaction.atomic`: a request carries its
  uncommitted row until `Commit`, `lock` is the lock on a client's row, `Ahead` the uncommitted
  rows a statement waits for, `Duplicate` the unique constraints, `Cycles` PostgreSQL's deadlock
  detector. `Key` and `SortsBefore` are the string order of references. History: `owed`, `loose`, `overlapped`.
* **`ClientRecords`**: one client, its inquiry with items, the order that becomes of it; `desk` holds each worker's
  object and place. Editing an inquiry is three kinds of statement (`SaveInquiry`, `ClearItems`, `InsertItem`), a
  conversion one transaction that reads the items for the total (`PriceOrder`) and again to copy them (`CopyItems`), deleting a
  client a check and then one of two outcomes (`Deactivate`, `EraseClient`). A total is represented by what it sums. `AddClient` and `PatchClient` write `active_projects` as the payload
  gives it (`Counts`), the serializer's field being writable. History: `factVars`.
* **`StaffTask`**: one row; a creation is inserted and logged (`Create`, `LogCreation`), a PATCH read, saved, logged. `Saved` is
  `StaffTask.save`, `Found` is `get_object`, `told` the newest status in the log, "nothing" until a PATCH changes the status: what
  creation logs names none. History: `given` (the status at creation, until one is logged), `lowers`, `overlapped`, `blurred`.
* **`SupportTicket`**: one ticket; `row` is it, `req` each request's position and copy, `first` the time of the earliest
  reply of staff (what the query in the refresh returns). `ReadForPatch`, `SavePatch` are a PATCH; `ReadForReply`, `Stamp`
  (`created_at` is set in Python), `Insert` and `TakeUp`, `Reopen` or `LeaveStatus` a reply; `ReadClock`, `QueryReplies` or
  `NothingChanged`, `WriteChanges` the refresh that ends them. The two deadlines are represented by the priority they were computed
  from. History: `stored`, `unheard`, `seen`, `blurred`, `overlapped`.
* **`Account`**: one user row under every operation that writes it. A worker holds `copy`, the object it read, the columns its saves
  will write (`saves`; a plain `save()` writes all) and which of them others changed meanwhile (`dirty`). A value is the number of the request that
  wrote it. `Login` is followed through the failure record of e-mail and address, the password check, the account's counter, and 2FA. History: `said`
  (what the last operation wrote to each column), `stale`, `fails`, `raced`, `told`, `confirmed`, `resetup`, `twinned`, `uncounted`.
* **`ThreatEngine`**: one address; `suspicious`, `block`, `attempts` are its rows (`attempts` a set, since only how many there are in a window counts), `visit` each request between its reads and writes: the gates
  (`LoginGate`, `CheckRate`), a wrong password (`CountAttempts`, `RecordFailed`, `BlockIp` ...), a right one (`SaveSuccess`, `RemoveBlock`,
  `CheckAttack`). Of the decay of the score, 0.9 to the power of the minutes, `Fades` says which tenths may be left.
  History: `promised`, `lifted`, `overlapped`, `failures`, `escalations`, `overwritten`.
* **`SecurityAlerts`**: a login opens its session, publishes its event and is examined by a task: sessions counted (`CountSessions`), device and address looked
  up, stored, then told (`FindDevice`, `SaveAddress`, `Tell`); `Fail` retries it from the start or loses it. Reset requests are logged, counted, alerted on. History: `purged`, `cut`.
* **`Messages`**: one thread, its messages and their notifications; `call` is what each server is doing. Posting is `CreateThread` or `Reply`,
  `InsertMessage`, one `Notify` per recipient (the signal handler), `TouchThread`; reading is `OpenThread` and `MarkOpened`; `PatchThread` and `SaveThread`,
  `ReadNote` and `SaveNote` are read and full save. A message bears the number of its request. History: `owner`, `notified`, `failed`, `moved`, `shown`, `missed`, `gone`, `returned`.
* **`ProjectFiles`**: rows and stored objects; `task` is what each worker is doing. `Store`, `InsertFile` are the two halves of an upload, `DeleteObject`, `DeleteFile` of a deletion; texts and
  reviews are versions. History: `reviewOf`, `lastReview`, `overwritten`, `refused`, `cutShort`, `reborn`.

**Composition.** TaskQueue implements JobLifecycle; Browser is composed with DeviceSessions, whose actions it calls. The other modules change no common
rows, so the runs of `MCSecurity` and `MCWorkspace` only put them side by side: a variable `part` says which of them a behaviour is about.
`MCDeviceSessions` has behaviours of any number of clients, and of one browser (`client`).

## 3. Runs

| Run | What it asks | Bounds, and why they are enough |
|---|---|---|
| `tasks_safety` | exclusive claims with current copies, no repeated success, back-off, settling without faults, refinement | 2 workers, 2 jobs, 2 attempts, one fault, clock to 3: contention for a row, a second candidate for the loser, a retry after its back-off (2 ticks), a crash or failed save anywhere |
| `tasks_crash` (finding) | does every job settle? | one worker, one crash suffices |
| `sessions_safety` | revocation, password change, logout, dead tokens, orphans; the cookie of a browser | 2 requests, 3 tokens, 2 sessions, one password change, one dying request: a login and two refreshes, twin refreshes, any pair of operations; a browser with two tabs, up to the first reply it loses |
| `audit_two` | forks are overlaps; serial saves chain | 2 writers, 3 rows, 1 account, retention 0 so that purges happen from the first tick |
| `audit_race`, `audit_signature` (findings) | the documented promises of the chain | 1 or 2 writers, no purge |
| `intake_creates` | counter, refusals and deadlocks, termination while orders are created | 2 requests, 3 orders, 2 days; `Limit = 2` makes the second order of a day the first number that is too wide |
| `intake_all` | one order per inquiry; a synchronisation nobody overtook settles the count | 2 requests, 2 orders, 1 inquiry, every operation, edits of status and inquiry |
| `staff_task` | log, deletion, reopening | 2 requests, an admin and an assignee, any status and progress at creation, three of five statuses (the two left out are treated like `todo`), one death |
| `support_ticket` | the first answer, missed deadlines, reopened tickets | 2 requests, three of four statuses (`closed` is treated like `resolved`), two priorities, a clock of one tick that ends both periods of an urgent ticket and only the first response's of a normal one; one death |
| `accounts_guard` | accounts: last word, counters, confirmations. Engine: blocks, attacks, counters. Alerts: new devices, repeated requests | 2 workers, 3 requests, so that a third may come while two overlap. Accounts: any two kinds of operation of `Pairs`, that is every kind of full save against every operation, and those that touch the same columns; 2 failures lock. Engine: 2 failures block, a score that is kept or gone (`Fades`), a clock of 3 that outlasts each block. Alerts: two logins from one device and two addresses, or three reset requests, retries |
| `workspace` | messages: who is told, what counts as read, deletions. Files: row, object, review. Records: inquiry, order, client | 2 workers, 3 requests. Messages: posting beside each other request (`Mixes`), two superusers, one of two clients registered. Files and records: any requests; of files four, so that two may follow two that overlapped; an admin gives a client the count 0 or 2, right or wrong without an order, always wrong with one |

Every property has a mutant: a plausible bug in a mapped definition under which TLC finds it violated. Some properties join parts that belong together:
`HeldExclusively` (one holder, whose copy is current), `FailuresHaveCause` (refusals, deadlocks), `FirstAnswerTold` (known, and the first), `ConfirmationsHold`
(the link follows the address, 2FA only with a confirmed secret), `CookiesAgree`, `FilesAreSound`, `RecordsAgree`. The parts have names of their own
in the modules and, where proved, theorems of their own.

The history variables say in the properties which overlaps excuse what. They are never tested by an action. Each names a schedule that really spoils the
state (a full save after another's change, a counter written over a count it had not read); that the exceptions are narrow is what the mutants show. Four of them were found by proving, since the instances
that TLC enumerates are too small for their schedules:

* `Account`, `LinkFollowsAddress`: an account that is deleted, and put back by a full save that had read it, may be unverified with nobody to tell; hence `"id" \notin stale`.
* `Account`, `EnabledSecretConfirmed`: an anonymisation between the code and the save that enables 2FA leaves it on without a secret; hence `"erased" \notin stale`.
* `ClientRecords`, `halved`: an inquiry deleted by one request between two items that another writes, and inserted again by a PATCH in flight, has lost the items written before.
* `ClientRecords`, `stale`: a conversion compares the count with the `active_projects` of the client it read when it began (`apps/clients/services.py`), and saves only if they
  differ: if the column was changed in between, the count it has may not be written.

Not an overlap but a plain request is excused by one: `owed`, in ClientRecords. `active_projects` is an ordinary field of
`ClientProfileSerializer`, so an admin's POST or PATCH sets it to any number; an order's deletion synchronises nothing. From either until the next
synchronisation `ClientsAreSound` leaves the count open.

Bounds are `MaxClock`, `MaxNow`, `MaxTime`, `MaxDay`, `Horizon` (clocks), `MaxFaults`, `MaxAborts`, `MaxDeaths` (faults), `MaxChanges`, `MaxRows`, `MaxRequests`, `MaxVisits`,
`MaxCalls`, `MaxOps` (operations), `MaxTries` (attempts), `Mixes`, `Mix`, `Operations`, `Fades`, and the sets of identities. `CHECK_DEADLOCK FALSE` everywhere: with its
rows, tokens, requests or ticks used up an instance stops, and the programs may be idle. Symmetry is used in
runs without liveness.

**Fairness.** *TaskQueue*: weak fairness of each worker's loop (`while True` with a sleep), of restarts
(the compose restart policy) and of time; handlers return, by return or exception. Nothing is assumed of faults or
producers. `JobsSettle` excuses a job whose retry lies beyond the bounded clock. *OrderIntake*: strong
fairness of each request's next step, since PostgreSQL queues lock waiters, so that one that waits is not
overtaken for ever; aborting and starting requests are not fair. The other specifications state safety only: their requests are
finite sequences of statements that never wait, so that they end is plain.

### Findings

* `tasks_crash`: a worker killed between claim and outcome leaves its row `running`; nothing claims it again.
* `audit_signature`: the timestamp and the type of the response time that are hashed are not those stored; every row fails its check.
* `audit_race`: two overlapping saves name the same predecessor; the chain no longer verifies.

Behaviour the models show that no document contradicts; most of it is an exception some property names:

* Queue, audit, sessions: a purge of the oldest rows leaves a first row whose link cannot be verified; deleting an account rewrites its audit rows in a hashed
  field; two refreshes of one token leave a client without a session; `revoke_device_sessions` leaves `revoked_at` empty.
* Orders and records: after a number wider than three digits all further orders of the day are refused; an inquiry edited while it is converted may give an order with
  a total and items of different versions; a PATCH that stops between two items leaves half of them; a client can lose records that are written between the check and the deletion;
  an admin may type any `active_projects`, which stays until the client's next order is written.
* Tasks, tickets: a task created as `in_progress` or `done`, or with progress 100, has no status in its activity log; a PATCH in flight brings a deleted task or order back; of two members of staff who answer at once the later may be recorded as the first; deadlines are
  looked at only when somebody edits or answers the ticket.
* Accounts: a change of one's password, an edit by an administrator, an anonymisation or a promotion that overlaps another operation takes it back, a suspension or a deletion included; two failures at
  once count as one; first failures that overlap make two records, after which logins from there raise.
* Threat engine: a request that passed the gate before a block was put may shorten that block.
* Alerts: a run that dies after storing a device, before telling of it, leaves the retry silent.
* Messages, files: a message that arrives while a thread is opened is marked read without having been shown; a failing notification fails a request whose message stays; a PATCH in flight
  brings a deleted thread, file or notification back; an upload the database refuses leaves its object; a deletion that dies half-way leaves a row without one.

## 4. Proofs

The theorems hold for all values of the constants that satisfy the modules' ASSUMEs, so for any number of workers, jobs, requests, rows, and any bounds. Assumed are:
blank values are no members; bounds and thresholds are natural numbers; `MaxAttempts > 0`; the named statuses exist; a first response is due no later than the resolution, as in the two
SLA tables; sets of orders, servers and reset requests are finite; the window of failures, the short block, the long one and the
longest are in this order, as 10, 10 and 30 minutes and 24 hours are in `apps/security` (`ThreatAssumption`). `CountsAreCurrent` has a hypothesis of its own, that no orders are edited or deleted, as in `intake_creates`. Each part proves an inductive
invariant (initial states satisfy it, every action preserves it), then derives the properties. **Every safety invariant and every action property the passing runs check is
proved**, and so is the refinement of JobLifecycle. The invariants are called `IInv`; where a module has several, `ChainInv`, `OrphanInv`, `BrowserInv`,
`CreationInv`, `AccountInv`, `EngineInv`, `AlertsInv`, `MessagesInv`, `FilesInv`, `RecordsInv`.

* **`TaskQueueProofs`**: `IInv` adds to `AtMostOneHolder` a ledger (what a row's status says of its past
  runs) and a grip (a worker that holds a row has its current content, and its position tells
  how many runs raised). Exclusion alone is not inductive: that a second worker cannot claim follows from the held row being
  `running`, which the grip says. Derived: type correctness, exclusion, no lost update, no repeated success,
  giving up last, no orphan without faults, finality, back-off (with `now <= clock`), and the refinement of JobLifecycle, step by step.
* **`AuditChainProofs`**: rows come after the row they link to, and a half-saved object was looked up after every row
  that shares its predecessor or has `seen` at most that row's id. Derived: type correctness and `ForkOnlyByOverlap`.
  For `SerialSavesChain`, `ChainInv` adds that a row inserted beneath nothing has the latest stamp of all (`InOrder`), so that it is the one the next look-up finds, and that while all saves were
  serial the rows are without gaps, each linked to the one before (`Chained`): a purge takes the oldest rows, so it leaves no gap either.
* **`DeviceSessionsProofs`**: a token not yet handed out belongs to one request and at most to the session that request has
  opened; session tokens are unique; blacklisted and logged-out tokens were handed out; a request
  that found a session is the only one its token can lead to. Without these a refresh might store a token already logged out.
  Derived: type correctness, `OldSessionsEnd`, `NoDeadCurrentToken`, `LogoutEndsSession`, `RevokedStaysRevoked`.
  *Orphans*: a refresh that found its session stores a descendant of the token it presented, over that token or over one that has a twin as well (`Storing`). `Lineage` is defined as the least set closed under
  parents, so that no induction is needed. *Browser*: the token of a reply under way is nobody's yet (`Unseen`); a spent cookie will be written over, unless a reply was lost (`InJar`); a browser
  that sends one request at a time has it work on its cookie (`Alone`), and each session's token is in the cookie or on its way (`NoneLeft`). Every step of the browser is one of DeviceSessions or leaves it alone.
  Derived: `OrphansAreTwins`, `CookiesAgree`.
* **`OrderIntakeProofs`**: the unique constraints hold among written but uncommitted rows too (`Distinct`), since a statement waits for those; a client's row is locked by the request
  that inserted it, or by one that changes contact data, and who is past the look-up has a profile (`Locked`); what a request nobody overtook has read - the client's count, that its number and its
  inquiry are free, its own count of orders - still holds (`Current`). That the next number is free needs the latest one to exist: a finite set has a last element, by well-founded induction.
  Without contact changes a circle is impossible, since who waits for a client waits for one that is further on, and who waits for a written row waits for one that does not wait.
  Where orders are only created, those at work on the first day hold the next reference or one that is taken (`Drawn`), so that only one of them is written and commits, which counts all orders
  though it may know of fewer (`Counts`). Derived: type correctness, `OneOrderPerInquiry`, `MetricsSettle`, `FailuresHaveCause`, `MetricsCurrent`.
* **`StaffTaskProofs`**: a request nobody overtook starts from the stored row (and then no save waits to be logged) and
  ends in it; every copy to be saved agrees in itself; what log and creation tell (`Tells`) is the status before the change that is still to be logged. Derived: `DoneAgrees` and all properties of `staff_task`.
* **`SupportTicketProofs`**: a request nothing overlapped holds the row; no copy knows of an answer before the first; what is about to be recorded
  of a deadline was true of the clock and the replies when they were read; and as long as the row lacks an answer that was stored, some request at work will still write it,
  since every request that could overwrite it ends in a refresh. Derived: all properties of `support_ticket`.
* **`SecurityProofs`**, *Account*: an object a request holds is the row, but for the columns it has lost sight of and those it is about to write (`CopiesInSight`), and what it will write follows from its
  operation (`RequestsArePlanned`): so a save takes back no column but those it is `dirty` in, and a counter that nothing overlapped is the failures. That a confirmed secret or a sent link belongs to this account needs
  identities to be new (`NewIdentities`). Derived: `LastWordHolds`, `CounterExact`, `ConfirmationsHold`, `TwinsOnlyByOverlap`.
  *Threat engine*: the counters in a visit's hands are those of the row unless others wrote (`CountersInHand`); a visit that saw every change of the block knows when the last one announced ends (`BlockInSight`); once nobody is
  counting, enough recent failures have led to a block that outlasts each of them (`AttemptsKnown`). Derived: `BlockHolds`, `CountersExact`, `AttackIsBlocked`.
  *Alerts*: a stored device or address was told, is being told, or belongs to a run that was cut (`PlacesTold`); one run at a time announces a device (`DeviceOnce`); once all have counted, many requests were told or are
  about to be (`EventsKnown`). Derived: `NewDevicesAreTold`, `RepeatedRequestsAreTold`.
* **`WorkspaceProofs`**, *Messages*: a message that is being posted is for those already notified and those its request still holds (`Halfway`), and after that for those notified (`Told`). For this, requests have
  numbers of their own (`Numbered`), leave nothing behind before they insert (`Unposted`), and notify nobody twice (`Once`); this last also makes a notification's key its identity, which the
  deletions need. Derived: type correctness and the three properties of messages.
  *Files*: rows and objects bear the number of the request that made them (`FilesNumbered`), so that a row that is being made is nobody else's (`Uploads`); whether its
  object is stored follows from the place of the request that makes or deletes it (`Stored`); a copy to be saved has the review it was read with or a new one (`Attributed`),
  which is the last unless the row was saved since (`Current`). Derived: type correctness and `FilesAreSound`.
  *Records*: each request's object is the row it read, but for what it will change (a count that an admin gives included), unless the row was written since (`Knowing`); who works on an inquiry works on the same one, and nobody knows a new one
  yet (`OneInquiry`); the items are those of one version, or those one request has written so far (`OneWriter`). That an inquiry stays resolved needs its order to stay known while a PATCH could bring it back
  after a deletion (`Converted`, `InquiryKept`). Derived: `RecordsAgree`, `ClientsAreSound`.

Some properties are proved and not run, since a theorem says more than a run and others of the runs imply them on the instances: `RunningRowsAreHeld`, `SettledIsFinal`,
`GivenUpOnlyWhenExhausted`, `DoneAgrees`, the type invariants, the inductive invariants.

**Only model-checked**: liveness under fairness (`JobsSettle...`, `RequestsEnd`), which is out of the prover's reach. The three findings are counterexamples.

## 5. Assumptions

* PostgreSQL at READ COMMITTED: a statement sees committed rows, a locked row is re-read after the wait, unique indexes make
  a second writer wait for the first, one request of a deadlock is rolled back. One clock, which does not go back.
* A hash is injective. A single INSERT or UPDATE is atomic. A dying request leaves what it committed.
* DeviceSessions: the account stays enabled; the expiry of a session is its token's. `get_or_create` of the blacklist does not fail. A password change on
  another device acts on a browser as `RevokeSession` does.
* StaffTask: the staff flag of an assignee does not change.
* OrderIntake: the count is written by synchronisations only; an admin's POST or PATCH of `active_projects` is in ClientRecords.
* ClientRecords: one inquiry and one order at a time; an order has two items or none; the transaction of an order's PATCH is one step, since only conversions
  and deletions meet its rows; tickets, which a deleted client may also lose, are left out.
* Account: what the gates of an address refuse is ThreatEngine's, and the other way round: each leaves the other open.

## 6. Not modelled, and why

* **Code nothing runs.** `SmartSecurityMiddleware` and `SecurityMiddleware` are not installed; `update_request`, `enforce`, `handle_failed_login`,
  `DeviceDetectionService` and `SecurityAlertService` are called by nothing.
* **Sessions**: account deletion and suspension (the same bulk updates as a password change), a device's trust period, access tokens, CSRF, throttles.
* **Accounts**: a second account, with which only unique addresses are shared; the alternative token endpoint. The Django admin, of any model.
* **Orders**: moving an order to another client is in OrderIntake (`"client"` in `Operations`) but in no instance; to another inquiry, with its items, it is not modelled; statistics, attachments.
* **Tasks**: notes, team, links, due dates have no control flow of their own. **Tickets**: DELETE; a PATCH that gives deadlines, the first response or an escalation as
  values, or clears one deadline only; category, assignee, client; `sla_status`, computed for display.
* **Domain events**: `publish_on_commit` and the handlers are part of the actions that call them; a handler that raises before others appears where it matters, in the examination of a login.
* **Pricing and catalogues** are create, read, update and delete of single rows; **observability, headers, sanitising, permissions, checks** are functions of one request;
  **analytics** only reads; **configuration** gives values, which are constants here. The synchronous task mode is a plain call.

## 7. Plan

Done, in this order: TaskQueue with JobLifecycle; AuditChain; DeviceSessions; OrderIntake; StaffTask; SupportTicket; Account; ThreatEngine; SecurityAlerts; Browser;
Messages; ProjectFiles; ClientRecords; proofs for all of them. What is left, most valuable first:

1. **DeviceSessions**: an abstract session (open, then closed for ever) that it implements; suspension and deletion of the account.
2. **Records with two orders**, and moves between clients, in a composition of OrderIntake and ClientRecords.
3. **`MetricsCurrent` beside deletions**: which overlaps spoil the count could be named by a history variable, as `loose` does for edits.
4. **Tickets**: DELETE and explicit deadlines.
