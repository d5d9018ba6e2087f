------------------------------- MODULE Account -------------------------------
(***************************************************************************)
(* One user's row under every operation that writes it (apps/users,        *)
(* apps/workforce, apps/security), and the failed-login records of the     *)
(* user's e-mail at one address.                                           *)
(*                                                                         *)
(* Nothing locks the row: an operation reads it into an object, changes    *)
(* some attributes and saves.  A save with update_fields writes the named  *)
(* columns; a plain save() writes EVERY column as it was read, and inserts *)
(* the row again if it was deleted meanwhile.  Each request is the steps   *)
(* between which others run.  A request that raises simply ends.           *)
(*                                                                         *)
(* Values are versions: the number of the request that wrote them.  What   *)
(* the addresses' gates refuse (apps/security/threat_engine.py) is module  *)
(* ThreatEngine's; sessions are DeviceSessions'.                           *)
(***************************************************************************)
EXTENDS Naturals, Sequences, FiniteSets

CONSTANTS
    Reqs,         \* workers serving requests
    Operations,   \* the operations in use
    Mixes,        \* bound: the sets of operations one behaviour mixes
    MaxRequests,  \* bound: requests begun in a behaviour
    MaxAttempts,  \* failures before a lock (MAX_ATTEMPTS, MAX_LOGIN_ATTEMPTS)
    LockTime,     \* how long a lock lasts
    Horizon       \* bound: the last value of the clock

ASSUME AccountAssumption ==
    /\ Mixes \subseteq SUBSET Operations
    /\ {MaxRequests, MaxAttempts, LockTime, Horizon} \subseteq Nat

VARIABLES
    row,        \* the users_user row; id = 0: there is none
    recs,       \* FailedLoginAttempt rows of (e-mail, address)
    links,      \* addresses a verification link was sent to
    resetLinks, \* password-reset links sent, as is_active was then
    now,        \* the clock
    req,        \* what each worker is doing
    begun,      \* requests begun so far
    mix,        \* the operations of this behaviour
    \* history, read by no action
    said,       \* per column, the value of the last operation about it
    stale,      \* columns a full save put back to an older value
    fails,      \* failed logins counted since the last reset
    raced,      \* a counter was written over a count it had not read
    told,       \* addresses of which the answer said no link was sent, or
                \* which an administrator set: nobody waits for a link
    confirmed,  \* 2FA secrets of which a code was verified
    resetup,    \* a secret was set up after, or while, 2FA was enabled
    twinned,    \* a failure record was created beside one it had not seen
    uncounted   \* a failed login raised before it reached the account

vars == <<row, recs, links, resetLinks, now, req, begun, mix, said, stale, fails,
          raced, told, confirmed, resetup, twinned, uncounted>>
history == <<told, confirmed, resetup, twinned, uncounted>>

Columns == {"id", "pw", "mail", "name", "verified", "active", "staff", "super",
            "twofa", "secret", "failed", "until", "erased"}
Lock == {"failed", "until"}
Versions == 0..MaxRequests

\* The columns of the user row that operations write.
User ==
    [id : Versions, pw : Versions, mail : Versions, name : Versions,
     verified : BOOLEAN, active : BOOLEAN, staff : BOOLEAN, super : BOOLEAN,
     twofa : BOOLEAN, secret : Versions, failed : 0..MaxRequests,
     until : 0..(Horizon + LockTime), erased : BOOLEAN]

\* A failure record of the e-mail at the address.
FailedLoginAttempt ==
    [id : 1..MaxRequests, n : 0..MaxRequests, until : 0..(Horizon + LockTime)]
NoRecord == [id |-> 0, n |-> 0, until |-> 0]

\* requires_email_verification.
NeedsVerification(u) == u.super \/ u.staff

\* can_login.
CanLogin(u) == u.active /\ (NeedsVerification(u) => u.verified)

\* is_locked of a record, and the account's own lock.
IsLocked(record) == record.until > now

-----------------------------------------------------------------------------
(* What an operation does to the object it read: the attributes it sets    *)
(* (new), the columns it is about (own) and its saves, in order.           *)

Plan(new, own, saves) == [new |-> new, own |-> own, saves |-> saves]

(* Mutant of Unlocked: the counter is not reset. *)
Mut_Unlocked_UntilOnly(u) == [u EXCEPT !.until = 0]

\* reset_user_lock_state, the first save of two operations below.
Unlocked(u) == [u EXCEPT !.failed = 0, !.until = 0]

ChangePassword(u, v) ==
    Plan([Unlocked(u) EXCEPT !.pw = v], {"pw"} \cup Lock, <<Lock, Columns>>)

ResetPassword(u, v) ==
    Plan([Unlocked(u) EXCEPT !.pw = v], {"pw"} \cup Lock, <<Lock, Columns>>)

ChangeEmail(u, v) ==
    Plan([u EXCEPT !.mail = v, !.verified = ~NeedsVerification(u)],
         {"mail", "verified"}, <<{"mail", "verified"}>>)

VerifyEmail(u) == Plan([u EXCEPT !.verified = TRUE], {"verified"}, <<{"verified"}>>)

SetupTwoFactor(u, v) == Plan([u EXCEPT !.secret = v], {"secret"}, <<{"secret"}>>)

VerifyTwoFactorSetup(u) == Plan([u EXCEPT !.twofa = TRUE], {"twofa"}, <<{"twofa"}>>)

RestoreUser(u) == Plan([u EXCEPT !.active = TRUE], {"active"}, <<{"active"}>>)

(* Mutant of SuspendUser: the save names no columns. *)
Mut_SuspendUser_FullSave(u) == Plan([u EXCEPT !.active = FALSE], {"active"}, <<Columns>>)

SuspendUser(u) == Plan([u EXCEPT !.active = FALSE], {"active"}, <<{"active"}>>)

ToggleStaffStatus(u) == Plan([u EXCEPT !.staff = ~u.staff], {"staff"}, <<{"staff"}>>)

UnlockUserAccount(u) == Plan(Unlocked(u), Lock, <<Lock>>)

AnonymizeUser(u, v) ==
    Plan([u EXCEPT !.mail = v, !.name = v, !.verified = FALSE, !.twofa = FALSE,
                   !.secret = 0, !.active = FALSE, !.erased = TRUE, !.pw = v],
         {"mail", "name", "verified", "twofa", "secret", "active", "erased", "pw"},
         <<Columns>>)

EnsureSuperuser(u) ==
    Plan([u EXCEPT !.super = TRUE, !.staff = TRUE, !.verified = TRUE],
         {"super", "staff", "verified"}, <<Columns>>)

\* A PATCH sets one column its serializer lets it write, then save()s.
Patch(u, c, v) ==
    Plan([u EXCEPT ![c] = IF c \in {"staff", "active"} THEN ~u[c] ELSE v], {c}, <<Columns>>)

\* The columns each serializer lets a PATCH write.
MeFields == {"name"}
ProfileFields == {"name"}
UserFields == {"mail", "name", "staff", "active"}
TeamFields == {"name", "staff", "active"}

-----------------------------------------------------------------------------
(* Requests. *)

Idle == [op |-> "none", at |-> "idle", k |-> 0, copy |-> row, dirty |-> {},
         own |-> {}, saves |-> <<>>, record |-> NoRecord]

NewRow(k) ==
    [id |-> k, pw |-> k, mail |-> k, name |-> k, verified |-> FALSE, active |-> TRUE,
     staff |-> FALSE, super |-> FALSE, twofa |-> FALSE, secret |-> 0, failed |-> 0,
     until |-> 0, erased |-> FALSE]

NoRow == [NewRow(0) EXCEPT !.active = FALSE]

\* The request ends, whatever it answers.
Ended == [Idle EXCEPT !.copy = NoRow]

\* r starts operation op with the object it read and what it will save.
Started(op, plan) ==
    [op |-> op, at |-> "save", k |-> begun + 1, copy |-> plan.new, dirty |-> {},
     own |-> plan.own, saves |-> plan.saves, record |-> NoRecord]

Begin(r, op) ==
    /\ req[r].at = "idle" /\ begun < MaxRequests /\ op \in mix
    /\ begun' = begun + 1

\* JWTAuthentication: a request is its user's only while the user is active.
Authenticated(u) == u.id # 0 /\ u.active

\* r becomes next; the others have lost sight of the columns that changed.
Advance(r, next, changed) ==
    req' = [q \in Reqs |->
              IF q = r THEN next
              ELSE IF req[q].at = "idle" THEN req[q]
              ELSE [req[q] EXCEPT !.dirty = @ \cup changed]]

Differ(u, w) == {c \in Columns : u[c] # w[c]}

\* The operations whose last save() names no columns.
FullSaves == {"changePassword", "resetPassword", "editMe", "editProfile", "editUser",
              "editMember", "anonymize", "ensureSuperuser", "createSuperuser"}

\* Model.save of r's object into columns cols.  If its row is gone, a full
\* save inserts it again, a save with update_fields raises DatabaseError, and
\* so does an INSERT beside a newer account of the e-mail.
CanSave(r, cols) ==
    \/ row.id = req[r].copy.id
    \/ row.id = 0 /\ cols = Columns

WriteRow(r, cols, next) ==
    LET copy == req[r].copy
        own  == req[r].own \cap cols
        lost == IF req[r].op \in FullSaves THEN (req[r].dirty \cap Columns) \ own ELSE {}
        new  == [c \in Columns |-> IF c \in cols THEN copy[c] ELSE row[c]]
    IN  /\ row' = new
        /\ said' = [c \in Columns |-> IF c \in own THEN copy[c] ELSE said[c]]
        /\ stale' = (stale \ own) \cup lost
        /\ Advance(r, [next EXCEPT !.dirty = @ \ cols], Differ(row, new))

\* Writing zero resets the count; writing any other number over a count not
\* read loses it.
Recount(r, cols) ==
    IF "failed" \notin cols THEN UNCHANGED <<fails, raced>>
    ELSE IF "failed" \in req[r].own THEN fails' = 0 /\ raced' = FALSE
    ELSE raced' = (raced \/ "failed" \in req[r].dirty) /\ UNCHANGED fails

\* After the last save: change_email goes on to send a link.
AfterSaves(r) ==
    IF req[r].op = "changeEmail" /\ NeedsVerification(req[r].copy)
    THEN [req[r] EXCEPT !.at = "send", !.saves = <<>>]
    ELSE Ended

Save(r) ==
    /\ req[r].at = "save" /\ CanSave(r, Head(req[r].saves))
    /\ WriteRow(r, Head(req[r].saves),
                IF Len(req[r].saves) = 1 THEN AfterSaves(r)
                ELSE [req[r] EXCEPT !.saves = Tail(@)])
    /\ Recount(r, Head(req[r].saves))
    /\ resetup' = \/ resetup
                  \/ /\ req[r].op = "setupTwoFactor"
                     /\ row.twofa \/ \E q \in Reqs : req[q].op = "verifyTwoFactor"
    /\ told' = IF req[r].op = "editUser" /\ "mail" \in req[r].own
               THEN told \cup {req[r].copy.mail} ELSE told
    /\ UNCHANGED <<recs, links, resetLinks, now, begun, mix, confirmed, twinned, uncounted>>

SaveRaises(r) ==
    /\ req[r].at = "save" /\ ~CanSave(r, Head(req[r].saves))
    /\ Advance(r, Ended, {})
    /\ UNCHANGED <<row, recs, links, resetLinks, now, begun, mix, said, stale, fails, raced>>
    /\ UNCHANGED history

-----------------------------------------------------------------------------
(* Operations on one's own account.  The object is the one authentication  *)
(* read when the request came in.                                          *)

Serve(r, op, plan) ==
    /\ Begin(r, op)
    /\ Advance(r, Started(op, plan), {})
    /\ UNCHANGED <<row, recs, links, resetLinks, now, mix, said, stale, fails, raced>>

OwnAccount(r) ==
    LET v == begun + 1 IN
    /\ Authenticated(row)
    /\ \/ Serve(r, "changePassword", ChangePassword(row, v))
       \/ Serve(r, "changeEmail", ChangeEmail(row, v))
       \/ \E c \in MeFields : Serve(r, "editMe", Patch(row, c, v))
       \/ \E c \in ProfileFields : Serve(r, "editProfile", Patch(row, c, v))
    /\ UNCHANGED history

TwoFactorSetup(r) ==
    /\ Authenticated(row)
    /\ Serve(r, "setupTwoFactor", SetupTwoFactor(row, begun + 1))
    /\ UNCHANGED history

(* Mutant of OtpMatches: any code does once there is a secret. *)
Mut_OtpMatches_Any(u, otp) == u.secret # 0

\* A code, named by the secret it was made from, is checked against the
\* secret that was read.
OtpMatches(u, otp) == u.secret # 0 /\ otp = u.secret

TwoFactorConfirm(r) ==
    /\ Authenticated(row)
    /\ \E otp \in Versions : OtpMatches(row, otp) /\ confirmed' = confirmed \cup {otp}
    /\ Serve(r, "verifyTwoFactor", VerifyTwoFactorSetup(row))
    /\ UNCHANGED <<told, resetup, twinned, uncounted>>

\* A link of an e-mail: its token answers only while email_verified is what
\* it was when the link was made.
FollowVerificationLink(r) ==
    /\ row.id # 0 /\ links # {} /\ ~row.verified
    /\ Serve(r, "verifyEmail", VerifyEmail(row))
    /\ UNCHANGED history

\* request_password_reset: the link's token is made from is_active; that the
\* mail could not be sent is only logged.
ForgotPassword(r) ==
    /\ row.id # 0
    /\ Begin(r, "forgot")
    /\ Advance(r, [Started("forgot", Plan(row, {}, <<>>)) EXCEPT !.at = "sendReset"], {})
    /\ UNCHANGED <<row, recs, links, resetLinks, now, mix, said, stale, fails, raced>>
    /\ UNCHANGED history

SendResetLink(r) ==
    /\ req[r].at = "sendReset"
    /\ resetLinks' \in {resetLinks, resetLinks \cup {req[r].copy.active}}
    /\ Advance(r, Ended, {})
    /\ UNCHANGED <<row, recs, links, now, begun, mix, said, stale, fails, raced>>
    /\ UNCHANGED history

FollowResetLink(r) ==
    /\ row.id # 0 /\ row.active \in resetLinks
    /\ Serve(r, "resetPassword", ResetPassword(row, begun + 1))
    /\ UNCHANGED history

Resend(r) ==
    /\ row.id # 0 /\ NeedsVerification(row) /\ ~row.verified
    /\ Begin(r, "resend")
    /\ Advance(r, [Started("resend", Plan(row, {}, <<>>)) EXCEPT !.at = "send"], {})
    /\ UNCHANGED <<row, recs, links, resetLinks, now, mix, said, stale, fails, raced>>
    /\ UNCHANGED history

\* dispatch_verification_email: the link goes to the address of the object; a
\* failure is caught, and the answer says so.
SendLink(r) ==
    /\ req[r].at = "send"
    /\ \/ links' = links \cup {req[r].copy.mail} /\ UNCHANGED told
       \/ told' = told \cup {req[r].copy.mail} /\ UNCHANGED links
    /\ Advance(r, Ended, {})
    /\ UNCHANGED <<row, recs, resetLinks, now, begun, mix, said, stale, fails, raced, confirmed,
                   resetup, twinned, uncounted>>

-----------------------------------------------------------------------------
(* Administration.  The object is fetched by the view.                     *)

Restore(r) ==
    /\ row.id # 0 /\ ~row.super
    /\ Serve(r, "restore", RestoreUser(row))
    /\ UNCHANGED history

Suspend(r) ==
    /\ row.id # 0 /\ ~row.super
    /\ Serve(r, "suspend", SuspendUser(row))
    /\ UNCHANGED history

ToggleStaff(r) ==
    /\ row.id # 0 /\ ~row.super
    /\ Serve(r, "toggleStaff", ToggleStaffStatus(row))
    /\ UNCHANGED history

Unlock(r) ==
    /\ row.id # 0
    /\ Serve(r, "unlock", UnlockUserAccount(row))
    /\ UNCHANGED history

\* UserDetailView.patch: a superuser is not to be suspended.
MayPatch(u, c) == c = "active" /\ u.active => ~u.super

EditUser(r) ==
    /\ row.id # 0
    /\ \E c \in UserFields :
         /\ MayPatch(row, c)
         /\ Serve(r, "editUser", Patch(row, c, begun + 1))
    /\ UNCHANGED history

\* TeamMemberDetailView.patch.
EditTeamMember(r) ==
    /\ row.id # 0
    /\ \E c \in TeamFields : Serve(r, "editMember", Patch(row, c, begun + 1))
    /\ UNCHANGED history

Anonymize(r) ==
    /\ row.id # 0
    /\ Serve(r, "anonymize", AnonymizeUser(row, begun + 1))
    /\ UNCHANGED history

\* ensure_superuser when the account exists without the flags.
EnsureFlags(r) ==
    /\ row.id # 0 /\ ~(row.super /\ row.staff /\ row.verified)
    /\ Serve(r, "ensureSuperuser", EnsureSuperuser(row))
    /\ UNCHANGED history

\* delete_account and delete_user, before the row goes.
Delete(r) ==
    /\ row.id # 0
    /\ \E op \in {"deleteAccount", "deleteUser"} :
         /\ op = "deleteAccount" => Authenticated(row)
         /\ op = "deleteUser" => ~row.super
         /\ Begin(r, op)
         /\ Advance(r, [Started(op, Plan(row, {}, <<>>)) EXCEPT !.at = "delete"], {})
    /\ UNCHANGED <<row, recs, links, resetLinks, now, mix, said, stale, fails, raced>>
    /\ UNCHANGED history

DeleteRow(r) ==
    LET gone == IF row.id = req[r].copy.id THEN [row EXCEPT !.id = 0] ELSE row IN
    /\ req[r].at = "delete"
    /\ row' = gone
    /\ said' = [said EXCEPT !.id = gone.id]
    /\ stale' = IF gone = row THEN stale ELSE stale \ {"id"}
    /\ Advance(r, Ended, Differ(row, gone))
    /\ UNCHANGED <<recs, links, resetLinks, now, begun, mix, fails, raced>>
    /\ UNCHANGED history

-----------------------------------------------------------------------------
(* A new account.  Nobody had the e-mail when the serializer, or            *)
(* get_or_create, looked.                                                   *)

NewAccount(r, op, plan) ==
    /\ row.id = 0
    /\ Begin(r, op)
    /\ Advance(r, [Started(op, plan) EXCEPT !.at = "insert"], {})
    /\ UNCHANGED <<row, recs, links, resetLinks, now, mix, said, stale, fails, raced>>
    /\ UNCHANGED history

\* register_user: a client needs no verified address and is marked verified
\* by a save of its own.
Register(r) ==
    NewAccount(r, "register", Plan([NewRow(begun + 1) EXCEPT !.verified = TRUE],
                                   {"verified"}, <<{"verified"}>>))

CreateSuperuser(r) ==
    NewAccount(r, "createSuperuser", EnsureSuperuser(NewRow(begun + 1)))

\* The INSERT meets the unique e-mail: register raises IntegrityError,
\* get_or_create reads the row that won.
Insert(r) ==
    /\ req[r].at = "insert"
    /\ IF row.id = 0
       THEN LET new == NewRow(req[r].k) IN
            /\ row' = new /\ said' = new /\ stale' = {} /\ fails' = 0 /\ raced' = FALSE
            /\ Advance(r, [req[r] EXCEPT !.at = "save", !.dirty = {}], Columns)
       ELSE /\ Advance(r, IF req[r].op = "register" THEN Ended
                          ELSE Started("ensureSuperuser", EnsureSuperuser(row)), {})
            /\ UNCHANGED <<row, said, stale, fails, raced>>
    /\ UNCHANGED <<recs, links, resetLinks, now, begun, mix>>
    /\ UNCHANGED history

-----------------------------------------------------------------------------
(* Logging in. *)

At(r, label) == [req[r] EXCEPT !.at = label]

\* .first() of the records, by primary key.
FirstRecord ==
    IF recs = {} THEN NoRecord ELSE CHOOSE f \in recs : \A g \in recs : f.id <= g.id

\* login_user up to authenticate: neither the record nor the account that was
\* read (the candidate, there or not) is locked.
Login(r) ==
    /\ ~IsLocked(FirstRecord)
    /\ row.id # 0 => row.until <= now
    /\ Begin(r, "login")
    /\ Advance(r, [Started("login", Plan(row, {}, <<>>)) EXCEPT !.at = "authenticate"], {})
    /\ UNCHANGED <<row, recs, links, resetLinks, now, mix, said, stale, fails, raced>>
    /\ UNCHANGED history

\* authenticate reads the row again; ModelBackend refuses an inactive user.
\* What it returns replaces the candidate, which only a failure keeps.
Authenticate(r) ==
    LET fresh == [req[r] EXCEPT !.copy = row, !.dirty = {}] IN
    /\ req[r].at = "authenticate"
    /\ \/ Advance(r, At(r, "getRecord"), {})
       \/ /\ Authenticated(row)
          /\ Advance(r, IF NeedsVerification(row) /\ ~row.verified THEN Ended
                        ELSE IF ~row.verified THEN [fresh EXCEPT !.at = "autoVerify"]
                        ELSE IF row.twofa THEN Ended
                        ELSE [fresh EXCEPT !.at = "clear"], {})
    /\ UNCHANGED <<row, recs, links, resetLinks, now, begun, mix, said, stale, fails, raced>>
    /\ UNCHANGED history

\* A client whose address was never verified is marked verified.
AutoVerify(r) ==
    LET own == [req[r] EXCEPT !.copy.verified = TRUE] IN
    /\ req[r].at = "autoVerify"
    /\ IF row.id = own.copy.id
       THEN LET new == [row EXCEPT !.verified = TRUE] IN
            /\ row' = new /\ said' = [said EXCEPT !.verified = TRUE]
            /\ stale' = stale \ {"verified"}
            /\ Advance(r, IF own.copy.twofa \/ ~CanLogin(own.copy) THEN Ended
                          ELSE [own EXCEPT !.at = "clear", !.dirty = @ \ {"verified"}],
                       Differ(row, new))
       ELSE Advance(r, Ended, {}) /\ UNCHANGED <<row, said, stale>>
    /\ UNCHANGED <<recs, links, resetLinks, now, begun, mix, fails, raced>>
    /\ UNCHANGED history

\* verify_two_factor_login reads the account again and finishes the login.
LoginTwoFactor(r) ==
    /\ row.id # 0 /\ row.secret # 0
    /\ Begin(r, "login")
    /\ Advance(r, [Started("login", Plan(row, {}, <<>>)) EXCEPT !.at = "clear"], {})
    /\ UNCHANGED <<row, recs, links, resetLinks, now, mix, said, stale, fails, raced>>
    /\ UNCHANGED history

\* _finalize_login: reset_attempts deletes the records, then
\* reset_user_lock_state saves the lock columns.
ClearRecords(r) ==
    /\ req[r].at = "clear"
    /\ recs' = {}
    /\ Advance(r, [At(r, "save") EXCEPT !.copy = Unlocked(@), !.own = Lock, !.saves = <<Lock>>],
               {"record"})
    /\ UNCHANGED <<row, links, resetLinks, now, begun, mix, said, stale, fails, raced>>
    /\ UNCHANGED history

(* Mutant of GetOrCreate: create without the get. *)
Mut_GetOrCreate_Create(rs) == "createRecord"

\* register_failed_attempt: get_or_create has no unique constraint behind it.
\* Two records of one pair make every later get raise MultipleObjectsReturned,
\* and the failure goes no further.
GetOrCreate(rs) ==
    CASE rs = {}               -> "createRecord"
      [] Cardinality(rs) = 1   -> "countRecord"
      [] OTHER                 -> "raise"

GetRecord(r) ==
    LET next == GetOrCreate(recs) IN
    /\ req[r].at = "getRecord"
    /\ Advance(r, IF next = "raise" THEN Ended
                  ELSE [At(r, next) EXCEPT !.record = FirstRecord, !.dirty = @ \ {"record"}], {})
    /\ uncounted' = (uncounted \/ next = "raise")
    /\ UNCHANGED <<row, recs, links, resetLinks, now, begun, mix, said, stale, fails, raced, told,
                   confirmed, resetup, twinned>>

CreateRecord(r) ==
    LET record == [id |-> req[r].k, n |-> 0, until |-> 0] IN
    /\ req[r].at = "createRecord"
    /\ recs' = recs \cup {record}
    /\ twinned' = (twinned \/ "record" \in req[r].dirty)
    /\ Advance(r, [At(r, "countRecord") EXCEPT !.record = record, !.dirty = @ \ {"record"}],
               {"record"})
    /\ UNCHANGED <<row, links, resetLinks, now, begun, mix, said, stale, fails, raced, told, confirmed,
                   resetup, uncounted>>

\* The record that was read is counted up, locked at the limit and saved; if a
\* login deleted it meanwhile, the save inserts it again.
CountRecord(r) ==
    LET f    == req[r].record
        n    == (IF f.until # 0 /\ f.until <= now THEN 0 ELSE f.n) + 1
        held == IF f.until # 0 /\ f.until <= now THEN 0 ELSE f.until
        new  == [id |-> f.id, n |-> n,
                 until |-> IF n >= MaxAttempts THEN now + LockTime ELSE held]
    IN  /\ req[r].at = "countRecord"
        /\ recs' = {g \in recs : g.id # f.id} \cup {new}
        /\ twinned' = (twinned \/ (recs # {} /\ \A g \in recs : g.id # f.id))
        /\ Advance(r, At(r, "countFailure"), {"record"})
        /\ UNCHANGED <<row, links, resetLinks, now, begun, mix, said, stale, fails, raced, told,
                       confirmed, resetup, uncounted>>

\* lock_user_after_failure, on the candidate read before the password check.
LockUserAfterFailure(u) ==
    [u EXCEPT !.failed = u.failed + 1,
              !.until = IF u.failed + 1 >= MaxAttempts THEN now + LockTime ELSE u.until]

CountFailure(r) ==
    LET copy == LockUserAfterFailure(req[r].copy)
        new  == [row EXCEPT !.failed = copy.failed, !.until = copy.until]
    IN  /\ req[r].at = "countFailure"
        /\ IF copy.id # 0 /\ row.id = copy.id
           THEN /\ row' = new
                /\ said' = [said EXCEPT !.failed = copy.failed, !.until = copy.until]
                /\ stale' = stale \ Lock
                /\ fails' = fails + 1
                /\ raced' = (raced \/ "failed" \in req[r].dirty)
                /\ Advance(r, Ended, Differ(row, new))
           ELSE Advance(r, Ended, {}) /\ UNCHANGED <<row, said, stale, fails, raced>>
        /\ UNCHANGED <<recs, links, resetLinks, now, begun, mix>>
        /\ UNCHANGED history

Tick ==
    /\ now < Horizon /\ "login" \in mix
    /\ now' = now + 1
    /\ UNCHANGED <<row, recs, links, resetLinks, req, begun, mix, said, stale, fails, raced>>
    /\ UNCHANGED history

-----------------------------------------------------------------------------
\* A behaviour starts with no account, or with a client, a member of staff or
\* a superuser, verified or about to be.
Init ==
    /\ mix \in Mixes
    /\ \E kind \in {"none", "client", "staff", "super"}, v \in BOOLEAN :
         /\ row = IF kind = "none" THEN NoRow
                  ELSE [NewRow(0) EXCEPT !.id = MaxRequests, !.verified = v,
                                         !.staff = kind \in {"staff", "super"},
                                         !.super = kind = "super"]
         /\ kind = "none" <=> mix \cap {"register", "createSuperuser"} # {}
         /\ kind \in {"none", "client"} => v
         /\ links = IF v THEN {} ELSE {0}
         /\ resetLinks = IF "resetPassword" \in mix /\ v THEN {TRUE} ELSE {}
    /\ said = row
    /\ req = [r \in Reqs |-> Ended]
    /\ recs = {} /\ now = 1 /\ begun = 0
    /\ stale = {} /\ fails = 0 /\ raced = FALSE
    /\ told = {} /\ confirmed = {} /\ resetup = FALSE /\ twinned = FALSE /\ uncounted = FALSE

Step(r) ==
    \/ OwnAccount(r) \/ TwoFactorSetup(r) \/ TwoFactorConfirm(r)
    \/ FollowVerificationLink(r) \/ FollowResetLink(r) \/ Resend(r) \/ SendLink(r)
    \/ ForgotPassword(r) \/ SendResetLink(r)
    \/ Restore(r) \/ Suspend(r) \/ ToggleStaff(r) \/ Unlock(r) \/ EditUser(r) \/ EditTeamMember(r) \/ Anonymize(r)
    \/ EnsureFlags(r) \/ Delete(r) \/ DeleteRow(r)
    \/ Register(r) \/ CreateSuperuser(r) \/ Insert(r) \/ Save(r) \/ SaveRaises(r)
    \/ Login(r) \/ Authenticate(r) \/ AutoVerify(r) \/ LoginTwoFactor(r) \/ ClearRecords(r)
    \/ GetRecord(r) \/ CreateRecord(r) \/ CountRecord(r) \/ CountFailure(r)

Next == (\E r \in Reqs : Step(r)) \/ Tick

Spec == Init /\ [][Next]_vars

-----------------------------------------------------------------------------
\* The state is made of rows, requests and counts of the kinds above.
TypeOK ==
    /\ row \in User /\ said \in User
    /\ recs \subseteq FailedLoginAttempt
    /\ links \subseteq Versions /\ resetLinks \subseteq BOOLEAN /\ told \subseteq Versions /\ confirmed \subseteq Versions
    /\ now \in 1..Horizon /\ begun \in 0..MaxRequests /\ mix \in Mixes
    /\ stale \subseteq Columns /\ fails \in Nat
    /\ {raced, resetup, twinned, uncounted} \subseteq BOOLEAN
    /\ \A r \in Reqs :
         /\ req[r].copy \in User
         /\ req[r].dirty \subseteq Columns \cup {"record"}
         /\ req[r].saves \in Seq(SUBSET Columns)

\* A committed change lasts: every column holds what the last operation about
\* it said (a suspension, an erasure, a deletion, a new password), unless a
\* request that had read the account before that change saved the whole row
\* after it.  Operations that name their columns take nothing back.
LastWordHolds == \A c \in Columns \ stale : row[c] = said[c]

\* Between two resets the account's counter is the number of failed logins,
\* unless two of them, or one and a full save, overlapped.
CounterExact == ~raced => row.failed = fails

\* A staff account that must verify its address was sent a link to the address
\* it has now, is being sent one, or was told that the link could not be sent;
\* an address an administrator typed gets none, and one about to be
\* marked verified needs none.  (An account that a full save put back after
\* its deletion may come back unverified with nobody to tell.)
LinkFollowsAddress ==
    (row.id # 0 /\ NeedsVerification(row) /\ ~row.verified /\ ~row.erased
                /\ stale \cap {"id", "mail", "verified", "erased"} = {})
    => \/ row.mail \in links \cup told
       \/ \E r \in Reqs : req[r].at = "send" /\ req[r].copy.mail = row.mail
       \/ \E r \in Reqs : /\ req[r].at = "save" /\ "verified" \in req[r].own
                         /\ req[r].copy.verified /\ req[r].copy.id = row.id

\* 2FA is on only with a secret of which a code was verified, unless a new
\* secret was set up after or while it was being enabled.  (An erasure while it
\* was being enabled leaves 2FA on with no secret, on an inactive account.)
EnabledSecretConfirmed ==
    (row.id # 0 /\ row.twofa /\ ~row.erased /\ stale \cap {"secret", "twofa", "erased"} = {})
    => row.secret \in confirmed \/ resetup

\* What an account was told to confirm, it can confirm or has confirmed.
ConfirmationsHold == LinkFollowsAddress /\ EnabledSecretConfirmed

\* One record per e-mail and address, unless two first failures overlapped;
\* and a failed login misses the account's counter only because of such twins.
TwinsOnlyByOverlap == (Cardinality(recs) > 1 \/ uncounted) => twinned
=============================================================================
