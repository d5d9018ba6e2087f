--------------------------- MODULE SecurityProofs ---------------------------
(*****************************************************************************)
(* Proofs about the account row, the threat engine and the examination of    *)
(* logins, for any number of requests, servers and logins, any set of        *)
(* devices and addresses and any thresholds.  The three components share no  *)
(* state: the parts of the module rest on one another in nothing.            *)
(*****************************************************************************)
EXTENDS Account, ThreatEngine, SecurityAlerts, FiniteSetTheorems, TLAPS
-----------------------------------------------------------------------------
(*****************************************************************************)
(* Account: the row of a user under requests that read it and save it.       *)
(*****************************************************************************)
\* A user row is a function on the columns.
IsRow(u) == u = [c \in Columns |-> u[c]]

\* A request has the fields of Idle.
IsRequest(q) ==
    /\ q \in [op : {q.op}, at : {q.at}, k : {q.k}, copy : {q.copy}, dirty : {q.dirty},
              own : {q.own}, saves : {q.saves}, record : {q.record}]
    /\ IsRow(q.copy)

AccountShapes ==
    /\ IsRow(row) /\ IsRow(said)
    /\ req = [r \in Reqs |-> req[r]] /\ \A r \in Reqs : IsRequest(req[r])

\* Requests that hold an object they read or saved.
Holds(q) == q.at \notin {"idle", "insert"}

\* But for the columns it has lost sight of, and those it is about to write,
\* a request's object is the row.
Sees(q, u) == \A c \in Columns \ (q.dirty \cup q.own) : q.copy[c] = u[c]
CopiesInSight == \A r \in Reqs : Holds(req[r]) => Sees(req[r], row)

\* What each operation is about, and how it saves.
PlannedSaves(q) ==
    IF q.op \in FullSaves
    THEN q.saves = <<Columns>> \/ (q.saves = <<Lock, Columns>> /\ Lock \subseteq q.own)
    ELSE q.saves = <<q.own>>

PlannedColumns(q) ==
    /\ q.own \subseteq Columns \ {"id"}
    /\ "failed" \in q.own => q.copy["failed"] = 0
    /\ "secret" \in q.own => q.op \in {"setupTwoFactor", "anonymize"}
    /\ "twofa" \in q.own => q.op \in {"verifyTwoFactor", "anonymize"}
    /\ "erased" \in q.own => q.op = "anonymize"
    /\ q.op = "anonymize" => {"twofa", "erased"} \subseteq q.own /\ ~q.copy["twofa"] /\ q.copy["erased"]
    /\ q.op = "verifyTwoFactor" => q.own = {"twofa"}
    /\ "mail" \in q.own => q.op \in {"changeEmail", "editUser", "anonymize"}
    /\ "verified" \in q.own => q.copy["verified"] \/ q.op \in {"changeEmail", "anonymize"}
    /\ q.op = "changeEmail" => /\ q.own = {"mail", "verified"}
                               /\ q.copy["verified"] \/ NeedsVerification(q.copy)

Planned(q) ==
    /\ q.at \in {"save", "insert"} => PlannedSaves(q) /\ PlannedColumns(q)
    /\ q.at = "insert" => /\ q.op \in {"register", "createSuperuser"}
                          /\ "verified" \in q.own /\ q.copy["verified"]
                          /\ \A c \in Columns \ q.own : q.copy[c] = NewRow(q.k)[c]
    /\ q.at \in {"authenticate", "autoVerify", "clear"} => q.op = "login"
    /\ q.at \notin {"save", "insert", "send"} => q.own = {}

RequestsArePlanned == \A r \in Reqs : Planned(req[r])

\* A count that was not overlooked.
CountKnown == ~raced => row["failed"] = fails

FirstRecordsSeen ==
    /\ \A r \in Reqs : req[r].at = "createRecord" /\ "record" \notin req[r].dirty => recs = {}
    /\ ~twinned => \A f, g \in recs : f = g
    /\ uncounted => twinned

CounterInv ==
    AccountShapes /\ CopiesInSight /\ RequestsArePlanned /\ LastWordHolds /\ CountKnown
    /\ FirstRecordsSeen

\* New accounts get new identities.
Creates == mix \cap {"register", "createSuperuser"} # {}
NewIdentities ==
    /\ begun \in Nat
    /\ Creates => row["id"] \in 0..begun
    /\ \A r \in Reqs :
         /\ Creates => req[r].copy["id"] \in 0..begun
         /\ req[r].at = "insert" =>
              /\ Creates /\ req[r].k \in 1..begun /\ row["id"] # req[r].k
              /\ \A q \in Reqs \ {r} : req[q].at # "idle" => req[q].copy["id"] # req[r].k

\* Nobody who holds a copy of account i knows what became of it.
Forgotten(i) ==
    \A q \in Reqs : Holds(req[q]) /\ req[q].copy["id"] = i => Columns \subseteq req[q].dirty

\* The secret that is being enabled was confirmed and is the row's, unless...
SecretEnabled ==
    /\ (row["twofa"] /\ ~row["erased"] /\ ~resetup /\ stale \cap {"secret", "twofa", "erased"} = {})
       => row["secret"] \in confirmed
    /\ \A r \in Reqs : req[r].at = "save" /\ req[r].op = "verifyTwoFactor" =>
         /\ req[r].copy["id"] # 0 /\ req[r].copy["secret"] \in confirmed
         /\ "secret" \in req[r].dirty =>
              \/ resetup \/ row["erased"] \/ stale \cap {"secret", "erased"} # {}
              \/ row["id"] # req[r].copy["id"] /\ Forgotten(req[r].copy["id"])

Reached ==
    \/ row["mail"] \in links \cup told
    \/ \E r \in Reqs : req[r].at = "send" /\ req[r].copy["mail"] = row["mail"]
    \/ \E r \in Reqs : /\ req[r].at = "save" /\ "verified" \in req[r].own
                       /\ req[r].copy["verified"] /\ req[r].copy["id"] = row["id"]

AddressReached ==
    (row["id"] # 0 /\ ~row["verified"] /\ ~row["erased"]
        /\ stale \cap {"id", "mail", "verified", "erased"} = {})
    => Reached

AccountInv == CounterInv /\ NewIdentities /\ SecretEnabled /\ AddressReached
-----------------------------------------------------------------------------
\* Setting a column of a row.
LEMMA ColumnSet ==
    ASSUME NEW u, IsRow(u), NEW c \in Columns, NEW v
    PROVE  /\ IsRow([u EXCEPT ![c] = v])
           /\ [u EXCEPT ![c] = v][c] = v
           /\ \A d \in Columns \ {c} : [u EXCEPT ![c] = v][d] = u[d]
BY DEF IsRow

LEMMA ColumnNames ==
    /\ \A k : IsRow(NewRow(k))
    /\ Lock \subseteq Columns \ {"id"}
    /\ {"id", "pw", "mail", "name", "verified", "active", "staff", "super", "twofa", "secret",
        "failed", "until", "erased"} = Columns
BY DEF Columns, Lock, IsRow, NewRow

\* A plan made from a row u sets the columns it is about, and no others.
Sound(op, plan, u) ==
    /\ IsRow(plan.new) /\ \A c \in Columns \ plan.own : plan.new[c] = u[c]
    /\ PlannedSaves(Started(op, plan)) /\ PlannedColumns(Started(op, plan))

LEMMA UnlockedRow ==
    ASSUME NEW u, IsRow(u)
    PROVE  /\ IsRow(Unlocked(u)) /\ Unlocked(u)["failed"] = 0
           /\ \A c \in Columns \ Lock : Unlocked(u)[c] = u[c]
<1> DEFINE w == [u EXCEPT !["failed"] = 0]
<1>1. IsRow(w) /\ w["failed"] = 0 /\ \A c \in Columns \ {"failed"} : w[c] = u[c]
  BY ColumnSet, ColumnNames
<1>2. Unlocked(u) = [w EXCEPT !["until"] = 0]
  BY DEF Unlocked
<1> HIDE DEF w
<1>3. IsRow([w EXCEPT !["until"] = 0]) /\ \A c \in Columns \ {"until"} : [w EXCEPT !["until"] = 0][c] = w[c]
  BY <1>1, ColumnSet, ColumnNames
<1>4. QED
  BY <1>1, <1>2, <1>3, ColumnNames DEF Lock

LEMMA PasswordPlans ==
    ASSUME NEW u, IsRow(u), NEW v
    PROVE  /\ Sound("changePassword", ChangePassword(u, v), u)
           /\ Sound("resetPassword", ResetPassword(u, v), u)
<1>1. /\ IsRow([Unlocked(u) EXCEPT !["pw"] = v])
      /\ \A c \in Columns \ ({"pw"} \cup Lock) : [Unlocked(u) EXCEPT !["pw"] = v][c] = u[c]
      /\ [Unlocked(u) EXCEPT !["pw"] = v]["failed"] = 0
  BY UnlockedRow, ColumnSet, ColumnNames
<1>2. QED
  BY <1>1, ColumnNames
     DEF Sound, ChangePassword, ResetPassword, Plan, PlannedSaves, PlannedColumns, Started, FullSaves, Lock

\* A plan that sets one column, and saves it by name.
LEMMA OneColumnPlans ==
    ASSUME NEW u, IsRow(u), NEW v
    PROVE  /\ Sound("verifyEmail", VerifyEmail(u), u)
           /\ Sound("setupTwoFactor", SetupTwoFactor(u, v), u)
           /\ Sound("verifyTwoFactor", VerifyTwoFactorSetup(u), u)
           /\ Sound("restore", RestoreUser(u), u)
           /\ Sound("suspend", SuspendUser(u), u)
           /\ Sound("toggleStaff", ToggleStaffStatus(u), u)
<1>1. /\ IsRow([u EXCEPT !["verified"] = TRUE])
      /\ [u EXCEPT !["verified"] = TRUE]["verified"]
      /\ \A c \in Columns \ {"verified"} : [u EXCEPT !["verified"] = TRUE][c] = u[c]
  BY ColumnSet, ColumnNames
<1>2. Sound("verifyEmail", VerifyEmail(u), u)
  BY <1>1, ColumnNames
     DEF Sound, VerifyEmail, Plan, PlannedSaves, PlannedColumns, Started, FullSaves
<1>3. ASSUME NEW c \in Columns \ {"id", "mail", "verified", "failed", "secret", "erased", "twofa"}, NEW w,
             NEW op \in {"restore", "suspend", "toggleStaff"}
      PROVE  Sound(op, Plan([u EXCEPT ![c] = w], {c}, <<{c}>>), u)
  BY ColumnSet DEF Sound, Plan, PlannedSaves, PlannedColumns, Started, FullSaves
<1>4. ASSUME NEW w
      PROVE  Sound("setupTwoFactor", Plan([u EXCEPT !["secret"] = w], {"secret"}, <<{"secret"}>>), u)
  BY ColumnSet, ColumnNames DEF Sound, Plan, PlannedSaves, PlannedColumns, Started, FullSaves
<1>5. ASSUME NEW w
      PROVE  Sound("verifyTwoFactor", Plan([u EXCEPT !["twofa"] = w], {"twofa"}, <<{"twofa"}>>), u)
  BY ColumnSet, ColumnNames DEF Sound, Plan, PlannedSaves, PlannedColumns, Started, FullSaves
<1>6. QED
  BY <1>2, <1>3, <1>4, <1>5, ColumnNames
     DEF RestoreUser, SuspendUser, ToggleStaffStatus, SetupTwoFactor, VerifyTwoFactorSetup

LEMMA UnlockPlan ==
    ASSUME NEW u, IsRow(u)
    PROVE  Sound("unlock", UnlockUserAccount(u), u)
BY UnlockedRow, ColumnNames
   DEF Sound, UnlockUserAccount, Plan, PlannedSaves, PlannedColumns, Started, FullSaves, Lock

LEMMA EmailPlan ==
    ASSUME NEW u, IsRow(u), NEW v
    PROVE  Sound("changeEmail", ChangeEmail(u, v), u)
<1> DEFINE w == [u EXCEPT !["mail"] = v]
           x == [w EXCEPT !["verified"] = ~NeedsVerification(u)]
<1>1. IsRow(w) /\ \A c \in Columns \ {"mail"} : w[c] = u[c]
  BY ColumnSet, ColumnNames
<1>2. ChangeEmail(u, v) = Plan(x, {"mail", "verified"}, <<{"mail", "verified"}>>)
  BY DEF ChangeEmail
<1> HIDE DEF w
<1>3. /\ IsRow(x) /\ x["verified"] = ~NeedsVerification(u)
      /\ \A c \in Columns \ {"verified"} : x[c] = w[c]
  BY <1>1, ColumnSet, ColumnNames
<1> HIDE DEF x
<1>4. x["super"] = u["super"] /\ x["staff"] = u["staff"]
  BY <1>1, <1>3, ColumnNames
<1>5. x["verified"] \/ NeedsVerification(x)
  BY <1>3, <1>4 DEF NeedsVerification
<1>6. QED
  BY <1>1, <1>2, <1>3, <1>5, ColumnNames
     DEF Sound, Plan, PlannedSaves, PlannedColumns, Started, FullSaves

LEMMA PatchPlans ==
    ASSUME NEW u, IsRow(u), NEW v
    PROVE  /\ \A c \in MeFields : Sound("editMe", Patch(u, c, v), u)
           /\ \A c \in ProfileFields : Sound("editProfile", Patch(u, c, v), u)
           /\ \A c \in UserFields : Sound("editUser", Patch(u, c, v), u)
           /\ \A c \in TeamFields : Sound("editMember", Patch(u, c, v), u)
<1>1. ASSUME NEW c \in {"name", "staff", "active"}, NEW w,
             NEW op \in {"editMe", "editProfile", "editUser", "editMember"}
      PROVE  Sound(op, Plan([u EXCEPT ![c] = w], {c}, <<Columns>>), u)
  BY ColumnSet, ColumnNames DEF Sound, Plan, PlannedSaves, PlannedColumns, Started, FullSaves
<1>2. ASSUME NEW w
      PROVE  Sound("editUser", Plan([u EXCEPT !["mail"] = w], {"mail"}, <<Columns>>), u)
  BY ColumnSet, ColumnNames DEF Sound, Plan, PlannedSaves, PlannedColumns, Started, FullSaves
<1>3. QED
  BY <1>1, <1>2 DEF Patch, MeFields, ProfileFields, UserFields, TeamFields

LEMMA SuperuserPlan ==
    ASSUME NEW u, IsRow(u)
    PROVE  /\ Sound("ensureSuperuser", EnsureSuperuser(u), u)
           /\ Sound("createSuperuser", EnsureSuperuser(u), u)
           /\ "verified" \in EnsureSuperuser(u).own /\ EnsureSuperuser(u).new["verified"]
<1> DEFINE w == [u EXCEPT !["super"] = TRUE]
           x == [w EXCEPT !["staff"] = TRUE]
           y == [x EXCEPT !["verified"] = TRUE]
<1>1. IsRow(w) /\ \A c \in Columns \ {"super"} : w[c] = u[c]
  BY ColumnSet, ColumnNames
<1>2. EnsureSuperuser(u) = Plan(y, {"super", "staff", "verified"}, <<Columns>>)
  BY DEF EnsureSuperuser
<1> HIDE DEF w
<1>3. IsRow(x) /\ \A c \in Columns \ {"staff"} : x[c] = w[c]
  BY <1>1, ColumnSet, ColumnNames
<1> HIDE DEF x
<1>4. IsRow(y) /\ y["verified"] = TRUE /\ \A c \in Columns \ {"verified"} : y[c] = x[c]
  BY <1>3, ColumnSet, ColumnNames
<1> HIDE DEF y
<1>5. QED
  BY <1>1, <1>2, <1>3, <1>4, ColumnNames
     DEF Sound, Plan, PlannedSaves, PlannedColumns, Started, FullSaves

LEMMA AnonymizePlan ==
    ASSUME NEW u, IsRow(u), NEW v
    PROVE  Sound("anonymize", AnonymizeUser(u, v), u)
<1> DEFINE u1 == [u EXCEPT !["mail"] = v]
           u2 == [u1 EXCEPT !["name"] = v]
           u3 == [u2 EXCEPT !["verified"] = FALSE]
           u4 == [u3 EXCEPT !["twofa"] = FALSE]
           u5 == [u4 EXCEPT !["secret"] = 0]
           u6 == [u5 EXCEPT !["active"] = FALSE]
           u7 == [u6 EXCEPT !["erased"] = TRUE]
           u8 == [u7 EXCEPT !["pw"] = v]
           own == {"mail", "name", "verified", "twofa", "secret", "active", "erased", "pw"}
<1>1. AnonymizeUser(u, v) = Plan(u8, own, <<Columns>>)
  BY DEF AnonymizeUser
<1>2. IsRow(u1) /\ \A c \in Columns \ {"mail"} : u1[c] = u[c]
  BY ColumnSet, ColumnNames
<1> HIDE DEF u1
<1>3. IsRow(u2) /\ \A c \in Columns \ {"name"} : u2[c] = u1[c]
  BY <1>2, ColumnSet, ColumnNames
<1> HIDE DEF u2
<1>4. IsRow(u3) /\ \A c \in Columns \ {"verified"} : u3[c] = u2[c]
  BY <1>3, ColumnSet, ColumnNames
<1> HIDE DEF u3
<1>5. IsRow(u4) /\ u4["twofa"] = FALSE /\ \A c \in Columns \ {"twofa"} : u4[c] = u3[c]
  BY <1>4, ColumnSet, ColumnNames
<1> HIDE DEF u4
<1>6. IsRow(u5) /\ \A c \in Columns \ {"secret"} : u5[c] = u4[c]
  BY <1>5, ColumnSet, ColumnNames
<1> HIDE DEF u5
<1>7. IsRow(u6) /\ \A c \in Columns \ {"active"} : u6[c] = u5[c]
  BY <1>6, ColumnSet, ColumnNames
<1> HIDE DEF u6
<1>8. IsRow(u7) /\ u7["erased"] = TRUE /\ \A c \in Columns \ {"erased"} : u7[c] = u6[c]
  BY <1>7, ColumnSet, ColumnNames
<1> HIDE DEF u7
<1>9. IsRow(u8) /\ \A c \in Columns \ {"pw"} : u8[c] = u7[c]
  BY <1>8, ColumnSet, ColumnNames
<1> HIDE DEF u8
<1>10. u8["twofa"] = FALSE /\ u8["erased"] = TRUE
  BY <1>5, <1>6, <1>7, <1>8, <1>9, ColumnNames
<1>11. \A c \in Columns \ own : u8[c] = u[c]
  BY <1>2, <1>3, <1>4, <1>5, <1>6, <1>7, <1>8, <1>9
<1>12. QED
  BY <1>1, <1>9, <1>10, <1>11, ColumnNames
     DEF Sound, Plan, PlannedSaves, PlannedColumns, Started, FullSaves
-----------------------------------------------------------------------------
\* What becomes of the others when a request changes these columns.
LosesSight(q, p, changed) ==
    /\ IsRequest(p)
    /\ p.op = q.op /\ p.at = q.at /\ p.k = q.k /\ p.copy = q.copy /\ p.own = q.own
    /\ p.saves = q.saves /\ p.record = q.record
    /\ p.dirty = IF q.at = "idle" THEN q.dirty ELSE q.dirty \cup changed

Others(r, changed) == \A q \in Reqs \ {r} : LosesSight(req[q], req'[q], changed)

LEMMA Advanced ==
    ASSUME AccountShapes, NEW r \in Reqs, NEW next, NEW changed, Advance(r, next, changed)
    PROVE  /\ req'[r] = next /\ req' = [q \in Reqs |-> req'[q]]
           /\ Others(r, changed)
<1>1. req'[r] = next /\ req' = [q \in Reqs |-> req'[q]]
  BY DEF Advance
<1>2. ASSUME NEW q \in Reqs \ {r}
      PROVE  LosesSight(req[q], req'[q], changed)
  <2>1. req'[q] = IF req[q].at = "idle" THEN req[q]
                  ELSE [req[q] EXCEPT !.dirty = @ \cup changed]
    BY DEF Advance
  <2>2. IsRequest(req[q])
    BY DEF AccountShapes
  <2> DEFINE old == req[q]
  <2>3. old \in [op : {old.op}, at : {old.at}, k : {old.k}, copy : {old.copy}, dirty : {old.dirty},
                 own : {old.own}, saves : {old.saves}, record : {old.record}]
    BY <2>2 DEF IsRequest
  <2> HIDE DEF old
  <2>4. [old EXCEPT !.dirty = @ \cup changed] \in
            [op : {old.op}, at : {old.at}, k : {old.k}, copy : {old.copy},
             dirty : {old.dirty \cup changed},
             own : {old.own}, saves : {old.saves}, record : {old.record}]
    BY <2>3
  <2>5. IsRow(old.copy)
    BY <2>2 DEF IsRequest, old
  <2>6. ASSUME NEW p, NEW d,
               p \in [op : {old.op}, at : {old.at}, k : {old.k}, copy : {old.copy}, dirty : {d},
                      own : {old.own}, saves : {old.saves}, record : {old.record}]
        PROVE  /\ IsRequest(p) /\ p.dirty = d
               /\ p.op = old.op /\ p.at = old.at /\ p.k = old.k /\ p.copy = old.copy
               /\ p.own = old.own /\ p.saves = old.saves /\ p.record = old.record
    BY <2>5, <2>6 DEF IsRequest
  <2>7. CASE old.at = "idle"
    <3>1. req'[q] = old /\ IsRequest(old)
      BY <2>1, <2>2, <2>7 DEF old
    <3>2. QED
      BY <3>1, <2>7 DEF LosesSight, old
  <2>8. CASE old.at # "idle"
    <3>1. req'[q] = [old EXCEPT !.dirty = @ \cup changed]
      BY <2>1, <2>8 DEF old
    <3>2. QED
      BY <3>1, <2>4, <2>6, <2>8 DEF LosesSight, old
  <2>9. QED
    BY <2>7, <2>8
<1>3. QED
  BY <1>1, <1>2 DEF Others

\* A request that is what the others may rely on.
Good(q, u) == IsRequest(q) /\ Planned(q) /\ (Holds(q) => Sees(q, u))

LEMMA GoodRequests ==
    ASSUME AccountShapes, CopiesInSight, RequestsArePlanned, NEW r \in Reqs
    PROVE  Good(req[r], row)
BY DEF AccountShapes, CopiesInSight, RequestsArePlanned, Good

LEMMA GoodEnded == \A u : Good(Ended, u) /\ Ended.at = "idle" /\ Ended.op = "none"
<1>1. Ended \in [op : {"none"}, at : {"idle"}, k : {0}, copy : {NoRow}, dirty : {{}},
               own : {{}}, saves : {<<>>}, record : {NoRecord}]
  <2>1. Idle \in [op : {"none"}, at : {"idle"}, k : {0}, copy : {row}, dirty : {{}},
                  own : {{}}, saves : {<<>>}, record : {NoRecord}]
    BY DEF Idle
  <2>2. QED
    BY <2>1 DEF Ended
<1>2. IsRow(NoRow)
  BY ColumnNames, ColumnSet DEF NoRow
<1>3. QED
  BY <1>1, <1>2 DEF Good, IsRequest, Holds, Planned

LEMMA StartedIs ==
    ASSUME NEW op, NEW plan, IsRow(plan.new)
    PROVE  LET q == Started(op, plan) IN
           /\ IsRequest(q) /\ q.op = op /\ q.at = "save" /\ q.k = begun + 1 /\ q.copy = plan.new
           /\ q.dirty = {} /\ q.own = plan.own /\ q.saves = plan.saves /\ q.record = NoRecord
BY DEF Started, IsRequest

LEMMA GoodStarted ==
    ASSUME NEW op, NEW plan, NEW u, Sound(op, plan, u)
    PROVE  Good(Started(op, plan), u)
BY StartedIs DEF Sound, Good, Planned, Sees

\* A request of the same object at another step.
LEMMA GoodAt ==
    ASSUME NEW q, IsRequest(q), NEW at
    PROVE  LET p == [q EXCEPT !.at = at] IN
           /\ IsRequest(p) /\ p.at = at /\ p.op = q.op /\ p.k = q.k /\ p.copy = q.copy
           /\ p.dirty = q.dirty /\ p.own = q.own /\ p.saves = q.saves /\ p.record = q.record
<1> DEFINE p == [q EXCEPT !.at = at]
<1>1. p \in [op : {q.op}, at : {at}, k : {q.k}, copy : {q.copy}, dirty : {q.dirty},
             own : {q.own}, saves : {q.saves}, record : {q.record}]
  BY DEF IsRequest
<1>2. QED
  BY <1>1 DEF IsRequest

\* What a step that writes no user row makes of its own request.
KeepsIdentity(r) ==
    \/ req'[r].at = "idle" /\ req'[r].copy["id"] = 0
    \/ Holds(req'[r]) /\ req'[r].copy["id"] = row["id"]
    \/ /\ Holds(req[r]) /\ Holds(req'[r]) /\ req'[r].copy["id"] = req[r].copy["id"]
       /\ req[r].dirty \cap Columns \subseteq req'[r].dirty
    \/ /\ req'[r].at = "insert" /\ Creates /\ row["id"] = 0
       /\ req'[r].k = begun + 1 /\ begun' = begun + 1

KeepsSecret(r) ==
    req'[r].at = "save" /\ req'[r].op = "verifyTwoFactor" =>
        req'[r].dirty = {} /\ req'[r].copy["id"] # 0 /\ req'[r].copy["secret"] \in confirmed'

KeepsAddress(r) ==
    /\ req[r].at = "send" => req[r].copy["mail"] \in links' \cup told'
    /\ req[r].at = "save" => req[r].copy["id"] # row["id"]

KeepsSearch(r) == GetRecord(r) \/ req'[r].at # "createRecord"

\* A step that writes no user row.
Quiet(r) ==
    /\ UNCHANGED <<row, said, stale, fails, raced, mix, resetup>>
    /\ req' = [q \in Reqs |-> req'[q]]
    /\ \E changed \in {{}, {"record"}} : Others(r, changed)
    /\ Good(req'[r], row) /\ KeepsIdentity(r) /\ KeepsSecret(r) /\ KeepsAddress(r) /\ KeepsSearch(r)
    /\ confirmed \subseteq confirmed' /\ links \subseteq links' /\ told \subseteq told'
    /\ begun' \in {begun, begun + 1}

LEMMA Serves ==
    ASSUME AccountShapes, NEW r \in Reqs, NEW op, NEW plan, Sound(op, plan, row),
           Serve(r, op, plan), UNCHANGED <<resetup, told>>, confirmed \subseteq confirmed',
           op = "verifyTwoFactor" => row["id"] # 0 /\ row["secret"] \in confirmed'
    PROVE  Quiet(r)
<1>1. req'[r] = Started(op, plan) /\ req' = [q \in Reqs |-> req'[q]] /\ Others(r, {})
  BY Advanced DEF Serve
<1>2. UNCHANGED <<row, said, stale, fails, raced, mix, links>> /\ begun' = begun + 1 /\ req[r].at = "idle"
  BY DEF Serve, Begin
<1>3. /\ IsRow(plan.new) /\ \A c \in Columns \ plan.own : plan.new[c] = row[c]
      /\ PlannedColumns(Started(op, plan))
  BY DEF Sound
<1>4. LET q == Started(op, plan) IN q.op = op /\ q.at = "save" /\ q.copy = plan.new /\ q.dirty = {} /\ q.own = plan.own
  BY <1>3, StartedIs
<1>5. "id" \notin plan.own /\ op = "verifyTwoFactor" => "secret" \notin plan.own
  BY <1>3, <1>4 DEF PlannedColumns
<1>6. plan.new["id"] = row["id"]
  BY <1>3, <1>4, ColumnNames DEF PlannedColumns
<1>7. KeepsIdentity(r)
  BY <1>1, <1>4, <1>6 DEF KeepsIdentity, Holds
<1>8. KeepsSecret(r)
  BY <1>1, <1>3, <1>4, <1>6, ColumnNames DEF KeepsSecret, PlannedColumns
<1>9. Good(req'[r], row)
  BY <1>1, GoodStarted
<1>10. QED
  BY <1>1, <1>2, <1>4, <1>7, <1>8, <1>9 DEF Quiet, KeepsAddress, KeepsSearch

\* The operations on a row, begun.
LEMMA OwnOperations ==
    ASSUME AccountShapes, NEW r \in Reqs,
           \/ OwnAccount(r) \/ TwoFactorSetup(r) \/ TwoFactorConfirm(r)
           \/ FollowVerificationLink(r) \/ FollowResetLink(r)
    PROVE  Quiet(r)
<1>1. IsRow(row)
  BY DEF AccountShapes
<1>2. CASE OwnAccount(r)
  <2>1. UNCHANGED history
    BY <1>2 DEF OwnAccount
  <2>2. UNCHANGED <<resetup, told, confirmed>>
    BY <2>1 DEF history
  <2>3. PICK op, plan : Serve(r, op, plan) /\ Sound(op, plan, row) /\ op # "verifyTwoFactor"
    BY <1>1, <1>2, PasswordPlans, EmailPlan, PatchPlans DEF OwnAccount
  <2>4. QED
    BY <2>2, <2>3, Serves
<1>3. CASE TwoFactorSetup(r)
  <2>1. UNCHANGED <<resetup, told, confirmed>>
    BY <1>3 DEF TwoFactorSetup, history
  <2>2. QED
    BY <1>1, <1>3, <2>1, Serves, OneColumnPlans DEF TwoFactorSetup
<1>4. CASE TwoFactorConfirm(r)
  <2>1. /\ UNCHANGED <<resetup, told>> /\ row["id"] # 0
        /\ confirmed \subseteq confirmed' /\ row["secret"] \in confirmed'
    BY <1>4 DEF TwoFactorConfirm, OtpMatches, Authenticated
  <2>2. Serve(r, "verifyTwoFactor", VerifyTwoFactorSetup(row))
    BY <1>4 DEF TwoFactorConfirm
  <2>3. Sound("verifyTwoFactor", VerifyTwoFactorSetup(row), row)
    BY <1>1, OneColumnPlans
  <2>4. QED
    BY <2>1, <2>2, <2>3, Serves
<1>5. CASE FollowVerificationLink(r)
  <2>1. UNCHANGED <<resetup, told, confirmed>>
    BY <1>5 DEF FollowVerificationLink, history
  <2>2. QED
    BY <1>1, <1>5, <2>1, Serves, OneColumnPlans DEF FollowVerificationLink
<1>6. CASE FollowResetLink(r)
  <2>1. UNCHANGED <<resetup, told, confirmed>>
    BY <1>6 DEF FollowResetLink, history
  <2>2. QED
    BY <1>1, <1>6, <2>1, Serves, PasswordPlans DEF FollowResetLink
<1>7. QED
  BY <1>2, <1>3, <1>4, <1>5, <1>6

LEMMA Administration ==
    ASSUME AccountShapes, NEW r \in Reqs,
           \/ Restore(r) \/ Suspend(r) \/ ToggleStaff(r) \/ Unlock(r) \/ EditUser(r)
           \/ EditTeamMember(r) \/ Anonymize(r) \/ EnsureFlags(r)
    PROVE  Quiet(r)
<1>1. IsRow(row)
  BY DEF AccountShapes
<1>2. UNCHANGED history
  BY DEF Restore, Suspend, ToggleStaff, Unlock, EditUser, EditTeamMember, Anonymize, EnsureFlags
<1>3. UNCHANGED <<resetup, told, confirmed>>
  BY <1>2 DEF history
<1>4. PICK op, plan : Serve(r, op, plan) /\ Sound(op, plan, row) /\ op # "verifyTwoFactor"
  <2>1. CASE Restore(r) \/ Suspend(r) \/ ToggleStaff(r)
    BY <1>1, <2>1, OneColumnPlans DEF Restore, Suspend, ToggleStaff
  <2>2. CASE Unlock(r)
    BY <1>1, <2>2, UnlockPlan DEF Unlock
  <2>3. CASE EditUser(r) \/ EditTeamMember(r)
    BY <1>1, <2>3, PatchPlans DEF EditUser, EditTeamMember
  <2>4. CASE Anonymize(r)
    BY <1>1, <2>4, AnonymizePlan DEF Anonymize
  <2>5. CASE EnsureFlags(r)
    BY <1>1, <2>5, SuperuserPlan DEF EnsureFlags
  <2>6. QED
    BY <2>1, <2>2, <2>3, <2>4, <2>5
<1>5. QED
  BY <1>3, <1>4, Serves

LEMMA Reads ==
    ASSUME AccountShapes, NEW r \in Reqs, NEW op, op # "verifyTwoFactor",
           NEW at \in {"sendReset", "send", "delete", "authenticate", "clear"},
           at \in {"authenticate", "clear"} => op = "login",
           Begin(r, op), Advance(r, [Started(op, Plan(row, {}, <<>>)) EXCEPT !.at = at], {}),
           UNCHANGED <<row, recs, links, resetLinks, now, mix, said, stale, fails, raced>>,
           UNCHANGED history
    PROVE  Quiet(r)
<1>0. PICK next : next = [Started(op, Plan(row, {}, <<>>)) EXCEPT !.at = at]
  OBVIOUS
<1>1. req'[r] = next /\ req' = [q \in Reqs |-> req'[q]] /\ Others(r, {})
  BY <1>0, Advanced
<1>2. /\ UNCHANGED <<row, said, stale, fails, raced, mix, links, resetup, told, confirmed>>
      /\ begun' = begun + 1 /\ req[r].at = "idle"
  BY DEF Begin, history
<1>3. IsRow(row)
  BY DEF AccountShapes
<1>4. Good(next, row) /\ next.at = at /\ next.copy = row /\ next.op = op
  <2>1. Started(op, Plan(row, {}, <<>>)) \in
            [op : {op}, at : {"save"}, k : {begun + 1}, copy : {row}, dirty : {{}}, own : {{}},
             saves : {<<>>}, record : {NoRecord}]
    BY DEF Started, Plan
  <2>2. next \in [op : {op}, at : {at}, k : {begun + 1}, copy : {row}, dirty : {{}}, own : {{}},
                  saves : {<<>>}, record : {NoRecord}]
    BY <1>0, <2>1
  <2>3. QED
    BY <1>3, <2>2 DEF Good, IsRequest, Planned, Holds, Sees
<1>5. KeepsIdentity(r) /\ KeepsSecret(r)
  BY <1>1, <1>4 DEF KeepsIdentity, KeepsSecret, Holds
<1>6. QED
  BY <1>1, <1>2, <1>4, <1>5 DEF Quiet, KeepsAddress, KeepsSearch

LEMMA Readers ==
    ASSUME AccountShapes, NEW r \in Reqs,
           ForgotPassword(r) \/ Resend(r) \/ Delete(r) \/ Login(r) \/ LoginTwoFactor(r)
    PROVE  Quiet(r)
<1>1. CASE ForgotPassword(r)
  BY <1>1, Reads DEF ForgotPassword
<1>2. CASE Resend(r)
  BY <1>2, Reads DEF Resend
<1>3. CASE Delete(r)
  <2>1. PICK op \in {"deleteAccount", "deleteUser"} :
            /\ Begin(r, op)
            /\ Advance(r, [Started(op, Plan(row, {}, <<>>)) EXCEPT !.at = "delete"], {})
    BY <1>3 DEF Delete
  <2>2. /\ UNCHANGED <<row, recs, links, resetLinks, now, mix, said, stale, fails, raced>>
        /\ UNCHANGED history
    BY <1>3 DEF Delete
  <2>3. QED
    BY <2>1, <2>2, Reads
<1>4. CASE Login(r)
  BY <1>4, Reads DEF Login
<1>5. CASE LoginTwoFactor(r)
  BY <1>5, Reads DEF LoginTwoFactor
<1>6. QED
  BY <1>1, <1>2, <1>3, <1>4, <1>5

LEMMA EndedIdentity == Ended.copy["id"] = 0
<1>1. Idle \in [op : {"none"}, at : {"idle"}, k : {0}, copy : {row}, dirty : {{}},
                own : {{}}, saves : {<<>>}, record : {NoRecord}]
  BY DEF Idle
<1>2. Ended.copy = NoRow
  BY <1>1 DEF Ended
<1>3. NoRow["id"] = NewRow(0)["id"]
  BY ColumnSet, ColumnNames DEF NoRow
<1>4. QED
  BY <1>2, <1>3 DEF NewRow

LEMMA Ends ==
    ASSUME AccountShapes, NEW r \in Reqs, SendLink(r) \/ SendResetLink(r) \/ SaveRaises(r)
    PROVE  Quiet(r)
<1>1. Advance(r, Ended, {})
  BY DEF SendLink, SendResetLink, SaveRaises
<1>2. req'[r] = Ended /\ req' = [q \in Reqs |-> req'[q]] /\ Others(r, {})
  BY <1>1, Advanced
<1>3. UNCHANGED <<row, said, stale, fails, raced, mix, resetup, begun, confirmed>>
  BY DEF SendLink, SendResetLink, SaveRaises, history
<1>4. /\ links \subseteq links' /\ told \subseteq told'
      /\ req[r].at = "send" => req[r].copy["mail"] \in links' \cup told'
  BY DEF SendLink, SendResetLink, SaveRaises, history
<1>5. req[r].at = "save" => req[r].copy["id"] # row["id"]
  BY DEF SendLink, SendResetLink, SaveRaises, CanSave
<1>6. KeepsIdentity(r) /\ KeepsSecret(r) /\ KeepsSearch(r) /\ Good(req'[r], row)
  BY <1>2, GoodEnded, EndedIdentity DEF KeepsIdentity, KeepsSecret, KeepsSearch
<1>7. QED
  BY <1>2, <1>3, <1>4, <1>5, <1>6 DEF Quiet, KeepsAddress

LEMMA NewAccounts ==
    ASSUME AccountShapes, NEW r \in Reqs, Register(r) \/ CreateSuperuser(r)
    PROVE  Quiet(r)
<1>1. PICK op, plan :
          /\ op \in {"register", "createSuperuser"} /\ NewAccount(r, op, plan) /\ Sound(op, plan, NewRow(begun + 1))
          /\ "verified" \in plan.own /\ plan.new["verified"]
  <2>1. CASE Register(r)
    <3> DEFINE u == [NewRow(begun + 1) EXCEPT !["verified"] = TRUE]
               plan == Plan(u, {"verified"}, <<{"verified"}>>)
    <3>1. NewAccount(r, "register", plan)
      BY <2>1 DEF Register
    <3>2. IsRow(u) /\ u["verified"] /\ \A c \in Columns \ {"verified"} : u[c] = NewRow(begun + 1)[c]
      BY ColumnSet, ColumnNames
    <3> HIDE DEF u
    <3>3. Sound("register", plan, NewRow(begun + 1)) /\ "verified" \in plan.own /\ plan.new["verified"]
      BY <3>2, ColumnNames DEF Sound, Plan, PlannedSaves, PlannedColumns, Started, FullSaves
    <3> HIDE DEF plan
    <3>4. QED
      BY <3>1, <3>3
  <2>2. CASE CreateSuperuser(r)
    BY <2>2, SuperuserPlan, ColumnNames DEF CreateSuperuser
  <2>3. QED
    BY <2>1, <2>2
<1> DEFINE next == [Started(op, plan) EXCEPT !.at = "insert"]
<1>2. /\ row["id"] = 0 /\ Begin(r, op) /\ Advance(r, next, {})
      /\ UNCHANGED <<row, recs, links, resetLinks, now, mix, said, stale, fails, raced>>
      /\ UNCHANGED history
  BY <1>1 DEF NewAccount
<1>3. req'[r] = next /\ req' = [q \in Reqs |-> req'[q]] /\ Others(r, {})
  BY <1>2, Advanced
<1>4. Good(next, row) /\ next.at = "insert" /\ next.k = begun + 1
  <2> DEFINE s == Started(op, plan)
  <2>1. /\ IsRequest(s) /\ s.op = op /\ s.at = "save" /\ s.k = begun + 1 /\ s.copy = plan.new
        /\ s.dirty = {} /\ s.own = plan.own /\ s.saves = plan.saves
    BY <1>1, StartedIs DEF Sound
  <2>2. PlannedSaves(s) /\ PlannedColumns(s) /\ \A c \in Columns \ plan.own : s.copy[c] = NewRow(s.k)[c]
    BY <1>1, <2>1 DEF Sound
  <2> HIDE DEF s
  <2>3. /\ IsRequest(next) /\ next.at = "insert" /\ next.op = s.op /\ next.k = s.k
        /\ next.copy = s.copy /\ next.own = s.own /\ next.saves = s.saves
    BY <2>1, GoodAt DEF s
  <2> HIDE DEF next
  <2>4. PlannedSaves(next) /\ PlannedColumns(next)
    BY <2>2, <2>3 DEF PlannedSaves, PlannedColumns
  <2>5. QED
    BY <1>1, <2>1, <2>2, <2>3, <2>4 DEF Good, Planned, Holds
<1> HIDE DEF next
<1>5. /\ UNCHANGED <<links, resetup, told, confirmed>>
      /\ begun' = begun + 1 /\ req[r].at = "idle" /\ Creates
  BY <1>1, <1>2 DEF Begin, history, Creates
<1>6. KeepsIdentity(r) /\ KeepsSecret(r) /\ KeepsSearch(r)
  BY <1>2, <1>3, <1>4, <1>5 DEF KeepsIdentity, KeepsSecret, KeepsSearch
<1>7. QED
  BY <1>2, <1>3, <1>4, <1>5, <1>6 DEF Quiet, KeepsAddress

\* The INSERT met an account.
LEMMA InsertRefused ==
    ASSUME AccountShapes, NEW r \in Reqs, Insert(r), row["id"] # 0
    PROVE  Quiet(r)
<1>1. PICK next \in {Ended, Started("ensureSuperuser", EnsureSuperuser(row))} : Advance(r, next, {})
  BY DEF Insert
<1>2. req'[r] = next /\ req' = [q \in Reqs |-> req'[q]] /\ Others(r, {})
  BY <1>1, Advanced
<1>3. /\ UNCHANGED <<row, said, stale, fails, raced, mix, begun, links, resetup, told, confirmed>>
      /\ req[r].at = "insert"
  BY DEF Insert, history
<1>4. Good(next, row)
      /\ ((next.at = "idle" /\ next.copy["id"] = 0)
          \/ (next.at = "save" /\ next.copy["id"] = row["id"] /\ next.op = "ensureSuperuser"))
  <2>1. CASE next = Ended
    <3>1. Good(Ended, row) /\ Ended.at = "idle"
      BY GoodEnded
    <3>2. QED
      BY <2>1, <3>1, EndedIdentity
  <2>2. CASE next = Started("ensureSuperuser", EnsureSuperuser(row))
    <3>1. Sound("ensureSuperuser", EnsureSuperuser(row), row)
      BY SuperuserPlan DEF AccountShapes
    <3>2. IsRow(EnsureSuperuser(row).new) /\ PlannedColumns(next)
          /\ \A c \in Columns \ EnsureSuperuser(row).own : EnsureSuperuser(row).new[c] = row[c]
      BY <2>2, <3>1 DEF Sound
    <3>3. /\ next.at = "save" /\ next.op = "ensureSuperuser" /\ next.copy = EnsureSuperuser(row).new
          /\ next.own = EnsureSuperuser(row).own
      BY <2>2, <3>2, StartedIs
    <3>4. next.copy["id"] = row["id"]
      BY <3>2, <3>3, ColumnNames DEF PlannedColumns
    <3>5. QED
      BY <2>2, <3>1, <3>3, <3>4, GoodStarted
  <2>3. QED
    BY <1>1, <2>1, <2>2
<1>5. KeepsIdentity(r) /\ KeepsSecret(r) /\ KeepsSearch(r)
  BY <1>2, <1>3, <1>4 DEF KeepsIdentity, KeepsSecret, KeepsSearch, Holds
<1>6. QED
  BY <1>2, <1>3, <1>4, <1>5 DEF Quiet, KeepsAddress

-----------------------------------------------------------------------------
(* Logging in. *)

LEMMA Authenticates ==
    ASSUME AccountShapes, CopiesInSight, RequestsArePlanned, NEW r \in Reqs, Authenticate(r)
    PROVE  Quiet(r)
<1>1. /\ req[r].at = "authenticate"
      /\ UNCHANGED <<row, said, stale, fails, raced, mix, begun, links, resetup, told, confirmed>>
  BY DEF Authenticate, history
<1>2. Good(req[r], row)
  BY GoodRequests
<1>3. req[r].op = "login" /\ req[r].own = {} /\ Holds(req[r])
  BY <1>1, <1>2 DEF Good, Planned, Holds
<1> DEFINE old == req[r]
           fresh == [old EXCEPT !.copy = row, !.dirty = {}]
<1>4. PICK next :
        /\ Advance(r, next, {})
        /\ \/ next = [old EXCEPT !.at = "getRecord"]
           \/ next = Ended
           \/ \E at \in {"autoVerify", "clear"} : next = [fresh EXCEPT !.at = at]
  BY DEF Authenticate, At
<1>5. req'[r] = next /\ req' = [q \in Reqs |-> req'[q]] /\ Others(r, {})
  BY <1>4, Advanced
<1>6. IsRow(row) /\ IsRequest(old)
  BY DEF AccountShapes
<1>7. Good(next, row) /\ KeepsIdentity(r) /\ KeepsSecret(r) /\ KeepsSearch(r)
  <2>1. CASE next = [old EXCEPT !.at = "getRecord"]
    <3>1. /\ IsRequest(next) /\ next.at = "getRecord" /\ next.op = old.op /\ next.copy = old.copy
          /\ next.dirty = old.dirty /\ next.own = old.own
      BY <1>6, <2>1, GoodAt
    <3>2. Good(next, row)
      BY <1>2, <1>3, <3>1 DEF Good, Planned, Holds, Sees
    <3>3. KeepsIdentity(r) /\ KeepsSecret(r) /\ KeepsSearch(r)
      BY <1>3, <1>5, <3>1 DEF KeepsIdentity, KeepsSecret, KeepsSearch, Holds
    <3>4. QED
      BY <3>2, <3>3
  <2>2. CASE next = Ended
    <3>1. Good(Ended, row) /\ Ended.at = "idle"
      BY GoodEnded
    <3>2. QED
      BY <1>5, <2>2, <3>1, EndedIdentity DEF KeepsIdentity, KeepsSecret, KeepsSearch
  <2>3. ASSUME NEW at \in {"autoVerify", "clear"}, next = [fresh EXCEPT !.at = at]
        PROVE  Good(next, row) /\ KeepsIdentity(r) /\ KeepsSecret(r) /\ KeepsSearch(r)
    <3>1. old \in [op : {"login"}, at : {old.at}, k : {old.k}, copy : {old.copy}, dirty : {old.dirty},
                   own : {{}}, saves : {old.saves}, record : {old.record}]
      BY <1>3, <1>6 DEF IsRequest
    <3> HIDE DEF old
    <3>2. [old EXCEPT !.copy = row] \in
              [op : {"login"}, at : {old.at}, k : {old.k}, copy : {row}, dirty : {old.dirty},
               own : {{}}, saves : {old.saves}, record : {old.record}]
      BY <3>1
    <3>3. fresh \in [op : {"login"}, at : {old.at}, k : {old.k}, copy : {row}, dirty : {{}},
                     own : {{}}, saves : {old.saves}, record : {old.record}]
      BY <3>2
    <3> HIDE DEF fresh
    <3>4. next \in [op : {"login"}, at : {at}, k : {old.k}, copy : {row}, dirty : {{}},
                    own : {{}}, saves : {old.saves}, record : {old.record}]
      BY <2>3, <3>3
    <3>5. Good(next, row)
      BY <1>6, <3>4 DEF Good, IsRequest, Planned, Holds, Sees
    <3>6. KeepsIdentity(r) /\ KeepsSecret(r) /\ KeepsSearch(r)
      BY <1>5, <3>4 DEF KeepsIdentity, KeepsSecret, KeepsSearch, Holds
    <3>7. QED
      BY <3>5, <3>6
  <2>4. QED
    BY <1>4, <2>1, <2>2, <2>3
<1>8. QED
  BY <1>1, <1>5, <1>7 DEF Quiet, KeepsAddress

LEMMA Clears ==
    ASSUME AccountShapes, CopiesInSight, RequestsArePlanned, NEW r \in Reqs, ClearRecords(r)
    PROVE  Quiet(r)
<1> DEFINE old == req[r]
           saving == [old EXCEPT !.at = "save"]
           next == [saving EXCEPT !.copy = Unlocked(@), !.own = Lock, !.saves = <<Lock>>]
<1>1. /\ old.at = "clear" /\ Advance(r, next, {"record"})
      /\ UNCHANGED <<row, said, stale, fails, raced, mix, begun, links, resetup, told, confirmed>>
  BY DEF ClearRecords, At, history
<1>2. Good(old, row)
  BY GoodRequests
<1>3. old.op = "login" /\ old.own = {} /\ Holds(old) /\ IsRow(old.copy)
  BY <1>1, <1>2 DEF Good, Planned, Holds, IsRequest
<1>4. req'[r] = next /\ req' = [q \in Reqs |-> req'[q]] /\ Others(r, {"record"})
  BY <1>1, Advanced
<1>5. next \in [op : {"login"}, at : {"save"}, k : {old.k}, copy : {Unlocked(old.copy)},
                dirty : {old.dirty}, own : {Lock}, saves : {<<Lock>>}, record : {old.record}]
  <2>1. old \in [op : {"login"}, at : {old.at}, k : {old.k}, copy : {old.copy}, dirty : {old.dirty},
                 own : {{}}, saves : {old.saves}, record : {old.record}]
    BY <1>2, <1>3 DEF Good, IsRequest
  <2> HIDE DEF old
  <2>2. saving \in [op : {"login"}, at : {"save"}, k : {old.k}, copy : {old.copy}, dirty : {old.dirty},
                    own : {{}}, saves : {old.saves}, record : {old.record}]
    BY <2>1
  <2> HIDE DEF saving
  <2> DEFINE s1 == [saving EXCEPT !.copy = Unlocked(@)]
             s2 == [s1 EXCEPT !.own = Lock]
  <2>3. s1 \in [op : {"login"}, at : {"save"}, k : {old.k}, copy : {Unlocked(old.copy)},
                dirty : {old.dirty}, own : {{}}, saves : {old.saves}, record : {old.record}]
    BY <2>2
  <2>4. next = [s2 EXCEPT !.saves = <<Lock>>]
    OBVIOUS
  <2> HIDE DEF s1, next
  <2>5. s2 \in [op : {"login"}, at : {"save"}, k : {old.k}, copy : {Unlocked(old.copy)},
                dirty : {old.dirty}, own : {Lock}, saves : {old.saves}, record : {old.record}]
    BY <2>3
  <2> HIDE DEF s2
  <2>6. QED
    BY <2>4, <2>5
<1> HIDE DEF next
<1>6. IsRow(Unlocked(old.copy)) /\ Unlocked(old.copy)["failed"] = 0
      /\ \A c \in Columns \ Lock : Unlocked(old.copy)[c] = old.copy[c]
  BY <1>3, UnlockedRow
<1> HIDE DEF old, saving
<1>7. PlannedSaves(next) /\ PlannedColumns(next)
  BY <1>5, <1>6, ColumnNames DEF PlannedSaves, PlannedColumns, FullSaves, Lock
<1>8. Good(next, row)
  BY <1>2, <1>3, <1>5, <1>6, <1>7 DEF Good, IsRequest, Planned, Holds, Sees
<1>9. KeepsIdentity(r) /\ KeepsSecret(r) /\ KeepsSearch(r)
  BY <1>3, <1>4, <1>5, <1>6, ColumnNames DEF KeepsIdentity, KeepsSecret, KeepsSearch, Holds, old
<1>10. QED
  BY <1>1, <1>4, <1>8, <1>9 DEF Quiet, KeepsAddress, old

\* The failure records.
LEMMA RecordSteps ==
    ASSUME AccountShapes, CopiesInSight, RequestsArePlanned, NEW r \in Reqs,
           GetRecord(r) \/ CreateRecord(r) \/ CountRecord(r)
    PROVE  Quiet(r)
<1> DEFINE old == req[r]
<1>1. /\ UNCHANGED <<row, said, stale, fails, raced, mix, begun, links, resetup, told, confirmed>>
      /\ old.at \in {"getRecord", "createRecord", "countRecord"}
  BY DEF GetRecord, CreateRecord, CountRecord
<1>2. PICK next, changed :
        /\ Advance(r, next, changed) /\ changed \in {{}, {"record"}}
        /\ \/ next = Ended
           \/ \E at \in {"createRecord", "countRecord"}, record \in {FirstRecord, [id |-> req[r].k, n |-> 0, until |-> 0]} :
                /\ next = [[old EXCEPT !.at = at] EXCEPT !.record = record, !.dirty = @ \ {"record"}]
                /\ at = "createRecord" => GetRecord(r)
           \/ next = [old EXCEPT !.at = "countFailure"]
  <2>1. CASE GetRecord(r)
    <3>1. GetOrCreate(recs) \in {"createRecord", "countRecord", "raise"}
      BY DEF GetOrCreate
    <3>2. QED
      BY <2>1, <3>1 DEF GetRecord, At
  <2>2. CASE CreateRecord(r)
    BY <2>2 DEF CreateRecord, At
  <2>3. CASE CountRecord(r)
    BY <2>3 DEF CountRecord, At
  <2>4. QED
    BY <2>1, <2>2, <2>3
<1>3. Good(old, row)
  BY GoodRequests
<1>4. old.own = {} /\ Holds(old)
  BY <1>1, <1>3 DEF Good, Planned, Holds
<1>5. req'[r] = next /\ req' = [q \in Reqs |-> req'[q]] /\ Others(r, changed)
  BY <1>2, Advanced
<1>6. old \in [op : {old.op}, at : {old.at}, k : {old.k}, copy : {old.copy}, dirty : {old.dirty},
               own : {{}}, saves : {old.saves}, record : {old.record}]
  BY <1>3, <1>4 DEF Good, IsRequest
<1>7. ASSUME NEW at \in {"createRecord", "countRecord", "countFailure"}, NEW record, NEW dirty,
             old.dirty \cap Columns \subseteq dirty, at = "createRecord" => GetRecord(r),
             next \in [op : {old.op}, at : {at}, k : {old.k}, copy : {old.copy}, dirty : {dirty},
                       own : {{}}, saves : {old.saves}, record : {record}]
      PROVE  Good(next, row) /\ KeepsIdentity(r) /\ KeepsSecret(r) /\ KeepsSearch(r)
  <2>1. Good(next, row)
    BY <1>3, <1>4, <1>7 DEF Good, IsRequest, Planned, Holds, Sees
  <2>2. KeepsIdentity(r) /\ KeepsSecret(r) /\ KeepsSearch(r)
    BY <1>4, <1>5, <1>7 DEF KeepsIdentity, KeepsSecret, KeepsSearch, Holds
  <2>3. QED
    BY <2>1, <2>2
<1>8. Good(next, row) /\ KeepsIdentity(r) /\ KeepsSecret(r) /\ KeepsSearch(r)
  <2>1. CASE next = Ended
    <3>1. Good(Ended, row) /\ Ended.at = "idle"
      BY GoodEnded
    <3>2. QED
      BY <1>5, <2>1, <3>1, EndedIdentity DEF KeepsIdentity, KeepsSecret, KeepsSearch
  <2> HIDE DEF old
  <2>2. ASSUME NEW at \in {"createRecord", "countRecord"}, NEW record,
               next = [[old EXCEPT !.at = at] EXCEPT !.record = record, !.dirty = @ \ {"record"}],
               at = "createRecord" => GetRecord(r)
        PROVE  Good(next, row) /\ KeepsIdentity(r) /\ KeepsSecret(r) /\ KeepsSearch(r)
    <3> DEFINE s1 == [old EXCEPT !.at = at]
               s2 == [s1 EXCEPT !.record = record]
    <3>1. s1 \in [op : {old.op}, at : {at}, k : {old.k}, copy : {old.copy}, dirty : {old.dirty},
                  own : {{}}, saves : {old.saves}, record : {old.record}]
      BY <1>6
    <3>2. next = [s2 EXCEPT !.dirty = @ \ {"record"}]
      BY <2>2
    <3> HIDE DEF s1
    <3>3. s2 \in [op : {old.op}, at : {at}, k : {old.k}, copy : {old.copy}, dirty : {old.dirty},
                  own : {{}}, saves : {old.saves}, record : {record}]
      BY <3>1
    <3> HIDE DEF s2
    <3>4. next \in [op : {old.op}, at : {at}, k : {old.k}, copy : {old.copy},
                    dirty : {old.dirty \ {"record"}},
                    own : {{}}, saves : {old.saves}, record : {record}]
      BY <3>2, <3>3
    <3>5. old.dirty \cap Columns \subseteq old.dirty \ {"record"}
      BY ColumnNames
    <3>6. QED
      BY <1>7, <2>2, <3>4, <3>5
  <2>3. CASE next = [old EXCEPT !.at = "countFailure"]
    <3>1. next \in [op : {old.op}, at : {"countFailure"}, k : {old.k}, copy : {old.copy}, dirty : {old.dirty},
                  own : {{}}, saves : {old.saves}, record : {old.record}]
      BY <1>6, <2>3
    <3>2. QED
      BY <1>7, <3>1
  <2>4. QED
    BY <1>2, <2>1, <2>2, <2>3
<1>9. QED
  BY <1>1, <1>2, <1>5, <1>8 DEF Quiet, KeepsAddress

-----------------------------------------------------------------------------
\* Bystanders stay good when they lose sight of the columns that change.
LEMMA Bystander ==
    ASSUME NEW q, NEW p, NEW changed, NEW u, NEW w, Good(q, u), LosesSight(q, p, changed),
           \A c \in Columns \ changed : w[c] = u[c]
    PROVE  Good(p, w)
<1>1. IsRequest(p) /\ Planned(p)
  BY DEF Good, LosesSight, Planned, PlannedSaves, PlannedColumns
<1>2. ASSUME Holds(p), NEW c \in Columns \ (p.dirty \cup p.own)
      PROVE  p.copy[c] = w[c]
  <2>1. Holds(q) /\ q.at # "idle" /\ p.dirty = q.dirty \cup changed /\ p.own = q.own /\ p.copy = q.copy
    BY <1>2 DEF Holds, LosesSight
  <2>2. q.copy[c] = u[c] /\ w[c] = u[c]
    BY <1>2, <2>1 DEF Good, Sees
  <2>3. QED
    BY <2>1, <2>2
<1>3. QED
  BY <1>1, <1>2 DEF Good, Sees

\* What the requests rely on, after a step of one of them.
Reliance == AccountShapes /\ CopiesInSight /\ RequestsArePlanned

LEMMA Frame ==
    ASSUME Reliance, NEW r \in Reqs, NEW changed, req' = [q \in Reqs |-> req'[q]],
           Others(r, changed), \A c \in Columns \ changed : row'[c] = row[c],
           Good(req'[r], row'), IsRow(row'), IsRow(said')
    PROVE  Reliance'
<1>1. ASSUME NEW q \in Reqs
      PROVE  Good(req'[q], row')
  <2>1. CASE q = r
    BY <2>1
  <2>2. CASE q # r
    <3>1. Good(req[q], row) /\ LosesSight(req[q], req'[q], changed)
      BY <2>2, GoodRequests DEF Others, Reliance
    <3>2. QED
      BY <3>1, Bystander
  <2>3. QED
    BY <2>1, <2>2
<1>2. QED
  BY <1>1 DEF Good, Reliance, AccountShapes, CopiesInSight, RequestsArePlanned

\* Every writer leaves each column as the operation about it said, or as it
\* was, or marks it.
Accounted ==
    \A c \in Columns :
        \/ row'[c] = said'[c]
        \/ said'[c] = said[c] /\ (c \notin stale' => c \notin stale /\ row'[c] = row[c])

LEMMA LastWordStep == LastWordHolds /\ Accounted => LastWordHolds'
BY DEF LastWordHolds, Accounted

LEMMA QuietKeeps ==
    ASSUME Reliance, LastWordHolds, CountKnown, NEW r \in Reqs, Quiet(r)
    PROVE  (Reliance /\ LastWordHolds /\ CountKnown)'
<1>1. UNCHANGED <<row, said, stale, fails, raced>> /\ req' = [q \in Reqs |-> req'[q]] /\ Good(req'[r], row)
  BY DEF Quiet
<1>2. PICK changed : Others(r, changed)
  BY DEF Quiet
<1>3. Good(req'[r], row')
  BY <1>1
<1>4. IsRow(row') /\ IsRow(said')
  BY <1>1 DEF Reliance, AccountShapes
<1>5. Reliance'
  BY <1>1, <1>2, <1>3, <1>4, Frame
<1>6. QED
  BY <1>1, <1>5 DEF LastWordHolds, CountKnown

-----------------------------------------------------------------------------
(* Saving. *)

\* What a save writes, and what it leaves the request.
LEMMA SaveKinds ==
    ASSUME Reliance, NEW r \in Reqs, req[r].at = "save"
    PROVE  LET q    == req[r]
               cols == Head(q.saves)
           IN  /\ cols \subseteq Columns /\ PlannedColumns(q)
               /\ \/ cols = Columns /\ q.op \in FullSaves /\ Len(q.saves) = 1
                  \/ /\ cols = Lock /\ q.op \in FullSaves /\ cols \subseteq q.own
                     /\ Len(q.saves) = 2 /\ Tail(q.saves) = <<Columns>>
                  \/ cols = q.own /\ q.op \notin FullSaves /\ Len(q.saves) = 1
<1>1. PlannedSaves(req[r]) /\ PlannedColumns(req[r])
  BY DEF Reliance, RequestsArePlanned, Planned
<1>2. req[r].own \subseteq Columns /\ Lock \subseteq Columns
  BY <1>1, ColumnNames DEF PlannedColumns
<1>3. CASE req[r].saves = <<Columns>> /\ req[r].op \in FullSaves
  BY <1>1, <1>3
<1>4. CASE req[r].saves = <<Lock, Columns>> /\ Lock \subseteq req[r].own /\ req[r].op \in FullSaves
  BY <1>1, <1>2, <1>4
<1>5. CASE req[r].saves = <<req[r].own>> /\ req[r].op \notin FullSaves
  BY <1>1, <1>2, <1>5
<1>6. QED
  BY <1>1, <1>3, <1>4, <1>5 DEF PlannedSaves

\* The columns after a save.
LEMMA SaveColumns ==
    ASSUME Reliance, NEW r \in Reqs, Save(r)
    PROVE  LET q    == req[r]
               cols == Head(q.saves)
           IN  /\ IsRow(row') /\ IsRow(said')
               /\ \A c \in Columns : row'[c] = IF c \in cols THEN q.copy[c] ELSE row[c]
               /\ \A c \in q.own \cap cols : said'[c] = q.copy[c] /\ c \notin (stale' \ q.dirty)
               /\ \A c \in Columns \ (q.own \cap cols) :
                    /\ said'[c] = said[c]
                    /\ c \notin stale' => c \notin stale /\ row'[c] = row[c]
                    /\ q.op \in FullSaves /\ c \in q.dirty => c \in stale'
<1> DEFINE q == req[r]
           cols == Head(q.saves)
<1>1. req[r].at = "save" /\ Holds(q)
  BY DEF Save, Holds
<1>2. /\ cols \subseteq Columns
      /\ q.op \in FullSaves \/ cols \subseteq q.own
  BY <1>1, SaveKinds
<1>3. Sees(q, row)
  BY <1>1 DEF Reliance, CopiesInSight
<1>4. /\ row' = [c \in Columns |-> IF c \in cols THEN q.copy[c] ELSE row[c]]
      /\ said' = [c \in Columns |-> IF c \in q.own \cap cols THEN q.copy[c] ELSE said[c]]
      /\ stale' = (stale \ (q.own \cap cols)) \cup
            (IF q.op \in FullSaves THEN (q.dirty \cap Columns) \ (q.own \cap cols) ELSE {})
  BY DEF Save, WriteRow
<1>5. IsRow(row') /\ IsRow(said')
  BY <1>4 DEF IsRow
<1>6. \A c \in Columns : row'[c] = IF c \in cols THEN q.copy[c] ELSE row[c]
  BY <1>4
<1>7. q.own \subseteq Columns
  BY <1>1, SaveKinds DEF PlannedColumns
<1>8. \A c \in q.own \cap cols : said'[c] = q.copy[c] /\ c \notin (stale' \ q.dirty)
  BY <1>4, <1>7
<1>9. ASSUME NEW c \in Columns \ (q.own \cap cols)
      PROVE  /\ said'[c] = said[c] /\ (c \notin stale' => c \notin stale /\ row'[c] = row[c])
             /\ q.op \in FullSaves /\ c \in q.dirty => c \in stale'
  BY <1>2, <1>3, <1>4, <1>6 DEF Sees
<1>10. QED
  BY <1>5, <1>6, <1>8, <1>9

LEMMA SaveRelies ==
    ASSUME Reliance, NEW r \in Reqs, Save(r)
    PROVE  /\ Reliance' /\ Others(r, Differ(row, row')) /\ req' = [q \in Reqs |-> req'[q]]
           /\ \/ req'[r].at = "idle" /\ req'[r].copy["id"] = 0
              \/ /\ req'[r].at \in {"save", "send"} /\ req'[r].copy = req[r].copy
                 /\ req'[r].op = req[r].op /\ req'[r].own = req[r].own
                 /\ req'[r].at = "save" => req[r].op \in FullSaves
           /\ (req[r].op = "changeEmail" /\ NeedsVerification(req[r].copy)) =>
                req'[r].at = "send" /\ req'[r].copy = req[r].copy
           /\ Len(req[r].saves) # 1 =>
                req'[r].at = "save" /\ req'[r].copy = req[r].copy /\ req'[r].own = req[r].own
           /\ UNCHANGED <<mix, begun, confirmed, links, recs, twinned, uncounted>> /\ told \subseteq told'
<1> DEFINE q    == req[r]
           cols == Head(q.saves)
           nx   == IF Len(q.saves) = 1 THEN AfterSaves(r) ELSE [q EXCEPT !.saves = Tail(@)]
           next == [nx EXCEPT !.dirty = @ \ cols]
<1>1. q.at = "save" /\ Holds(q)
  BY DEF Save, Holds
<1>2. Advance(r, next, Differ(row, row'))
  BY DEF Save, WriteRow
<1>3. AccountShapes
  BY DEF Reliance
<1>4. req'[r] = next /\ req' = [x \in Reqs |-> req'[x]] /\ Others(r, Differ(row, row'))
  BY <1>2, <1>3, Advanced
<1>5. \A c \in Columns \ Differ(row, row') : row'[c] = row[c]
  BY DEF Differ
<1>6. IsRow(row') /\ IsRow(said') /\ \A c \in Columns : row'[c] = IF c \in cols THEN q.copy[c] ELSE row[c]
  BY SaveColumns
<1>7. Sees(q, row) /\ IsRequest(q)
  BY <1>1 DEF Reliance, CopiesInSight, AccountShapes
<1>8. q \in [op : {q.op}, at : {q.at}, k : {q.k}, copy : {q.copy}, dirty : {q.dirty},
             own : {q.own}, saves : {q.saves}, record : {q.record}]
  BY <1>7 DEF IsRequest
<1>9. /\ Good(next, row')
      /\ \/ next.at = "idle" /\ next.copy["id"] = 0
         \/ /\ next.at \in {"save", "send"} /\ next.copy = q.copy /\ next.op = q.op /\ next.own = q.own
            /\ next.at = "save" => q.op \in FullSaves
      /\ (q.op = "changeEmail" /\ NeedsVerification(q.copy)) => next.at = "send" /\ next.copy = q.copy
      /\ Len(q.saves) # 1 => next.at = "save" /\ next.copy = q.copy /\ next.own = q.own
  <2>1. CASE Len(q.saves) = 1 /\ ~(q.op = "changeEmail" /\ NeedsVerification(q.copy))
    <3>1. nx = Ended
      BY <2>1 DEF AfterSaves
    <3>2. /\ IsRequest(Ended) /\ Ended.at = "idle" /\ Planned(Ended)
      BY GoodEnded DEF Good
    <3> HIDE DEF nx
    <3>3. next \in [op : {Ended.op}, at : {Ended.at}, k : {Ended.k}, copy : {Ended.copy},
                    dirty : {Ended.dirty \ cols}, own : {Ended.own}, saves : {Ended.saves},
                    record : {Ended.record}]
      BY <3>1, <3>2 DEF IsRequest
    <3> HIDE DEF next
    <3>4. Good(next, row')
      BY <3>2, <3>3 DEF Good, IsRequest, Planned, Holds
    <3>5. QED
      BY <2>1, <3>2, <3>3, <3>4, EndedIdentity
  <2>2. CASE Len(q.saves) = 1 /\ q.op = "changeEmail" /\ NeedsVerification(q.copy)
    <3>1. nx = [q EXCEPT !.at = "send", !.saves = <<>>]
      BY <2>2 DEF AfterSaves
    <3>2. cols = q.own
      BY <1>1, <2>2, SaveKinds DEF FullSaves
    <3> HIDE DEF q
    <3> DEFINE s1 == [q EXCEPT !.at = "send"]
    <3>3. s1 \in [op : {q.op}, at : {"send"}, k : {q.k}, copy : {q.copy}, dirty : {q.dirty},
                  own : {q.own}, saves : {q.saves}, record : {q.record}]
      BY <1>8
    <3>4. nx = [s1 EXCEPT !.saves = <<>>]
      BY <3>1
    <3> HIDE DEF s1, nx
    <3>5. nx \in [op : {q.op}, at : {"send"}, k : {q.k}, copy : {q.copy}, dirty : {q.dirty},
                  own : {q.own}, saves : {<<>>}, record : {q.record}]
      BY <3>3, <3>4
    <3>6. next \in [op : {q.op}, at : {"send"}, k : {q.k}, copy : {q.copy}, dirty : {q.dirty \ cols},
                    own : {q.own}, saves : {<<>>}, record : {q.record}]
      BY <3>5
    <3> HIDE DEF next, cols
    <3>7. IsRow(q.copy)
      BY <1>7 DEF IsRequest
    <3>8. Good(next, row')
      BY <1>6, <1>7, <3>2, <3>6, <3>7 DEF Good, IsRequest, Planned, Holds, Sees
    <3>9. QED
      BY <2>2, <3>6, <3>8
  <2>3. CASE Len(q.saves) # 1
    <3>1. /\ cols = Lock /\ q.op \in FullSaves /\ cols \subseteq q.own /\ Tail(q.saves) = <<Columns>>
          /\ PlannedColumns(q)
      BY <1>1, <2>3, SaveKinds
    <3>2. nx = [q EXCEPT !.saves = Tail(@)]
      BY <2>3
    <3> HIDE DEF q
    <3> HIDE DEF nx
    <3>3. nx \in [op : {q.op}, at : {q.at}, k : {q.k}, copy : {q.copy}, dirty : {q.dirty},
                  own : {q.own}, saves : {<<Columns>>}, record : {q.record}]
      BY <1>8, <3>1, <3>2
    <3>4. next \in [op : {q.op}, at : {q.at}, k : {q.k}, copy : {q.copy}, dirty : {q.dirty \ cols},
                    own : {q.own}, saves : {<<Columns>>}, record : {q.record}]
      BY <3>3
    <3> HIDE DEF next, cols
    <3>5. IsRow(q.copy)
      BY <1>7 DEF IsRequest
    <3>6. PlannedSaves(next) /\ PlannedColumns(next)
      BY <3>1, <3>4 DEF PlannedSaves, PlannedColumns
    <3>7. Sees(next, row')
      BY <1>6, <1>7, <3>1, <3>4 DEF Sees
    <3>8. Good(next, row')
      BY <1>1, <3>4, <3>5, <3>6, <3>7 DEF Good, IsRequest, Planned
    <3>9. "changeEmail" \notin FullSaves
      BY DEF FullSaves
    <3>10. QED
      BY <1>1, <3>1, <3>4, <3>8, <3>9
  <2>4. QED
    BY <2>1, <2>2, <2>3
<1> HIDE DEF next
<1>10. Reliance'
  BY <1>4, <1>5, <1>6, <1>9, Frame
<1>11. UNCHANGED <<mix, begun, confirmed, links, recs, twinned, uncounted>> /\ told \subseteq told'
  BY DEF Save
<1>12. QED
  BY <1>4, <1>9, <1>10, <1>11

-----------------------------------------------------------------------------
(* The other steps that write the user row. *)

LEMMA SaveCounts ==
    ASSUME Reliance, CountKnown, NEW r \in Reqs, Save(r)
    PROVE  Accounted /\ CountKnown'
<1> DEFINE q    == req[r]
           cols == Head(q.saves)
<1>1. q.at = "save" /\ Holds(q) /\ Recount(r, cols)
  BY DEF Save, Holds
<1>2. Accounted
  <2>1. ASSUME NEW c \in Columns
        PROVE  \/ row'[c] = said'[c]
               \/ said'[c] = said[c] /\ (c \notin stale' => c \notin stale /\ row'[c] = row[c])
    BY SaveColumns
  <2>2. QED
    BY <2>1 DEF Accounted
<1>3. /\ cols \subseteq Columns /\ PlannedColumns(q)
      /\ q.op \in FullSaves \/ cols \subseteq q.own
  BY <1>1, SaveKinds
<1>4. row'["failed"] = IF "failed" \in cols THEN q.copy["failed"] ELSE row["failed"]
  BY SaveColumns, ColumnNames
<1>5. Sees(q, row)
  BY <1>1 DEF Reliance, CopiesInSight
<1>6. CASE "failed" \notin cols
  BY <1>1, <1>2, <1>4, <1>6 DEF Recount, CountKnown
<1>7. CASE "failed" \in cols /\ "failed" \in q.own
  <2>1. fails' = 0 /\ q.copy["failed"] = 0
    BY <1>1, <1>3, <1>7 DEF Recount, PlannedColumns
  <2>2. QED
    BY <1>2, <1>4, <1>7, <2>1 DEF CountKnown
<1>8. CASE "failed" \in cols /\ "failed" \notin q.own
  <2>1. raced' = (raced \/ "failed" \in q.dirty) /\ fails' = fails
    BY <1>1, <1>8 DEF Recount
  <2>2. "failed" \notin q.dirty => q.copy["failed"] = row["failed"]
    BY <1>5, <1>8, ColumnNames DEF Sees
  <2>3. QED
    BY <1>2, <1>4, <1>8, <2>1, <2>2 DEF CountKnown
<1>9. QED
  BY <1>2, <1>6, <1>7, <1>8

LEMMA Deletes ==
    ASSUME Reliance, CountKnown, NEW r \in Reqs, DeleteRow(r)
    PROVE  /\ Reliance' /\ Accounted /\ CountKnown'
           /\ Others(r, Differ(row, row')) /\ req' = [q \in Reqs |-> req'[q]]
           /\ req'[r].at = "idle" /\ req'[r].copy["id"] = 0
           /\ row'["id"] \in {0, row["id"]} /\ \A c \in Columns \ {"id"} : row'[c] = row[c]
           /\ stale \ {"id"} \subseteq stale'
           /\ UNCHANGED <<mix, resetup, confirmed, links, told, begun>>
           /\ row'["id"] # 0 => row'["id"] = row["id"] /\ stale' = stale
<1> DEFINE gone == IF row["id"] = req[r].copy["id"] THEN [row EXCEPT !["id"] = 0] ELSE row
<1>1. /\ row' = gone /\ said' = [said EXCEPT !["id"] = gone["id"]]
      /\ stale' = IF gone = row THEN stale ELSE stale \ {"id"}
      /\ Advance(r, Ended, Differ(row, gone))
      /\ UNCHANGED <<fails, raced, mix, resetup, confirmed, links, told, begun>>
  BY DEF DeleteRow, history
<1>2. IsRow(row) /\ IsRow(said) /\ AccountShapes
  BY DEF Reliance, AccountShapes
<1>3. /\ IsRow(gone) /\ gone["id"] \in {0, row["id"]} /\ \A c \in Columns \ {"id"} : gone[c] = row[c]
      /\ gone["id"] # 0 => gone = row
  BY <1>2, ColumnSet, ColumnNames
<1> HIDE DEF gone
<1>4. /\ IsRow(said') /\ said'["id"] = gone["id"] /\ \A c \in Columns \ {"id"} : said'[c] = said[c]
  <2>1. PICK i : i = gone["id"]
    OBVIOUS
  <2>2. /\ IsRow([said EXCEPT !["id"] = i]) /\ [said EXCEPT !["id"] = i]["id"] = i
        /\ \A c \in Columns \ {"id"} : [said EXCEPT !["id"] = i][c] = said[c]
    BY <1>2, ColumnSet, ColumnNames
  <2>3. said' = [said EXCEPT !["id"] = i]
    BY <1>1, <2>1
  <2>4. QED
    BY <2>1, <2>2, <2>3
<1>5. req'[r] = Ended /\ req' = [q \in Reqs |-> req'[q]] /\ Others(r, Differ(row, row'))
  BY <1>1, <1>2, Advanced
<1>6. Good(req'[r], row') /\ req'[r].at = "idle" /\ req'[r].copy["id"] = 0
  <2>1. Good(Ended, row') /\ Ended.at = "idle"
    BY GoodEnded
  <2>2. QED
    BY <1>5, <2>1, EndedIdentity
<1>7. \A c \in Columns \ Differ(row, row') : row'[c] = row[c]
  BY DEF Differ
<1>8. Reliance'
  BY <1>1, <1>3, <1>4, <1>5, <1>6, <1>7, Frame
<1>9. Accounted
  BY <1>1, <1>3, <1>4 DEF Accounted
<1>10. CountKnown'
  BY <1>1, <1>3, ColumnNames DEF CountKnown
<1>11. QED
  BY <1>1, <1>3, <1>5, <1>6, <1>8, <1>9, <1>10

LEMMA Inserts ==
    ASSUME Reliance, NEW r \in Reqs, Insert(r), row["id"] = 0
    PROVE  /\ Reliance' /\ Accounted /\ CountKnown'
           /\ Others(r, Columns) /\ req' = [q \in Reqs |-> req'[q]]
           /\ row' = NewRow(req[r].k) /\ stale' = {}
           /\ req[r].at = "insert" /\ req'[r].at = "save" /\ req'[r].copy = req[r].copy
           /\ req'[r].op = req[r].op /\ req'[r].own = req[r].own
           /\ UNCHANGED <<mix, resetup, confirmed, links, told, begun>>
<1> DEFINE q    == req[r]
           next == [q EXCEPT !.at = "save", !.dirty = {}]
           new  == NewRow(q.k)
<1>1. /\ row' = new /\ said' = new /\ stale' = {} /\ fails' = 0 /\ raced' = FALSE
      /\ q.at = "insert" /\ Advance(r, next, Columns)
      /\ UNCHANGED <<mix, resetup, confirmed, links, told, begun>>
  BY DEF Insert, history
<1>2. IsRow(new) /\ new["failed"] = 0 /\ AccountShapes
  BY ColumnNames DEF Reliance, NewRow
<1>3. req'[r] = next /\ req' = [x \in Reqs |-> req'[x]] /\ Others(r, Columns)
  BY <1>1, <1>2, Advanced
<1>4. /\ IsRequest(q) /\ PlannedSaves(q) /\ PlannedColumns(q)
      /\ \A c \in Columns \ q.own : q.copy[c] = new[c]
  BY <1>1 DEF Reliance, AccountShapes, RequestsArePlanned, Planned
<1>5. next \in [op : {q.op}, at : {"save"}, k : {q.k}, copy : {q.copy}, dirty : {{}},
                own : {q.own}, saves : {q.saves}, record : {q.record}]
  <2>1. q \in [op : {q.op}, at : {q.at}, k : {q.k}, copy : {q.copy}, dirty : {q.dirty},
               own : {q.own}, saves : {q.saves}, record : {q.record}]
    BY <1>4 DEF IsRequest
  <2> HIDE DEF q
  <2> DEFINE s == [q EXCEPT !.at = "save"]
  <2>2. s \in [op : {q.op}, at : {"save"}, k : {q.k}, copy : {q.copy}, dirty : {q.dirty},
               own : {q.own}, saves : {q.saves}, record : {q.record}]
    BY <2>1
  <2>3. next = [s EXCEPT !.dirty = {}]
    OBVIOUS
  <2> HIDE DEF s, next
  <2>4. QED
    BY <2>2, <2>3
<1> HIDE DEF next, new
<1>6. Good(next, new)
  BY <1>4, <1>5 DEF Good, IsRequest, Planned, PlannedSaves, PlannedColumns, Sees
<1>7. Reliance'
  BY <1>1, <1>2, <1>3, <1>6, Frame
<1>8. Accounted /\ CountKnown'
  BY <1>1, <1>2 DEF Accounted, CountKnown
<1>9. QED
  BY <1>1, <1>3, <1>5, <1>7, <1>8 DEF new

LEMMA AutoVerifies ==
    ASSUME Reliance, CountKnown, NEW r \in Reqs, AutoVerify(r)
    PROVE  /\ Reliance' /\ Accounted /\ CountKnown'
           /\ Others(r, Differ(row, row')) /\ req' = [q \in Reqs |-> req'[q]]
           /\ \A c \in Columns \ {"verified"} : row'[c] = row[c]
           /\ stale \ {"verified"} \subseteq stale'
           /\ \/ req'[r].at = "idle" /\ req'[r].copy["id"] = 0
              \/ /\ Holds(req'[r]) /\ req'[r].copy["id"] = row["id"] /\ req'[r].at = "clear"
           /\ row'["verified"] \/ (row'["verified"] = row["verified"] /\ stale' = stale)
           /\ req[r].at = "autoVerify"
           /\ UNCHANGED <<mix, resetup, confirmed, links, told, begun>>
<1> DEFINE q   == req[r]
           u   == [q.copy EXCEPT !["verified"] = TRUE]
           own == [q EXCEPT !.copy = u]
           new == [row EXCEPT !["verified"] = TRUE]
<1>1. q.at = "autoVerify" /\ UNCHANGED <<fails, raced, mix, resetup, confirmed, links, told, begun>>
  BY DEF AutoVerify, history
<1>2. IsRow(row) /\ IsRow(said) /\ AccountShapes /\ IsRequest(q) /\ IsRow(q.copy)
  BY DEF Reliance, AccountShapes, IsRequest
<1>3. q.op = "login" /\ q.own = {} /\ Holds(q) /\ Sees(q, row)
  BY <1>1 DEF Reliance, RequestsArePlanned, CopiesInSight, Planned, Holds
<1>4. IsRow(u) /\ u["verified"] = TRUE /\ \A c \in Columns \ {"verified"} : u[c] = q.copy[c]
  BY <1>2, ColumnSet, ColumnNames
<1>5. IsRow(new) /\ new["verified"] = TRUE /\ \A c \in Columns \ {"verified"} : new[c] = row[c]
  BY <1>2, ColumnSet, ColumnNames
<1>6. q \in [op : {q.op}, at : {q.at}, k : {q.k}, copy : {q.copy}, dirty : {q.dirty},
             own : {{}}, saves : {q.saves}, record : {q.record}]
  BY <1>2, <1>3 DEF IsRequest
<1>7. own \in [op : {q.op}, at : {q.at}, k : {q.k}, copy : {u}, dirty : {q.dirty},
               own : {{}}, saves : {q.saves}, record : {q.record}]
  <2> HIDE DEF u, q
  <2>1. QED
    BY <1>6
<1>8. \A c \in Columns \ Differ(row, row') : row'[c] = row[c]
  BY DEF Differ
<1>9. CASE row["id"] = own.copy["id"]
  <2> DEFINE next == IF own.copy["twofa"] \/ ~CanLogin(own.copy) THEN Ended
                     ELSE [own EXCEPT !.at = "clear", !.dirty = @ \ {"verified"}]
  <2>1. /\ row' = new /\ said' = [said EXCEPT !["verified"] = TRUE] /\ stale' = stale \ {"verified"}
        /\ Advance(r, next, Differ(row, new))
    BY <1>9 DEF AutoVerify
  <2>2. IsRow(said') /\ said'["verified"] = TRUE /\ \A c \in Columns \ {"verified"} : said'[c] = said[c]
    <3>1. /\ IsRow([said EXCEPT !["verified"] = TRUE]) /\ [said EXCEPT !["verified"] = TRUE]["verified"] = TRUE
          /\ \A c \in Columns \ {"verified"} : [said EXCEPT !["verified"] = TRUE][c] = said[c]
      BY <1>2, ColumnSet, ColumnNames
    <3>2. QED
      BY <2>1, <3>1
  <2>3. req'[r] = next /\ req' = [x \in Reqs |-> req'[x]] /\ Others(r, Differ(row, row'))
    BY <1>2, <2>1, Advanced
  <2>4. /\ Good(next, row')
        /\ \/ next.at = "idle" /\ next.copy["id"] = 0
           \/ Holds(next) /\ next.copy["id"] = row["id"] /\ next.at = "clear"
    <3>1. CASE next = Ended
      <4>1. Good(Ended, row') /\ Ended.at = "idle"
        BY GoodEnded
      <4>2. QED
        BY <3>1, <4>1, EndedIdentity
    <3>2. CASE next = [own EXCEPT !.at = "clear", !.dirty = @ \ {"verified"}]
      <4> HIDE DEF own, u, q, new
      <4> DEFINE s == [own EXCEPT !.at = "clear"]
      <4>1. s \in [op : {q.op}, at : {"clear"}, k : {q.k}, copy : {u}, dirty : {q.dirty},
                   own : {{}}, saves : {q.saves}, record : {q.record}]
        BY <1>7
      <4>2. next = [s EXCEPT !.dirty = @ \ {"verified"}]
        BY <3>2
      <4> HIDE DEF s, next
      <4>3. next \in [op : {q.op}, at : {"clear"}, k : {q.k}, copy : {u}, dirty : {q.dirty \ {"verified"}},
                      own : {{}}, saves : {q.saves}, record : {q.record}]
        BY <4>1, <4>2
      <4>4. Sees(next, new)
        <5>1. SUFFICES ASSUME NEW c \in Columns \ (next.dirty \cup next.own)
                       PROVE  next.copy[c] = new[c]
          BY DEF Sees
        <5>2. next.copy = u /\ (c = "verified" \/ c \in Columns \ (q.dirty \cup q.own))
          BY <1>3, <4>3, <5>1
        <5>3. CASE c = "verified"
          BY <1>4, <1>5, <5>2, <5>3
        <5>4. CASE c # "verified" /\ c \in Columns \ (q.dirty \cup q.own)
          <6>1. q.copy[c] = row[c]
            BY <1>3, <5>4 DEF Sees
          <6>2. QED
            BY <1>4, <1>5, <5>2, <5>4, <6>1
        <5>5. QED
          BY <5>2, <5>3, <5>4
      <4>5. Good(next, row')
        BY <1>3, <1>4, <2>1, <4>3, <4>4 DEF Good, IsRequest, Planned
      <4>6. u["id"] = row["id"]
        BY <1>7, <1>9
      <4>7. QED
        BY <4>3, <4>5, <4>6 DEF Holds
    <3>3. QED
      BY <3>1, <3>2
  <2> HIDE DEF next
  <2>5. Good(req'[r], row')
    BY <2>3, <2>4
  <2>6. IsRow(row')
    BY <1>5, <2>1
  <2>7. Reliance'
    BY <1>8, <2>2, <2>3, <2>5, <2>6, Frame
  <2>8. Accounted
    BY <1>5, <2>1, <2>2 DEF Accounted
  <2>9. CountKnown'
    BY <1>1, <1>5, <2>1, ColumnNames DEF CountKnown
  <2>10. QED
    BY <1>1, <1>5, <2>1, <2>3, <2>4, <2>7, <2>8, <2>9
<1>10. CASE row["id"] # own.copy["id"]
  <2>1. Advance(r, Ended, {}) /\ UNCHANGED <<row, said, stale>>
    BY <1>10 DEF AutoVerify
  <2>2. req'[r] = Ended /\ req' = [x \in Reqs |-> req'[x]] /\ Others(r, {})
    BY <1>2, <2>1, Advanced
  <2>3. Good(Ended, row') /\ Ended.at = "idle"
    BY GoodEnded
  <2>4. Reliance'
    <3>1. Good(req'[r], row') /\ IsRow(row') /\ IsRow(said') /\ \A c \in Columns \ {} : row'[c] = row[c]
      BY <1>2, <2>1, <2>2, <2>3
    <3>2. QED
      BY <2>2, <3>1, Frame
  <2>5. Differ(row, row') = {}
    BY <2>1 DEF Differ
  <2>6. QED
    BY <1>1, <2>1, <2>2, <2>3, <2>4, <2>5, EndedIdentity DEF Accounted, CountKnown
<1>11. QED
  BY <1>9, <1>10

WithLock(u, n, end) == [u EXCEPT !.failed = n, !.until = end]

LEMMA LockSet ==
    ASSUME NEW u, IsRow(u), NEW n, NEW end
    PROVE  LET w == WithLock(u, n, end) IN
           /\ IsRow(w) /\ w["failed"] = n /\ w["until"] = end
           /\ \A c \in Columns \ Lock : w[c] = u[c]
<1> DEFINE y == [u EXCEPT !["failed"] = n]
<1>1. IsRow(y) /\ y["failed"] = n /\ \A c \in Columns \ {"failed"} : y[c] = u[c]
  BY ColumnSet, ColumnNames
<1>2. WithLock(u, n, end) = [y EXCEPT !["until"] = end]
  BY DEF WithLock
<1> HIDE DEF y
<1>3. /\ IsRow([y EXCEPT !["until"] = end]) /\ [y EXCEPT !["until"] = end]["until"] = end
      /\ \A c \in Columns \ {"until"} : [y EXCEPT !["until"] = end][c] = y[c]
  BY <1>1, ColumnSet, ColumnNames
<1>4. QED
  BY <1>1, <1>2, <1>3, ColumnNames DEF Lock

LEMMA Failures ==
    ASSUME Reliance, CountKnown, NEW r \in Reqs, CountFailure(r)
    PROVE  /\ Reliance' /\ Accounted /\ CountKnown'
           /\ Others(r, Differ(row, row')) /\ req' = [q \in Reqs |-> req'[q]]
           /\ req'[r].at = "idle" /\ req'[r].copy["id"] = 0
           /\ \A c \in Columns \ Lock : row'[c] = row[c]
           /\ stale \ Lock \subseteq stale' /\ req[r].at = "countFailure"
           /\ UNCHANGED <<mix, resetup, confirmed, links, told, begun>>
<1> DEFINE q    == req[r]
           copy == LockUserAfterFailure(q.copy)
           new  == WithLock(row, copy["failed"], copy["until"])
<1>1. /\ q.at = "countFailure" /\ Advance(r, Ended, Differ(row, row'))
      /\ UNCHANGED <<mix, resetup, confirmed, links, told, begun>>
      /\ \/ /\ row' = new /\ fails' = fails + 1 /\ raced' = (raced \/ "failed" \in q.dirty)
            /\ said' = WithLock(said, copy["failed"], copy["until"])
            /\ stale' = stale \ Lock
         \/ UNCHANGED <<row, said, stale, fails, raced>>
  <2>1. UNCHANGED row => Differ(row, row') = {}
    BY DEF Differ
  <2>2. QED
    BY <2>1 DEF CountFailure, history, WithLock
<1>2. IsRow(row) /\ IsRow(said) /\ AccountShapes /\ IsRow(q.copy)
  BY DEF Reliance, AccountShapes, IsRequest
<1>3. q.own = {} /\ Holds(q) /\ Sees(q, row)
  BY <1>1 DEF Reliance, RequestsArePlanned, CopiesInSight, Planned, Holds
<1>4. copy["failed"] = q.copy["failed"] + 1
  <2>1. PICK end : copy = WithLock(q.copy, q.copy["failed"] + 1, end)
    BY DEF LockUserAfterFailure, WithLock
  <2>2. QED
    BY <1>2, <2>1, LockSet
<1> HIDE DEF copy
<1>6. /\ IsRow(new) /\ new["failed"] = copy["failed"] /\ new["until"] = copy["until"]
      /\ \A c \in Columns \ Lock : new[c] = row[c]
  BY <1>2, LockSet
<1>7. req'[r] = Ended /\ req' = [x \in Reqs |-> req'[x]] /\ Others(r, Differ(row, row'))
  BY <1>1, <1>2, Advanced
<1>8. Good(Ended, row') /\ Ended.at = "idle"
  BY GoodEnded
<1>9. \A c \in Columns \ Differ(row, row') : row'[c] = row[c]
  BY DEF Differ
<1> HIDE DEF new
<1>10. CASE UNCHANGED <<row, said, stale, fails, raced>>
  <2>1. Good(req'[r], row') /\ IsRow(row') /\ IsRow(said')
    BY <1>2, <1>7, <1>8, <1>10
  <2>2. Reliance'
    BY <1>7, <1>9, <2>1, Frame
  <2>3. QED
    BY <1>1, <1>7, <1>8, <1>10, <2>2, EndedIdentity DEF Accounted, CountKnown
<1>11. CASE /\ row' = new /\ fails' = fails + 1 /\ raced' = (raced \/ "failed" \in q.dirty)
            /\ said' = WithLock(said, copy["failed"], copy["until"])
            /\ stale' = stale \ Lock
  <2>1. /\ IsRow(said') /\ said'["failed"] = copy["failed"] /\ said'["until"] = copy["until"]
        /\ \A c \in Columns \ Lock : said'[c] = said[c]
    BY <1>2, <1>11, LockSet
  <2>2. Good(req'[r], row') /\ IsRow(row')
    BY <1>6, <1>7, <1>8, <1>11
  <2>3. Reliance'
    BY <1>7, <1>9, <2>1, <2>2, Frame
  <2>4. Accounted
    BY <1>6, <1>11, <2>1 DEF Accounted, Lock
  <2>5. ~raced' => row'["failed"] = fails'
    <3>1. SUFFICES ASSUME ~raced'
                   PROVE  row'["failed"] = fails'
      OBVIOUS
    <3>2. "failed" \notin q.dirty /\ ~raced
      BY <1>11, <3>1
    <3>3. q.copy["failed"] = row["failed"] /\ row["failed"] = fails
      BY <1>3, <3>2, ColumnNames DEF Sees, CountKnown
    <3>4. QED
      BY <1>4, <1>6, <1>11, <3>3
  <2>6. QED
    BY <1>1, <1>6, <1>7, <1>8, <1>11, <2>3, <2>4, <2>5, EndedIdentity DEF CountKnown
<1>12. QED
  BY <1>1, <1>10, <1>11

-----------------------------------------------------------------------------
(* The failure records. *)

\* A step that neither reads nor writes them.
Apart(r) == UNCHANGED <<recs, twinned, uncounted>> /\ req'[r].at # "createRecord"

LEMMA Aparts ==
    ASSUME FirstRecordsSeen, NEW r \in Reqs, Apart(r), NEW changed, Others(r, changed)
    PROVE  FirstRecordsSeen'
<1>1. ASSUME NEW q \in Reqs, req'[q].at = "createRecord", "record" \notin req'[q].dirty
      PROVE  recs' = {}
  <2>1. q # r /\ LosesSight(req[q], req'[q], changed)
    BY <1>1 DEF Apart, Others
  <2>2. req[q].at = "createRecord" /\ "record" \notin req[q].dirty
    BY <1>1, <2>1 DEF LosesSight
  <2>3. QED
    BY <2>2 DEF FirstRecordsSeen, Apart
<1>2. QED
  BY <1>1 DEF FirstRecordsSeen, Apart

LEMMA Searches ==
    ASSUME Reliance, FirstRecordsSeen, NEW r \in Reqs, GetRecord(r)
    PROVE  FirstRecordsSeen'
<1>1. AccountShapes /\ IsRequest(req[r])
  BY DEF Reliance, AccountShapes
<1> DEFINE old  == req[r]
           next == IF GetOrCreate(recs) = "raise" THEN Ended
                   ELSE [At(r, GetOrCreate(recs)) EXCEPT !.record = FirstRecord, !.dirty = @ \ {"record"}]
<1>2. /\ Advance(r, next, {}) /\ UNCHANGED <<recs, twinned>>
      /\ uncounted' = (uncounted \/ GetOrCreate(recs) = "raise")
  BY DEF GetRecord
<1>3. req'[r] = next /\ Others(r, {})
  BY <1>1, <1>2, Advanced
<1>4. next.at = "createRecord" => recs = {}
  <2>1. CASE GetOrCreate(recs) = "raise"
    <3>1. Ended.at = "idle"
      BY GoodEnded
    <3>2. QED
      BY <2>1, <3>1
  <2>2. CASE GetOrCreate(recs) # "raise"
    <3> DEFINE s1 == [old EXCEPT !.at = GetOrCreate(recs)]
               s2 == [s1 EXCEPT !.record = FirstRecord]
    <3>1. next = [s2 EXCEPT !.dirty = @ \ {"record"}]
      BY <2>2 DEF At
    <3>2. s1 \in [op : {old.op}, at : {GetOrCreate(recs)}, k : {old.k}, copy : {old.copy}, dirty : {old.dirty},
                  own : {old.own}, saves : {old.saves}, record : {old.record}]
      BY <1>1 DEF IsRequest
    <3> HIDE DEF s1, next
    <3>3. s2 \in [op : {old.op}, at : {GetOrCreate(recs)}, k : {old.k}, copy : {old.copy}, dirty : {old.dirty},
                  own : {old.own}, saves : {old.saves}, record : {FirstRecord}]
      BY <3>2
    <3> HIDE DEF s2
    <3>4. next \in [op : {old.op}, at : {GetOrCreate(recs)}, k : {old.k}, copy : {old.copy},
                    dirty : {old.dirty \ {"record"}},
                    own : {old.own}, saves : {old.saves}, record : {FirstRecord}]
      BY <3>1, <3>3
    <3>5. QED
      BY <3>4 DEF GetOrCreate
  <2>3. QED
    BY <2>1, <2>2
<1> HIDE DEF next
<1>5. ASSUME NEW q \in Reqs, req'[q].at = "createRecord", "record" \notin req'[q].dirty
      PROVE  recs' = {}
  <2>1. CASE q = r
    BY <1>2, <1>3, <1>4, <1>5, <2>1
  <2>2. CASE q # r
    <3>1. LosesSight(req[q], req'[q], {})
      BY <1>3, <2>2 DEF Others
    <3>2. req[q].at = "createRecord" /\ "record" \notin req[q].dirty
      BY <1>5, <3>1 DEF LosesSight
    <3>3. QED
      BY <1>2, <3>2 DEF FirstRecordsSeen
  <2>3. QED
    BY <2>1, <2>2
<1>6. GetOrCreate(recs) = "raise" => twinned
  <2>1. SUFFICES ASSUME ~twinned, recs # {}
                 PROVE  Cardinality(recs) = 1
    BY DEF GetOrCreate
  <2>2. PICK f : recs = {f}
    BY <2>1 DEF FirstRecordsSeen
  <2>3. QED
    BY <2>2, FS_Singleton
<1>7. QED
  BY <1>2, <1>5, <1>6 DEF FirstRecordsSeen

LEMMA Writes ==
    ASSUME Reliance, FirstRecordsSeen, NEW r \in Reqs,
           CreateRecord(r) \/ CountRecord(r) \/ ClearRecords(r)
    PROVE  FirstRecordsSeen'
<1>1. AccountShapes /\ IsRequest(req[r])
  BY DEF Reliance, AccountShapes
<1>2. CASE ClearRecords(r)
  BY <1>2 DEF ClearRecords, FirstRecordsSeen, history
<1>3. ASSUME NEW next, next.at # "createRecord", Advance(r, next, {"record"})
      PROVE  \A q \in Reqs : ~(req'[q].at = "createRecord" /\ "record" \notin req'[q].dirty)
  <2>1. req'[r] = next /\ Others(r, {"record"})
    BY <1>1, <1>3, Advanced
  <2>2. ASSUME NEW q \in Reqs \ {r}, req'[q].at = "createRecord"
        PROVE  "record" \in req'[q].dirty
    <3>1. LosesSight(req[q], req'[q], {"record"})
      BY <2>1 DEF Others
    <3>2. QED
      BY <2>2, <3>1 DEF LosesSight
  <2>3. QED
    BY <1>3, <2>1, <2>2
<1> DEFINE old == req[r]
<1>4. CASE CreateRecord(r)
  <2> DEFINE record == [id |-> old.k, n |-> 0, until |-> 0]
             s1   == [old EXCEPT !.at = "countRecord"]
             s2   == [s1 EXCEPT !.record = record]
             next == [s2 EXCEPT !.dirty = @ \ {"record"}]
  <2>1. /\ Advance(r, next, {"record"}) /\ recs' = recs \cup {record} /\ old.at = "createRecord"
        /\ twinned' = (twinned \/ "record" \in old.dirty) /\ uncounted' = uncounted
    BY <1>4 DEF CreateRecord, At
  <2>2. next.at = "countRecord"
    <3>1. s1 \in [op : {old.op}, at : {"countRecord"}, k : {old.k}, copy : {old.copy}, dirty : {old.dirty},
                  own : {old.own}, saves : {old.saves}, record : {old.record}]
      BY <1>1 DEF IsRequest
    <3> HIDE DEF s1, next, record
    <3>2. s2 \in [op : {old.op}, at : {"countRecord"}, k : {old.k}, copy : {old.copy}, dirty : {old.dirty},
                  own : {old.own}, saves : {old.saves}, record : {record}]
      BY <3>1
    <3> HIDE DEF s2
    <3>3. [s2 EXCEPT !.dirty = @ \ {"record"}]
            \in [op : {old.op}, at : {"countRecord"}, k : {old.k}, copy : {old.copy},
                 dirty : {old.dirty \ {"record"}},
                 own : {old.own}, saves : {old.saves}, record : {record}]
      BY <3>2
    <3>4. QED
      BY <3>3 DEF next
  <2> HIDE DEF next, record
  <2>3. ~twinned' => recs' = {record}
    BY <2>1 DEF FirstRecordsSeen
  <2>4. uncounted' => twinned'
    BY <2>1 DEF FirstRecordsSeen
  <2>5. QED
    BY <1>3, <2>1, <2>2, <2>3, <2>4 DEF FirstRecordsSeen
<1>5. CASE CountRecord(r)
  <2>1. PICK new, i :
          /\ recs' = {g \in recs : g.id # i} \cup {new}
          /\ twinned' = (twinned \/ (recs # {} /\ \A g \in recs : g.id # i)) /\ uncounted' = uncounted
    BY <1>5 DEF CountRecord
  <2>2. Advance(r, [old EXCEPT !.at = "countFailure"], {"record"})
    BY <1>5 DEF CountRecord, At
  <2>3. [old EXCEPT !.at = "countFailure"].at = "countFailure"
    BY <1>1, GoodAt
  <2>4. ~twinned' => recs' = {new}
    BY <2>1 DEF FirstRecordsSeen
  <2>5. uncounted' => twinned'
    BY <2>1 DEF FirstRecordsSeen
  <2>6. \A q \in Reqs : ~(req'[q].at = "createRecord" /\ "record" \notin req'[q].dirty)
    BY <1>3, <2>2, <2>3
  <2>7. QED
    BY <2>4, <2>5, <2>6 DEF FirstRecordsSeen
<1>6. QED
  BY <1>2, <1>4, <1>5

-----------------------------------------------------------------------------
(* Every step is quiet, or writes the row. *)

Writer(r) ==
    \/ Save(r) \/ DeleteRow(r) \/ AutoVerify(r) \/ CountFailure(r)
    \/ Insert(r) /\ row["id"] = 0

LEMMA StepsAreQuiet ==
    ASSUME Reliance, NEW r \in Reqs, Step(r), ~Writer(r)
    PROVE  Quiet(r)
<1>1. AccountShapes /\ CopiesInSight /\ RequestsArePlanned
  BY DEF Reliance
<1>2. CASE \/ OwnAccount(r) \/ TwoFactorSetup(r) \/ TwoFactorConfirm(r)
           \/ FollowVerificationLink(r) \/ FollowResetLink(r)
  BY <1>1, <1>2, OwnOperations
<1>3. CASE \/ Restore(r) \/ Suspend(r) \/ ToggleStaff(r) \/ Unlock(r) \/ EditUser(r)
           \/ EditTeamMember(r) \/ Anonymize(r) \/ EnsureFlags(r)
  BY <1>1, <1>3, Administration
<1>4. CASE ForgotPassword(r) \/ Resend(r) \/ Delete(r) \/ Login(r) \/ LoginTwoFactor(r)
  BY <1>1, <1>4, Readers
<1>5. CASE SendLink(r) \/ SendResetLink(r) \/ SaveRaises(r)
  BY <1>1, <1>5, Ends
<1>6. CASE Register(r) \/ CreateSuperuser(r)
  BY <1>1, <1>6, NewAccounts
<1>7. CASE Insert(r)
  BY <1>1, <1>7, InsertRefused DEF Writer
<1>8. CASE Authenticate(r)
  BY <1>1, <1>8, Authenticates
<1>9. CASE ClearRecords(r)
  BY <1>1, <1>9, Clears
<1>10. CASE GetRecord(r) \/ CreateRecord(r) \/ CountRecord(r)
  BY <1>1, <1>10, RecordSteps
<1>11. QED
  BY <1>2, <1>3, <1>4, <1>5, <1>6, <1>7, <1>8, <1>9, <1>10 DEF Step, Writer

\* Only four steps read or write the failure records.
LEMMA RecordsUntouched ==
    ASSUME NEW r \in Reqs, Step(r),
           ~(GetRecord(r) \/ CreateRecord(r) \/ CountRecord(r) \/ ClearRecords(r))
    PROVE  UNCHANGED <<recs, twinned, uncounted>>
<1>1. CASE \/ OwnAccount(r) \/ TwoFactorSetup(r) \/ TwoFactorConfirm(r)
           \/ FollowVerificationLink(r) \/ FollowResetLink(r)
  BY <1>1 DEF OwnAccount, TwoFactorSetup, TwoFactorConfirm, FollowVerificationLink, FollowResetLink,
              Serve, history
<1>2. CASE \/ Restore(r) \/ Suspend(r) \/ ToggleStaff(r) \/ Unlock(r) \/ EditUser(r)
           \/ EditTeamMember(r) \/ Anonymize(r) \/ EnsureFlags(r)
  BY <1>2 DEF Restore, Suspend, ToggleStaff, Unlock, EditUser, EditTeamMember, Anonymize, EnsureFlags,
              Serve, history
<1>3. CASE ForgotPassword(r) \/ Resend(r) \/ Delete(r) \/ Login(r) \/ LoginTwoFactor(r) \/ Authenticate(r)
  BY <1>3 DEF ForgotPassword, Resend, Delete, Login, LoginTwoFactor, Authenticate, history
<1>4. CASE SendLink(r) \/ SendResetLink(r) \/ SaveRaises(r) \/ Register(r) \/ CreateSuperuser(r)
  BY <1>4 DEF SendLink, SendResetLink, SaveRaises, Register, CreateSuperuser, NewAccount, history
<1>5. CASE Save(r) \/ DeleteRow(r) \/ AutoVerify(r) \/ CountFailure(r) \/ Insert(r)
  BY <1>5 DEF Save, DeleteRow, AutoVerify, CountFailure, Insert, history
<1>6. QED
  BY <1>1, <1>2, <1>3, <1>4, <1>5 DEF Step

\* What the counters and the records promise is kept.
LEMMA CounterStep ==
    ASSUME CounterInv, NEW r \in Reqs, Step(r)
    PROVE  CounterInv'
<1>1. Reliance /\ LastWordHolds /\ CountKnown /\ FirstRecordsSeen
  BY DEF CounterInv, Reliance
<1>2. CASE GetRecord(r) \/ CreateRecord(r) \/ CountRecord(r) \/ ClearRecords(r)
  <2>1. FirstRecordsSeen'
    BY <1>1, <1>2, Searches, Writes
  <2>2. Quiet(r)
    BY <1>1, <1>2, RecordSteps, Clears DEF Reliance
  <2>3. QED
    BY <1>1, <2>1, <2>2, QuietKeeps DEF CounterInv, Reliance
<1>3. CASE ~(GetRecord(r) \/ CreateRecord(r) \/ CountRecord(r) \/ ClearRecords(r))
  <2>1. UNCHANGED <<recs, twinned, uncounted>>
    BY <1>3, RecordsUntouched
  <2>2. CASE ~Writer(r)
    <3>1. Quiet(r)
      BY <1>1, <2>2, StepsAreQuiet
    <3>2. PICK changed : Others(r, changed)
      BY <3>1 DEF Quiet
    <3>3. Apart(r)
      BY <1>3, <2>1, <3>1 DEF Apart, Quiet, KeepsSearch
    <3>4. FirstRecordsSeen'
      BY <1>1, <3>2, <3>3, Aparts
    <3>5. QED
      BY <1>1, <3>1, <3>4, QuietKeeps DEF CounterInv, Reliance
  <2>3. CASE Writer(r)
    <3>1. /\ Reliance' /\ Accounted /\ CountKnown'
          /\ req'[r].at \in {"idle", "save", "send", "clear"}
          /\ \E changed : Others(r, changed)
      <4>1. CASE Save(r)
        BY <1>1, <4>1, SaveRelies, SaveCounts
      <4>2. CASE DeleteRow(r)
        BY <1>1, <4>2, Deletes
      <4>3. CASE AutoVerify(r)
        BY <1>1, <4>3, AutoVerifies
      <4>4. CASE CountFailure(r)
        BY <1>1, <4>4, Failures
      <4>5. CASE Insert(r) /\ row["id"] = 0
        BY <1>1, <4>5, Inserts
      <4>6. QED
        BY <2>3, <4>1, <4>2, <4>3, <4>4, <4>5 DEF Writer
    <3>2. FirstRecordsSeen'
      BY <1>1, <2>1, <3>1, Aparts DEF Apart
    <3>3. LastWordHolds'
      BY <1>1, <3>1, LastWordStep
    <3>4. QED
      BY <3>1, <3>2, <3>3 DEF CounterInv, Reliance
  <2>4. QED
    BY <2>2, <2>3
<1>4. QED
  BY <1>2, <1>3

-----------------------------------------------------------------------------
(* New accounts get new identities. *)

\* Whose identities a step can give to the row and to its own request.
GivesIdentity(r) ==
    /\ mix' = mix /\ begun' \in {begun, begun + 1}
    /\ \/ row'["id"] \in {0, row["id"]}
       \/ req[r].at # "idle" /\ row'["id"] = req[r].copy["id"]
    /\ \/ req'[r].at = "idle" /\ req'[r].copy["id"] = 0
       \/ req'[r].at \notin {"idle", "insert"} /\ req'[r].copy["id"] = row["id"]
       \/ /\ req[r].at # "idle" /\ req'[r].at \notin {"idle", "insert"}
          /\ req'[r].copy["id"] = req[r].copy["id"]
       \/ /\ req'[r].at = "insert" /\ Creates /\ row["id"] = 0 /\ row'["id"] = 0
          /\ req'[r].k = begun + 1 /\ begun' = begun + 1

LEMMA InsertsItself ==
    ASSUME RequestsArePlanned, NEW r \in Reqs, req[r].at = "insert"
    PROVE  req[r].copy["id"] = req[r].k /\ req[r].op \in {"register", "createSuperuser"}
<1>1. "id" \notin req[r].own /\ req[r].copy["id"] = NewRow(req[r].k)["id"]
      /\ req[r].op \in {"register", "createSuperuser"}
  BY ColumnNames DEF RequestsArePlanned, Planned, PlannedColumns
<1>2. QED
  BY <1>1 DEF NewRow

LEMMA Identities ==
    ASSUME Reliance, RequestsArePlanned', NewIdentities, NEW r \in Reqs, NEW changed,
           Others(r, changed), GivesIdentity(r)
    PROVE  NewIdentities'
<1>1. Creates' = Creates /\ begun' \in Nat /\ begun <= begun'
  BY DEF GivesIdentity, Creates, NewIdentities
<1>2. \A q \in Reqs \ {r} : /\ req'[q].at = req[q].at /\ req'[q].copy = req[q].copy
                            /\ req'[q].k = req[q].k
  BY DEF Others, LosesSight
<1>3. req'[r].at = "insert" => req'[r].copy["id"] = begun + 1
  <2>1. "id" \notin req'[r].own /\ req'[r].at = "insert" => req'[r].copy["id"] = NewRow(req'[r].k)["id"]
    BY ColumnNames DEF RequestsArePlanned, Planned
  <2>2. req'[r].at = "insert" => "id" \notin req'[r].own /\ req'[r].k = begun + 1
    BY DEF RequestsArePlanned, Planned, PlannedColumns, GivesIdentity
  <2>3. QED
    BY <2>1, <2>2 DEF NewRow
<1>4. ASSUME Creates
      PROVE  row'["id"] \in 0..begun' /\ \A q \in Reqs : req'[q].copy["id"] \in 0..begun'
  <2>1. begun \in Nat /\ row["id"] \in 0..begun /\ \A q \in Reqs : req[q].copy["id"] \in 0..begun
    BY <1>4 DEF NewIdentities
  <2>2. 0..begun \subseteq 0..begun' /\ 0 \in 0..begun
    BY <1>1, <2>1
  <2>3. row'["id"] \in 0..begun'
    BY <2>1, <2>2 DEF GivesIdentity
  <2>4. \A q \in Reqs \ {r} : req'[q].copy["id"] \in 0..begun'
    BY <1>2, <2>1, <2>2
  <2>5. req'[r].copy["id"] \in 0..begun'
    <3>1. CASE req'[r].at = "insert"
      BY <1>3, <2>1, <3>1 DEF GivesIdentity
    <3>2. CASE req'[r].at # "insert"
      BY <2>1, <2>2, <3>2 DEF GivesIdentity
    <3>3. QED
      BY <3>1, <3>2
  <2>6. QED
    BY <2>3, <2>4, <2>5
<1>5. ASSUME NEW p \in Reqs, req'[p].at = "insert"
      PROVE  /\ Creates /\ req'[p].k \in 1..begun' /\ row'["id"] # req'[p].k
             /\ \A q \in Reqs \ {p} : req'[q].at # "idle" => req'[q].copy["id"] # req'[p].k
  <2>1. CASE p = r
    <3>1. /\ Creates /\ req'[p].k = begun + 1 /\ begun' = begun + 1 /\ row'["id"] = 0 /\ begun \in Nat
          /\ \A q \in Reqs : req[q].copy["id"] \in 0..begun
      BY <1>5, <2>1 DEF GivesIdentity, NewIdentities
    <3>2. QED
      BY <1>2, <2>1, <3>1
  <2>2. CASE p # r
    <3>1. /\ req[p].at = "insert" /\ req'[p].k = req[p].k /\ Creates /\ req[p].k \in 1..begun
          /\ row["id"] # req[p].k
          /\ \A q \in Reqs \ {p} : req[q].at # "idle" => req[q].copy["id"] # req[p].k
      BY <1>2, <1>5, <2>2 DEF NewIdentities
    <3>2. row'["id"] # req[p].k
      BY <2>2, <3>1 DEF GivesIdentity, NewIdentities
    <3>3. \A q \in Reqs \ {p, r} : req'[q].at # "idle" => req'[q].copy["id"] # req[p].k
      BY <1>2, <3>1
    <3>4. req'[r].at # "idle" => req'[r].copy["id"] # req[p].k
      <4>1. CASE req'[r].at = "insert"
        BY <1>3, <3>1, <4>1 DEF NewIdentities
      <4>2. CASE req'[r].at # "insert"
        BY <2>2, <3>1, <4>2 DEF GivesIdentity
      <4>3. QED
        BY <4>1, <4>2
    <3>5. QED
      BY <1>1, <3>1, <3>2, <3>3, <3>4 DEF NewIdentities
  <2>3. QED
    BY <2>1, <2>2
<1>6. QED
  BY <1>1, <1>4, <1>5 DEF NewIdentities

LEMMA IdentityStep ==
    ASSUME Reliance, CountKnown, RequestsArePlanned', NewIdentities, NEW r \in Reqs, Step(r)
    PROVE  NewIdentities'
<1>1. SUFFICES GivesIdentity(r) /\ \E changed : Others(r, changed)
  BY Identities
<1>2. CASE ~Writer(r)
  <2>1. Quiet(r)
    BY <1>2, StepsAreQuiet
  <2>2. /\ row'["id"] = row["id"] /\ mix' = mix /\ begun' \in {begun, begun + 1} /\ KeepsIdentity(r)
        /\ \E changed : Others(r, changed)
    BY <2>1 DEF Quiet
  <2>3. QED
    BY <2>2 DEF GivesIdentity, KeepsIdentity, Holds
<1>3. CASE Save(r)
  <2>1. /\ req[r].at = "save" /\ row'["id"] \in {row["id"], req[r].copy["id"]}
    BY <1>3, SaveColumns, ColumnNames DEF Save
  <2>2. QED
    BY <1>3, <2>1, SaveRelies DEF GivesIdentity
<1>4. CASE DeleteRow(r) \/ AutoVerify(r) \/ CountFailure(r)
  BY <1>4, Deletes, AutoVerifies, Failures, ColumnNames DEF GivesIdentity, Lock, Holds
<1>5. CASE Insert(r) /\ row["id"] = 0
  <2>1. /\ row' = NewRow(req[r].k) /\ req[r].at = "insert" /\ req'[r].at = "save"
        /\ req'[r].copy = req[r].copy /\ mix' = mix /\ begun' = begun /\ Others(r, Columns)
    BY <1>5, Inserts
  <2>2. req[r].copy["id"] = req[r].k /\ row'["id"] = req[r].k
    BY <2>1, InsertsItself DEF Reliance, NewRow
  <2>3. QED
    BY <2>1, <2>2 DEF GivesIdentity
<1>6. QED
  BY <1>2, <1>3, <1>4, <1>5 DEF Writer

-----------------------------------------------------------------------------
(* The secret of an account's second factor. *)

Security == {"secret", "twofa", "erased"}

LEMMA SecurityColumns ==
    /\ Security \subseteq Columns \ (Lock \cup {"id", "mail", "verified"})
    /\ Columns # Lock /\ Columns # {"twofa"} /\ Columns # {"secret"}
BY DEF Security, Columns, Lock

\* A bystander that lost sight of a forgotten account still has.
LEMMA StillForgotten ==
    ASSUME Reliance, NEW r \in Reqs, NEW changed, Others(r, changed), NEW i, Forgotten(i),
           Holds(req'[r]) /\ req'[r].copy["id"] = i => Columns \subseteq req'[r].dirty
    PROVE  Forgotten(i)'
<1>1. ASSUME NEW q \in Reqs, Holds(req'[q]), req'[q].copy["id"] = i
      PROVE  Columns \subseteq req'[q].dirty
  <2>1. CASE q = r
    BY <1>1, <2>1
  <2>2. CASE q # r
    <3>1. LosesSight(req[q], req'[q], changed)
      BY <2>2 DEF Others
    <3>2. Holds(req[q]) /\ req[q].copy["id"] = i /\ req'[q].dirty = req[q].dirty \cup changed
      BY <1>1, <3>1 DEF LosesSight, Holds
    <3>3. QED
      BY <3>2 DEF Forgotten
  <2>3. QED
    BY <2>1, <2>2
<1>2. QED
  BY <1>1 DEF Forgotten

\* A request that is confirming a code, and what excuses that it has lost
\* sight of the secret.
Confirming(q) == q.at = "save" /\ q.op = "verifyTwoFactor"
Excused(i) ==
    \/ resetup \/ row["erased"] \/ stale \cap {"secret", "erased"} # {}
    \/ row["id"] # i /\ Forgotten(i)

LEMMA Confirms ==
    ASSUME SecretEnabled, NEW q \in Reqs, Confirming(req[q])
    PROVE  /\ req[q].copy["id"] # 0 /\ req[q].copy["secret"] \in confirmed
           /\ "secret" \in req[q].dirty => Excused(req[q].copy["id"])
BY DEF SecretEnabled, Confirming, Excused

\* The state of the others, whatever r does.
LEMMA ConfirmsStill ==
    ASSUME SecretEnabled, NEW r \in Reqs, NEW changed, Others(r, changed),
           confirmed \subseteq confirmed', NEW q \in Reqs \ {r}, Confirming(req'[q])
    PROVE  /\ req'[q].copy = req[q].copy /\ req[q].at = "save" /\ req[q].op = "verifyTwoFactor"
           /\ req'[q].copy["id"] # 0 /\ req'[q].copy["secret"] \in confirmed'
           /\ req'[q].dirty = req[q].dirty \cup changed
           /\ "secret" \in req[q].dirty => Excused(req'[q].copy["id"])
<1>1. LosesSight(req[q], req'[q], changed)
  BY DEF Others
<1>2. Confirming(req[q]) /\ req'[q].copy = req[q].copy /\ req'[q].dirty = req[q].dirty \cup changed
  BY <1>1 DEF LosesSight, Confirming
<1>3. QED
  BY <1>2, Confirms DEF Confirming

\* A step that does not write the three columns.
SparesSecret(r) ==
    /\ \A c \in Security : row'[c] = row[c]
    /\ row'["id"] \in {0, row["id"]} /\ stale \cap Security \subseteq stale' /\ resetup' = resetup
    /\ confirmed \subseteq confirmed' /\ KeepsIdentity(r) /\ KeepsSecret(r)

LEMMA SecretSpared ==
    ASSUME Reliance, SecretEnabled, NEW r \in Reqs, NEW changed, "secret" \notin changed,
           Others(r, changed), SparesSecret(r)
    PROVE  SecretEnabled'
<1>1. /\ row'["secret"] = row["secret"] /\ row'["twofa"] = row["twofa"] /\ row'["erased"] = row["erased"]
      /\ stale \cap {"secret", "twofa", "erased"} \subseteq stale' /\ resetup' = resetup
      /\ confirmed \subseteq confirmed' /\ row'["id"] \in {0, row["id"]}
  BY DEF SparesSecret, Security
<1>2. (row'["twofa"] /\ ~row'["erased"] /\ ~resetup' /\ stale' \cap {"secret", "twofa", "erased"} = {})
      => row'["secret"] \in confirmed'
  BY <1>1 DEF SecretEnabled
<1>3. ASSUME NEW i, i # 0, Excused(i)
      PROVE  Excused(i)'
  <2>1. CASE row["id"] # i /\ Forgotten(i)
    <3>1. Holds(req'[r]) /\ req'[r].copy["id"] = i => Columns \subseteq req'[r].dirty
      <4>1. SUFFICES ASSUME Holds(req'[r]), req'[r].copy["id"] = i
                     PROVE  Columns \subseteq req'[r].dirty
        OBVIOUS
      <4>2. /\ Holds(req[r]) /\ req[r].copy["id"] = i
            /\ req[r].dirty \cap Columns \subseteq req'[r].dirty
        BY <2>1, <4>1 DEF SparesSecret, KeepsIdentity, Holds
      <4>3. QED
        BY <2>1, <4>2 DEF Forgotten
    <3>2. Forgotten(i)'
      BY <2>1, <3>1, StillForgotten
    <3>3. QED
      BY <1>1, <1>3, <2>1, <3>2 DEF Excused
  <2>2. CASE resetup \/ row["erased"] \/ stale \cap {"secret", "erased"} # {}
    BY <1>1, <2>2 DEF Excused
  <2>3. QED
    BY <1>3, <2>1, <2>2 DEF Excused
<1>4. ASSUME NEW q \in Reqs, Confirming(req'[q]), NEW i, i = req'[q].copy["id"]
      PROVE  /\ i # 0 /\ req'[q].copy["secret"] \in confirmed'
             /\ "secret" \in req'[q].dirty => Excused(i)'
  <2>1. CASE q = r
    BY <1>4, <2>1 DEF SparesSecret, KeepsSecret, Confirming
  <2>2. CASE q # r
    <3>1. /\ req'[q].copy["id"] # 0 /\ req'[q].copy["secret"] \in confirmed'
          /\ "secret" \in req'[q].dirty => Excused(req'[q].copy["id"])
      BY <1>1, <1>4, <2>2, ConfirmsStill
    <3>2. Excused(i) => Excused(i)'
      BY <1>3, <1>4, <3>1
    <3>3. QED
      BY <1>4, <3>1, <3>2
  <2>3. QED
    BY <2>1, <2>2
<1>5. QED
  BY <1>2, <1>4 DEF SecretEnabled, Confirming, Excused, Forgotten

\* What a save makes of an account that everybody but its object forgot.
LEMMA SaveForgets ==
    ASSUME Reliance, NEW r \in Reqs, Save(r), NEW i, Forgotten(i), row["id"] # i
    PROVE  \/ row'["id"] # i /\ Forgotten(i)'
           \/ req[r].op \in FullSaves /\ Columns \subseteq req[r].dirty
<1> DEFINE q == req[r]
           cols == Head(q.saves)
<1>1. q.at = "save" /\ Holds(q) /\ CanSave(r, cols)
  BY DEF Save, Holds
<1>2. row'["id"] = IF "id" \in cols THEN q.copy["id"] ELSE row["id"]
  BY SaveColumns, ColumnNames
<1>3. CASE q.copy["id"] = i
  <2>1. cols = Columns
    BY <1>1, <1>3 DEF CanSave
  <2>2. q.op \in FullSaves
    <3>1. PlannedColumns(q) /\ (q.op \in FullSaves \/ cols = q.own)
      BY <1>1, SaveKinds
    <3>2. "id" \notin q.own /\ "id" \in Columns
      BY <3>1, ColumnNames DEF PlannedColumns
    <3>3. QED
      BY <2>1, <3>1, <3>2
  <2>3. QED
    BY <1>1, <1>3, <2>2 DEF Forgotten
<1>4. CASE q.copy["id"] # i
  <2>1. row'["id"] # i
    BY <1>2, <1>4
  <2>2. Holds(req'[r]) => req'[r].copy["id"] # i
    BY <1>4, SaveRelies DEF Holds
  <2>3. Others(r, Differ(row, row'))
    BY SaveRelies
  <2>4. Forgotten(i)'
    BY <2>2, <2>3, StillForgotten
  <2>5. QED
    BY <2>1, <2>4
<1>5. QED
  BY <1>3, <1>4

LEMMA SaveKeepsSecret ==
    ASSUME Reliance, SecretEnabled, NEW r \in Reqs, Save(r)
    PROVE  SecretEnabled'
<1> DEFINE q    == req[r]
           cols == Head(q.saves)
<1>1. q.at = "save" /\ Holds(q) /\ CanSave(r, cols) /\ UNCHANGED confirmed
  BY DEF Save, Holds
<1>2. /\ cols \subseteq Columns /\ PlannedColumns(q)
      /\ \/ cols = Columns /\ q.op \in FullSaves
         \/ cols = Lock /\ q.op \in FullSaves /\ cols \subseteq q.own
         \/ cols = q.own /\ q.op \notin FullSaves
  BY <1>1, SaveKinds
<1>3. /\ Others(r, Differ(row, row'))
      /\ \/ req'[r].at = "idle"
         \/ /\ req'[r].op = q.op
            /\ req'[r].at = "save" => q.op \in FullSaves
  BY SaveRelies
<1>4. ~Confirming(req'[r])
  BY <1>3 DEF Confirming, FullSaves
<1>5. Sees(q, row) /\ IsRow(row)
  BY <1>1 DEF Reliance, CopiesInSight, AccountShapes
<1>6. /\ \A c \in Columns : row'[c] = IF c \in cols THEN q.copy[c] ELSE row[c]
      /\ \A c \in Columns \ (q.own \cap cols) :
            /\ c \notin stale' => c \notin stale /\ row'[c] = row[c]
            /\ q.op \in FullSaves /\ c \in q.dirty => c \in stale'
  BY SaveColumns
<1>7. /\ resetup' = \/ resetup
                    \/ /\ q.op = "setupTwoFactor"
                       /\ row["twofa"] \/ \E p \in Reqs : req[p].op = "verifyTwoFactor"
  BY DEF Save
<1>8. SUFFICES /\ (row'["twofa"] /\ ~row'["erased"] /\ ~resetup' /\ stale' \cap {"secret", "twofa", "erased"} = {})
                     => row'["secret"] \in confirmed
               /\ \A p \in Reqs \ {r} : \A i : Confirming(req'[p]) /\ i = req'[p].copy["id"]
                     /\ "secret" \in req'[p].dirty => Excused(i)'
  <2>1. ASSUME NEW p \in Reqs, Confirming(req'[p])
        PROVE  p # r /\ req'[p].copy["id"] # 0 /\ req'[p].copy["secret"] \in confirmed'
    BY <1>1, <1>3, <1>4, <2>1, ConfirmsStill
  <2>2. QED
    BY <1>1, <1>8, <2>1 DEF SecretEnabled, Confirming, Excused, Forgotten
<1>9. ASSUME NEW p \in Reqs \ {r}, NEW i, Confirming(req'[p]), i = req'[p].copy["id"], "secret" \in req'[p].dirty
      PROVE  /\ req[p].op = "verifyTwoFactor"
             /\ "secret" \in Differ(row, row') \/ Excused(i)
  BY <1>1, <1>3, <1>9, ConfirmsStill
<1>10. CASE q.op = "verifyTwoFactor"
  <2>1. q.own = {"twofa"} /\ cols = {"twofa"} /\ q.op \notin FullSaves
    BY <1>2, <1>10, ColumnNames DEF PlannedColumns, FullSaves
  <2>2. row["id"] = q.copy["id"]
    BY <1>1, <2>1, SecurityColumns DEF CanSave
  <2>3. row'["secret"] = row["secret"] /\ row'["erased"] = row["erased"] /\ row'["id"] = row["id"]
    BY <1>6, <2>1, ColumnNames
  <2>4. stale \cap {"secret", "erased"} \subseteq stale' /\ (resetup' <=> resetup)
    <3>1. ("secret" \in stale => "secret" \in stale') /\ ("erased" \in stale => "erased" \in stale')
      BY <1>6, <2>1, ColumnNames
    <3>2. resetup' <=> resetup
      BY <1>7, <1>10
    <3>3. QED
      BY <3>1, <3>2
  <2>5. Confirming(q)
    BY <1>1, <1>10 DEF Confirming
  <2>6. /\ q.copy["secret"] \in confirmed
        /\ "secret" \in q.dirty => resetup \/ row["erased"] \/ stale \cap {"secret", "erased"} # {}
    BY <2>2, <2>5, Confirms DEF Excused
  <2>7. "secret" \notin q.dirty => q.copy["secret"] = row["secret"]
    BY <1>5, <2>1, ColumnNames DEF Sees
  <2>8. (row'["twofa"] /\ ~row'["erased"] /\ ~resetup' /\ stale' \cap {"secret", "twofa", "erased"} = {})
            => row'["secret"] \in confirmed
    BY <2>3, <2>4, <2>6, <2>7
  <2>9. ASSUME NEW p \in Reqs \ {r}, NEW i, Confirming(req'[p]), i = req'[p].copy["id"],
               "secret" \in req'[p].dirty
        PROVE  Excused(i)'
    <3>1. Excused(i)
      BY <1>9, <2>3, <2>9 DEF Differ
    <3>2. CASE row["id"] # i /\ Forgotten(i)
      <4>1. Forgotten(i)'
        BY <2>1, <3>2, SaveForgets
      <4>2. QED
        BY <2>3, <3>2, <4>1 DEF Excused
    <3>3. QED
      BY <2>3, <2>4, <3>1, <3>2 DEF Excused
  <2>10. QED
    BY <2>8, <2>9
<1>11. CASE q.op = "setupTwoFactor"
  <2>1. q.op \notin FullSaves /\ "twofa" \notin q.own /\ cols = q.own
    BY <1>2, <1>11 DEF PlannedColumns, FullSaves
  <2>2. row'["twofa"] = row["twofa"]
    BY <1>6, <2>1, ColumnNames
  <2>3. row'["twofa"] => resetup'
    BY <1>7, <1>11, <2>2
  <2>4. ASSUME NEW p \in Reqs \ {r}, NEW i, Confirming(req'[p]), i = req'[p].copy["id"],
               "secret" \in req'[p].dirty
        PROVE  Excused(i)'
    BY <1>7, <1>9, <1>11, <2>4 DEF Excused
  <2>5. QED
    BY <2>3, <2>4
<1>12. CASE q.op = "anonymize" /\ cols = Columns
  <2>1. row'["erased"]
    BY <1>2, <1>6, <1>12, ColumnNames DEF PlannedColumns
  <2>2. QED
    BY <2>1 DEF Excused
<1>13. CASE q.op \notin {"verifyTwoFactor", "setupTwoFactor"} /\ ~(q.op = "anonymize" /\ cols = Columns)
  <2>1. \A c \in Security : c \notin q.own \cap cols
    <3>1. CASE q.op = "anonymize"
      BY <1>2, <1>13, <3>1, SecurityColumns DEF FullSaves
    <3>2. CASE q.op # "anonymize"
      BY <1>2, <1>13, <3>2 DEF PlannedColumns, Security
    <3>3. QED
      BY <3>1, <3>2
  <2>2. \A c \in Security : /\ c \notin stale' => c \notin stale /\ row'[c] = row[c]
                            /\ q.op \in FullSaves /\ c \in q.dirty => c \in stale'
    BY <1>6, <2>1, SecurityColumns
  <2>3. resetup' <=> resetup
    BY <1>7, <1>13
  <2>4. (row'["twofa"] /\ ~row'["erased"] /\ ~resetup' /\ stale' \cap {"secret", "twofa", "erased"} = {})
            => row'["secret"] \in confirmed
    BY <2>2, <2>3 DEF SecretEnabled, Security
  <2>5. ASSUME NEW p \in Reqs \ {r}, NEW i, Confirming(req'[p]), i = req'[p].copy["id"],
               "secret" \in req'[p].dirty
        PROVE  Excused(i)'
    <3>1. CASE "secret" \in Differ(row, row')
      <4>1. "secret" \in stale'
        BY <2>2, <3>1 DEF Differ, Security
      <4>2. QED
        BY <4>1 DEF Excused
    <3>2. CASE resetup \/ row["erased"] \/ stale \cap {"secret", "erased"} # {}
      BY <2>2, <2>3, <3>2 DEF Excused, Security
    <3>3. CASE row["id"] # i /\ Forgotten(i)
      <4>1. CASE row'["id"] # i /\ Forgotten(i)'
        BY <4>1 DEF Excused
      <4>2. CASE q.op \in FullSaves /\ Columns \subseteq q.dirty
        <5>1. "secret" \in stale'
          BY <2>2, <4>2, ColumnNames DEF Security
        <5>2. QED
          BY <5>1 DEF Excused
      <4>3. QED
        BY <3>3, <4>1, <4>2, SaveForgets
    <3>4. QED
      BY <1>9, <2>5, <3>1, <3>2, <3>3 DEF Excused
  <2>6. QED
    BY <2>4, <2>5
<1>14. QED
  BY <1>10, <1>11, <1>12, <1>13

LEMMA InsertKeepsSecret ==
    ASSUME Reliance, NewIdentities, SecretEnabled, NEW r \in Reqs, Insert(r), row["id"] = 0
    PROVE  SecretEnabled'
<1>1. /\ Others(r, Columns) /\ row' = NewRow(req[r].k) /\ req[r].at = "insert" /\ req'[r].at = "save"
      /\ req'[r].copy = req[r].copy /\ req'[r].op = req[r].op /\ confirmed' = confirmed
  BY Inserts
<1>2. row'["id"] = req[r].k /\ ~row'["twofa"]
  BY <1>1 DEF NewRow
<1>3. req[r].copy["id"] = req[r].k /\ req[r].op # "verifyTwoFactor"
  BY <1>1, InsertsItself DEF Reliance
<1>4. ASSUME NEW q \in Reqs, Confirming(req'[q]), NEW i, i = req'[q].copy["id"]
      PROVE  i # 0 /\ req'[q].copy["secret"] \in confirmed' /\ Excused(i)'
  <2>1. q # r
    BY <1>1, <1>3, <1>4 DEF Confirming
  <2>2. /\ req'[q].copy = req[q].copy /\ req[q].at = "save"
        /\ req'[q].copy["id"] # 0 /\ req'[q].copy["secret"] \in confirmed'
    BY <1>1, <1>4, <2>1, ConfirmsStill
  <2>3. i # req[r].k
    BY <1>1, <1>4, <2>1, <2>2 DEF NewIdentities
  <2>4. ASSUME NEW p \in Reqs, Holds(req'[p]), req'[p].copy["id"] = i
        PROVE  Columns \subseteq req'[p].dirty
    <3>1. p # r
      BY <1>1, <1>3, <2>3, <2>4
    <3>2. LosesSight(req[p], req'[p], Columns)
      BY <1>1, <3>1 DEF Others
    <3>3. QED
      BY <2>4, <3>2 DEF LosesSight, Holds
  <2>5. Forgotten(i)'
    BY <2>4 DEF Forgotten
  <2>6. QED
    BY <1>2, <1>4, <2>2, <2>3, <2>5 DEF Excused
<1>5. QED
  BY <1>2, <1>4 DEF SecretEnabled, Confirming, Excused, Forgotten

LEMMA SecretStep ==
    ASSUME Reliance, CountKnown, NewIdentities, SecretEnabled, NEW r \in Reqs, Step(r)
    PROVE  SecretEnabled'
<1>1. CASE ~Writer(r)
  <2>1. Quiet(r)
    BY <1>1, StepsAreQuiet
  <2>2. PICK changed \in {{}, {"record"}} : Others(r, changed)
    BY <2>1 DEF Quiet
  <2>3. SparesSecret(r)
    BY <2>1 DEF Quiet, SparesSecret
  <2>4. QED
    BY <2>2, <2>3, SecretSpared
<1>2. CASE DeleteRow(r) \/ AutoVerify(r) \/ CountFailure(r)
  <2>1. /\ \A c \in Security : row'[c] = row[c]
        /\ row'["id"] \in {0, row["id"]} /\ stale \cap Security \subseteq stale'
        /\ resetup' = resetup /\ confirmed' = confirmed /\ Others(r, Differ(row, row'))
        /\ \/ req'[r].at = "idle" /\ req'[r].copy["id"] = 0
           \/ Holds(req'[r]) /\ req'[r].copy["id"] = row["id"] /\ req'[r].at = "clear"
    <3>1. CASE DeleteRow(r)
      BY <3>1, Deletes, SecurityColumns
    <3>2. CASE AutoVerify(r)
      BY <3>2, AutoVerifies, SecurityColumns, ColumnNames
    <3>3. CASE CountFailure(r)
      BY <3>3, Failures, SecurityColumns, ColumnNames
    <3>4. QED
      BY <1>2, <3>1, <3>2, <3>3
  <2>2. SparesSecret(r) /\ "secret" \notin Differ(row, row')
    BY <2>1 DEF SparesSecret, KeepsIdentity, KeepsSecret, Differ, Security
  <2>3. QED
    BY <2>1, <2>2, SecretSpared
<1>3. CASE Save(r)
  BY <1>3, SaveKeepsSecret
<1>4. CASE Insert(r) /\ row["id"] = 0
  BY <1>4, InsertKeepsSecret
<1>5. QED
  BY <1>1, <1>2, <1>3, <1>4 DEF Writer

-----------------------------------------------------------------------------
(* The address of an account, and its link. *)

Address == {"id", "mail", "verified", "erased"}

LEMMA AddressColumns == Address \subseteq Columns \ Lock
BY DEF Address, Columns, Lock

\* The witnesses of a link are the other requests', and stay.
LEMMA WitnessesStay ==
    ASSUME Reached, NEW r \in Reqs, NEW changed, Others(r, changed),
           links \subseteq links', told \subseteq told',
           row'["mail"] = row["mail"], row'["id"] = row["id"],
           req[r].at = "send" => Reached' \/ req[r].copy["mail"] # row["mail"],
           req[r].at = "save" /\ "verified" \in req[r].own /\ req[r].copy["verified"]
               => Reached' \/ req[r].copy["id"] # row["id"]
    PROVE  Reached'
<1>1. CASE row["mail"] \in links \cup told
  BY <1>1 DEF Reached
<1>2. ASSUME NEW q \in Reqs \ {r}, \/ req[q].at = "send" /\ req[q].copy["mail"] = row["mail"]
                                   \/ /\ req[q].at = "save" /\ "verified" \in req[q].own
                                      /\ req[q].copy["verified"] /\ req[q].copy["id"] = row["id"]
      PROVE  Reached'
  <2>1. LosesSight(req[q], req'[q], changed)
    BY DEF Others
  <2>2. req'[q].at = req[q].at /\ req'[q].copy = req[q].copy /\ req'[q].own = req[q].own
    BY <2>1 DEF LosesSight
  <2>3. QED
    BY <1>2, <2>2 DEF Reached
<1>3. QED
  BY <1>1, <1>2 DEF Reached

LEMMA QuietKeepsAddress ==
    ASSUME AddressReached, NEW r \in Reqs, Quiet(r)
    PROVE  AddressReached'
<1>1. PICK changed : Others(r, changed)
  BY DEF Quiet
<1>2. UNCHANGED <<row, stale>> /\ links \subseteq links' /\ told \subseteq told' /\ KeepsAddress(r)
  BY DEF Quiet
<1>3. req[r].at = "send" => Reached' \/ req[r].copy["mail"] # row["mail"]
  BY <1>2 DEF KeepsAddress, Reached
<1>4. Reached => Reached'
  BY <1>1, <1>2, <1>3, WitnessesStay DEF KeepsAddress
<1>5. QED
  BY <1>2, <1>4 DEF AddressReached

LEMMA SaveKeepsAddress ==
    ASSUME Reliance, AddressReached, NEW r \in Reqs, Save(r)
    PROVE  AddressReached'
<1> DEFINE q    == req[r]
           cols == Head(q.saves)
<1>1. q.at = "save"
  BY DEF Save
<1>2. /\ cols \subseteq Columns /\ PlannedColumns(q)
      /\ \/ cols = Columns /\ q.op \in FullSaves /\ Len(q.saves) = 1
         \/ cols = Lock /\ q.op \in FullSaves /\ Len(q.saves) = 2
         \/ cols = q.own /\ q.op \notin FullSaves /\ Len(q.saves) = 1
  BY <1>1, SaveKinds
<1>3. /\ \A c \in Columns : row'[c] = IF c \in cols THEN q.copy[c] ELSE row[c]
      /\ \A c \in Columns \ (q.own \cap cols) : c \notin stale' => c \notin stale /\ row'[c] = row[c]
  BY SaveColumns
<1>4. /\ Others(r, Differ(row, row')) /\ links' = links /\ told \subseteq told'
      /\ (q.op = "changeEmail" /\ NeedsVerification(q.copy)) => req'[r].at = "send" /\ req'[r].copy = q.copy
      /\ Len(q.saves) # 1 => req'[r].at = "save" /\ req'[r].copy = q.copy /\ req'[r].own = q.own
  BY SaveRelies
<1>5. SUFFICES ASSUME row'["id"] # 0, ~row'["verified"], ~row'["erased"],
                      stale' \cap {"id", "mail", "verified", "erased"} = {}
               PROVE  Reached'
  BY DEF AddressReached
<1>6. CASE q.op = "changeEmail"
  <2>1. cols = {"mail", "verified"} /\ (q.copy["verified"] \/ NeedsVerification(q.copy))
    BY <1>2, <1>6 DEF PlannedColumns, FullSaves
  <2>2. row'["mail"] = q.copy["mail"] /\ row'["verified"] = q.copy["verified"]
    BY <1>3, <2>1, ColumnNames
  <2>3. req'[r].at = "send" /\ req'[r].copy["mail"] = row'["mail"]
    BY <1>4, <1>5, <1>6, <2>1, <2>2
  <2>4. QED
    BY <2>3 DEF Reached
<1>7. CASE q.op = "anonymize" /\ cols = Columns
  <2>1. row'["erased"]
    BY <1>2, <1>3, <1>7, ColumnNames DEF PlannedColumns
  <2>2. QED
    BY <1>5, <2>1
<1>8. CASE q.op # "changeEmail" /\ ~(q.op = "anonymize" /\ cols = Columns)
  <2>1. /\ q.op = "anonymize" => cols \cap Address = {}
    BY <1>2, <1>8, AddressColumns DEF FullSaves
  <2>2. CASE "mail" \in q.own \cap cols
    <3>1. q.op = "editUser"
      BY <1>2, <1>8, <2>1, <2>2 DEF PlannedColumns, Address
    <3>2. told' = told \cup {q.copy["mail"]}
      BY <2>2, <3>1 DEF Save
    <3>3. row'["mail"] = q.copy["mail"]
      BY <1>3, <2>2, ColumnNames
    <3>4. QED
      BY <3>2, <3>3 DEF Reached
  <2>3. CASE "verified" \in q.own \cap cols
    <3>1. q.copy["verified"]
      BY <1>2, <1>8, <2>1, <2>3 DEF PlannedColumns, Address
    <3>2. QED
      BY <1>3, <1>5, <2>3, <3>1, ColumnNames
  <2>4. CASE "mail" \notin q.own \cap cols /\ "verified" \notin q.own \cap cols
    <3>1. "id" \notin q.own /\ "erased" \notin q.own \cap cols
      BY <1>2, <2>1 DEF PlannedColumns, Address
    <3>2. \A c \in {"id", "mail", "verified", "erased"} : c \notin stale /\ row'[c] = row[c]
      BY <1>3, <1>5, <2>4, <3>1, ColumnNames
    <3>3. Reached
      BY <1>5, <3>2 DEF AddressReached
    <3>4. "verified" \in q.own /\ q.copy["verified"] /\ q.copy["id"] = row["id"] => Reached'
      <4>1. SUFFICES ASSUME "verified" \in q.own, q.copy["verified"], q.copy["id"] = row["id"]
                     PROVE  Reached'
        OBVIOUS
      <4>2. Len(q.saves) # 1
        BY <1>2, <2>4, <4>1, ColumnNames
      <4>3. /\ req'[r].at = "save" /\ "verified" \in req'[r].own /\ req'[r].copy["verified"]
            /\ req'[r].copy["id"] = row'["id"]
        BY <1>4, <3>2, <4>1, <4>2
      <4>4. QED
        BY <4>3 DEF Reached
    <3>5. QED
      BY <1>1, <1>4, <3>2, <3>3, <3>4, WitnessesStay
  <2>5. QED
    BY <2>2, <2>3, <2>4
<1>9. QED
  BY <1>6, <1>7, <1>8

LEMMA AddressStep ==
    ASSUME Reliance, CountKnown, AddressReached, NEW r \in Reqs, Step(r)
    PROVE  AddressReached'
<1>1. CASE ~Writer(r)
  BY <1>1, StepsAreQuiet, QuietKeepsAddress
<1>2. CASE Save(r)
  BY <1>2, SaveKeepsAddress
<1>3. CASE DeleteRow(r) \/ AutoVerify(r) \/ CountFailure(r)
  <2>1. SUFFICES ASSUME row'["id"] # 0, ~row'["verified"], ~row'["erased"],
                        stale' \cap {"id", "mail", "verified", "erased"} = {}
                 PROVE  Reached'
    BY DEF AddressReached
  <2>2. /\ \A c \in Address : row'[c] = row[c]
        /\ stale \cap Address \subseteq stale' /\ Others(r, Differ(row, row'))
        /\ links' = links /\ told' = told /\ req[r].at \notin {"save", "send"}
    <3>1. CASE DeleteRow(r)
      <4>1. req[r].at = "delete"
        BY <3>1 DEF DeleteRow
      <4>2. QED
        BY <2>1, <3>1, <4>1, Deletes, AddressColumns
    <3>2. CASE AutoVerify(r)
      BY <2>1, <3>2, AutoVerifies, AddressColumns
    <3>3. CASE CountFailure(r)
      BY <3>3, Failures, AddressColumns
    <3>4. QED
      BY <1>3, <3>1, <3>2, <3>3
  <2>3. Reached
    BY <2>1, <2>2 DEF AddressReached, Address
  <2>4. QED
    BY <2>2, <2>3, WitnessesStay DEF Address
<1>4. CASE Insert(r) /\ row["id"] = 0
  <2>1. /\ row' = NewRow(req[r].k) /\ req[r].at = "insert" /\ req'[r].at = "save"
        /\ req'[r].copy = req[r].copy /\ req'[r].own = req[r].own
    BY <1>4, Inserts
  <2>2. req[r].copy["id"] = row'["id"]
    BY <2>1, InsertsItself DEF Reliance, NewRow
  <2>3. "verified" \in req[r].own /\ req[r].copy["verified"]
    BY <2>1 DEF Reliance, RequestsArePlanned, Planned
  <2>4. QED
    BY <2>1, <2>2, <2>3 DEF AddressReached, Reached
<1>5. QED
  BY <1>1, <1>2, <1>3, <1>4 DEF Writer

-----------------------------------------------------------------------------
LEMMA AccountInitially == Init => AccountInv
<1> SUFFICES ASSUME Init
             PROVE  AccountInv
  OBVIOUS
<1> USE DEF Init
<1>1. PICK who \in {"none", "client", "staff", "super"}, v \in BOOLEAN :
         /\ row = IF who = "none" THEN NoRow
                  ELSE [NewRow(0) EXCEPT !["id"] = MaxRequests, !["verified"] = v,
                                         !["staff"] = who \in {"staff", "super"},
                                         !["super"] = who = "super"]
         /\ who = "none" <=> mix \cap {"register", "createSuperuser"} # {}
         /\ who \in {"none", "client"} => v
         /\ links = IF v THEN {} ELSE {0}
  BY DEF Init
<1>2. NewRow(0)["twofa"] = FALSE /\ NewRow(0)["failed"] = 0 /\ NewRow(0)["mail"] = 0 /\ NewRow(0)["id"] = 0
  BY DEF NewRow
<1>3. CASE who = "none"
  <2>1. IsRow(NoRow) /\ \A c \in Columns \ {"active"} : NoRow[c] = NewRow(0)[c]
    BY ColumnSet, ColumnNames DEF NoRow
  <2>2. /\ IsRow(row) /\ row["failed"] = 0 /\ ~row["twofa"] /\ row["id"] = 0
    BY <1>1, <1>2, <1>3, <2>1, ColumnNames
  <2>3. AddressReached
    BY <2>2 DEF AddressReached
  <2>4. QED
    BY <2>2, <2>3, GoodEnded, EndedIdentity, FS_EmptySet
       DEF AccountInv, CounterInv, AccountShapes, CopiesInSight, RequestsArePlanned, LastWordHolds, CountKnown,
           FirstRecordsSeen, NewIdentities, SecretEnabled, Good, Planned, Holds
<1>4. CASE who # "none"
  <2> DEFINE a == [NewRow(0) EXCEPT !["id"] = MaxRequests]
             b == [a EXCEPT !["verified"] = v]
             c == [b EXCEPT !["staff"] = who \in {"staff", "super"}]
             d == [c EXCEPT !["super"] = who = "super"]
  <2>1. row = d
    BY <1>1, <1>4
  <2>2. IsRow(a) /\ \A x \in Columns \ {"id"} : a[x] = NewRow(0)[x]
    BY ColumnSet, ColumnNames
  <2> HIDE DEF a
  <2>3. IsRow(b) /\ b["verified"] = v /\ \A x \in Columns \ {"verified"} : b[x] = a[x]
    BY <2>2, ColumnSet, ColumnNames
  <2> HIDE DEF b
  <2>4. IsRow(c) /\ \A x \in Columns \ {"staff"} : c[x] = b[x]
    BY <2>3, ColumnSet, ColumnNames
  <2> HIDE DEF c
  <2>5. IsRow(d) /\ \A x \in Columns \ {"super"} : d[x] = c[x]
    BY <2>4, ColumnSet, ColumnNames
  <2> HIDE DEF d
  <2>6. /\ IsRow(row) /\ row["failed"] = 0 /\ ~row["twofa"] /\ row["mail"] = 0 /\ row["verified"] = v
    <3>1. \A x \in {"failed", "twofa", "mail"} : x \in Columns \ {"id", "verified", "staff", "super"}
      BY ColumnNames
    <3>2. \A x \in {"failed", "twofa", "mail"} : d[x] = NewRow(0)[x]
      BY <2>2, <2>3, <2>4, <2>5, <3>1
    <3>3. d["verified"] = v
      BY <2>3, <2>4, <2>5, ColumnNames
    <3>4. QED
      BY <1>2, <2>1, <2>5, <3>2, <3>3
  <2>7. ~Creates
    BY <1>1, <1>4 DEF Creates
  <2>8. AddressReached
    BY <1>1, <2>6 DEF AddressReached, Reached
  <2>9. QED
    BY <2>6, <2>7, <2>8, GoodEnded, EndedIdentity
       DEF AccountInv, CounterInv, AccountShapes, CopiesInSight, RequestsArePlanned, LastWordHolds, CountKnown,
           FirstRecordsSeen, NewIdentities, SecretEnabled, Good, Planned, Holds
<1>5. QED
  BY <1>3, <1>4

LEMMA AccountInvariance == AccountInv /\ [Next]_vars => AccountInv'
<1> SUFFICES ASSUME AccountInv, [Next]_vars
             PROVE  AccountInv'
  OBVIOUS
<1>1. ASSUME NEW r \in Reqs, Step(r)
      PROVE  AccountInv'
  <2>1. /\ Reliance /\ CountKnown /\ CounterInv /\ NewIdentities /\ SecretEnabled /\ AddressReached
    BY DEF AccountInv, CounterInv, Reliance
  <2>2. CounterInv'
    BY <1>1, <2>1, CounterStep
  <2>3. NewIdentities'
    BY <1>1, <2>1, <2>2, IdentityStep DEF CounterInv
  <2>4. SecretEnabled' /\ AddressReached'
    BY <1>1, <2>1, SecretStep, AddressStep
  <2>5. QED
    BY <2>2, <2>3, <2>4 DEF AccountInv
<1>2. CASE Tick \/ UNCHANGED vars
  <2>1. UNCHANGED <<row, recs, links, req, begun, mix, said, stale, fails, raced, told, confirmed, resetup,
                    twinned, uncounted>>
    BY <1>2 DEF Tick, vars, history
  <2>2. CounterInv'
    BY <2>1 DEF AccountInv, CounterInv, AccountShapes, CopiesInSight, RequestsArePlanned, LastWordHolds,
       CountKnown, FirstRecordsSeen
  <2>3. NewIdentities' /\ SecretEnabled' /\ AddressReached'
    BY <2>1 DEF AccountInv, NewIdentities, Creates, SecretEnabled, Forgotten, AddressReached, Reached
  <2>4. QED
    BY <2>2, <2>3 DEF AccountInv
<1>3. QED
  BY <1>1, <1>2 DEF Next

\* The inductive invariant of the account.
THEOREM AccountInductive == Spec => []AccountInv
BY AccountInitially, AccountInvariance, PTL DEF Spec

\* A committed change lasts: whatever the interleaving, a column differs from
\* the last word on it only when it is stale, that is when a full save wrote
\* back an older value.
THEOREM LastWord == Spec => []LastWordHolds
<1>1. AccountInv => LastWordHolds
  BY DEF AccountInv, CounterInv
<1>2. QED
  BY <1>1, AccountInductive, PTL

\* The account's counter is the number of failures since the last reset,
\* unless two writers of it overlapped.
THEOREM CounterIsExact == Spec => []CounterExact
<1>1. AccountInv => CounterExact
  BY DEF AccountInv, CounterInv, CountKnown, CounterExact
<1>2. QED
  BY <1>1, AccountInductive, PTL

\* A staff account that has to verify its address is reached by a link or is
\* told; 2FA that is on has a confirmed secret.
THEOREM ConfirmationsAreHeld == Spec => []ConfirmationsHold
<1>1. AccountInv => ConfirmationsHold
  <2>1. AccountInv => LinkFollowsAddress
    BY DEF AccountInv, AddressReached, Reached, LinkFollowsAddress
  <2>2. AccountInv => EnabledSecretConfirmed
    BY DEF AccountInv, SecretEnabled, EnabledSecretConfirmed
  <2>3. QED
    BY <2>1, <2>2 DEF ConfirmationsHold
<1>2. QED
  BY <1>1, AccountInductive, PTL

\* Two failure records of one e-mail and address come only from two first
\* failures that overlapped, and a failure that was not counted only from them.
THEOREM TwinsOverlapped == Spec => []TwinsOnlyByOverlap
<1>1. FirstRecordsSeen => TwinsOnlyByOverlap
  <2>1. SUFFICES ASSUME FirstRecordsSeen, ~twinned
                 PROVE  ~(Cardinality(recs) > 1) /\ ~uncounted
    BY DEF TwinsOnlyByOverlap
  <2>2. recs = {} \/ \E f : recs = {f}
    BY <2>1 DEF FirstRecordsSeen
  <2>3. Cardinality(recs) \in {0, 1}
    BY <2>2, FS_EmptySet, FS_Singleton
  <2>4. QED
    BY <2>1, <2>3 DEF FirstRecordsSeen
<1>2. AccountInv => TwinsOnlyByOverlap
  BY <1>1 DEF AccountInv, CounterInv
<1>3. QED
  BY <1>2, AccountInductive, PTL
-----------------------------------------------------------------------------
(*****************************************************************************)
(* ThreatEngine: the counters of an address and the block they lead to.      *)
(*****************************************************************************)
\* A visit has the fields of Vacant.
IsVisit(v) ==
    /\ v \in [at : {v.at}, pk : {v.pk}, copy : {v.copy}, after : {v.after}, unseen : {v.unseen},
              dirty : {v.dirty}]
    /\ v.copy \in SuspiciousIP

EngineTypes ==
    /\ clock \in Nat \ {0} /\ suspicious \in SuspiciousIP /\ block \in BlockedIP
    /\ promised \in Nat /\ failures \in Nat /\ escalations \in Nat
    /\ visit = [r \in Servers |-> visit[r]] /\ \A r \in Servers : IsVisit(visit[r])

\* The counters of a row that was read, while nothing has written over them.
CountersInHand(v) ==
    /\ v.at \in {"countBlock", "saveFailed"} =>
         /\ v.copy # NoCopy /\ v.copy.blocks <= escalations
         /\ "blocks" \notin v.dirty => v.copy.blocks = suspicious.blocks
    /\ v.at = "saveFailed" =>
         /\ v.copy.failed # 0
         /\ "failed" \notin v.dirty => v.copy.failed = 1 \/ v.copy.failed = suspicious.failed + 1

\* Where a visit has passed the gate, and where it may have put a block itself.
PastGate(v) ==
    \/ v.at \in {"rate", "password", "count", "blockAttempts", "saveSuccess", "lift", "check",
                 "blockAttack"}
    \/ v.at = "discard" /\ v.after = "rate"
    \/ v.at \in {"countBlock", "block"} /\ v.after = "saveRate"
    \/ v.at = "saveRate" /\ v.copy.requests <= RateLimit
PastAttempts(v) ==
    \/ v.at \in {"failed", "saveFailed"}
    \/ v.at \in {"countBlock", "block"} /\ v.after = "idle"

\* What a visit that has seen every change of the block relies on.
BlockInSight(v) ==
    /\ v.at \in {"countBlock", "block"} =>
         v.after = "idle" \/ (v.after = "saveRate" /\ v.copy.requests > RateLimit)
    /\ v.at = "discard" => v.after \in {"idle", "login", "rate"}
    /\ ~v.unseen /\ v.at = "discard" /\ block.id = v.pk => IsExpired(block)
    /\ ~v.unseen /\ ~overlapped /\ kind # "trusted" =>
         /\ PastGate(v) => promised < clock
         /\ PastAttempts(v) => promised <= clock + AttemptsBlock

\* The failures are known when they were, and the block outlasts their window.
AttemptsKnown ==
    /\ IsFiniteSet(attempts)
    /\ \A a \in attempts : a.at \in Nat /\ a.at <= clock
    /\ (Recent >= MaxFailures /\ ~lifted
          /\ \A r \in Servers : visit[r].at \notin {"count", "blockAttempts"})
       => block.id # 0 /\ \A a \in attempts : block.until >= a.at + Window

EngineInv ==
    /\ EngineTypes /\ \A r \in Servers : CountersInHand(visit[r]) /\ BlockInSight(visit[r])
    /\ CountersExact /\ BlockHolds /\ AttemptsKnown
-----------------------------------------------------------------------------
(* What is in a visit's hands. *)

LEMMA EngineConstants ==
    /\ MaxFailures \in Nat \ {0} /\ ManyAttempts \in Nat /\ Window \in Nat /\ AttemptsBlock \in Nat
    /\ BlockDuration \in Nat /\ MaxDuration \in Nat /\ RateWindow \in Nat /\ RateLimit \in Nat
    /\ RiskLimit \in Nat /\ SafeRisk \in Nat /\ BaseRisk \in Nat /\ MaxRisk \in Nat
    /\ Window <= AttemptsBlock /\ AttemptsBlock <= BlockDuration /\ BlockDuration <= MaxDuration
    /\ Fades \subseteq 0..10 /\ IsFiniteSet(Servers)
BY ThreatAssumption

LEMMA VacantIs ==
    /\ IsVisit(Vacant) /\ Vacant.at = "idle" /\ Vacant.copy = NoCopy /\ Vacant.dirty = {}
    /\ Vacant.after = "idle" /\ Vacant.unseen = FALSE
BY DEF Vacant, NoCopy, IsVisit, SuspiciousIP

\* A visit that goes on to a label, with nothing in its hands or with a row.
GoesOn(v, r, label, copy, after) ==
    /\ IsVisit(v) /\ v.at = label /\ v.copy = copy /\ v.after = after /\ v.dirty = {}
    /\ v.unseen = visit[r].unseen

LEMMA GoesToIs ==
    ASSUME NEW r, NEW label, label # "idle"
    PROVE  GoesOn(GoesTo(r, label), r, label, NoCopy, "idle")
<1> DEFINE a == [Vacant EXCEPT !.at = label]
           b == [a EXCEPT !.unseen = visit[r].unseen]
<1>1. a \in [at : {label}, pk : {0}, copy : {NoCopy}, after : {"idle"}, unseen : {FALSE}, dirty : {{}}]
  BY DEF Vacant
<1>2. GoesTo(r, label) = b
  BY DEF GoesTo
<1> HIDE DEF a
<1>3. b \in [at : {label}, pk : {0}, copy : {NoCopy}, after : {"idle"}, unseen : {visit[r].unseen},
             dirty : {{}}]
  BY <1>1
<1> HIDE DEF b
<1>4. NoCopy \in SuspiciousIP
  BY DEF NoCopy, SuspiciousIP
<1>5. QED
  BY <1>2, <1>3, <1>4 DEF GoesOn, IsVisit

LEMMA HoldingIs ==
    ASSUME NEW r, NEW copy \in SuspiciousIP, NEW label, label # "idle", NEW after
    PROVE  GoesOn(Holding(r, copy, label, after), r, label, copy, after)
<1> DEFINE g == GoesTo(r, label)
           a == [g EXCEPT !.copy = copy]
           b == [a EXCEPT !.after = after]
<1>1. g \in [at : {label}, pk : {g.pk}, copy : {NoCopy}, after : {"idle"}, unseen : {visit[r].unseen}, dirty : {{}}]
  BY GoesToIs DEF GoesOn, IsVisit
<1>2. Holding(r, copy, label, after) = b
  BY DEF Holding
<1> HIDE DEF g
<1>3. a \in [at : {label}, pk : {g.pk}, copy : {copy}, after : {"idle"}, unseen : {visit[r].unseen}, dirty : {{}}]
  BY <1>1
<1> HIDE DEF a
<1>4. b \in [at : {label}, pk : {g.pk}, copy : {copy}, after : {after}, unseen : {visit[r].unseen}, dirty : {{}}]
  BY <1>3
<1> HIDE DEF b
<1>5. QED
  BY <1>2, <1>4 DEF GoesOn, IsVisit

\* The rows the engine makes of the row it read.
LEMMA RateCheckedIs ==
    ASSUME NEW s \in SuspiciousIP, clock \in Nat
    PROVE  /\ RateChecked(s) \in SuspiciousIP /\ RateChecked(s) # NoCopy
           /\ RateChecked(s).blocks = s.blocks
<1> DEFINE n == (IF clock - s.last > RateWindow THEN 0 ELSE s.requests) + 1
           k == s.risk + IF n > RateLimit THEN BaseRisk ELSE 0
<1>1. n \in Nat \ {0}
  BY DEF SuspiciousIP
<1>2. k \in Nat
  BY EngineConstants DEF SuspiciousIP
<1> DEFINE a == [s EXCEPT !.requests = n]
           b == [a EXCEPT !.last = clock]
           c == [b EXCEPT !.risk = k]
<1>3. RateChecked(s) = c
  BY DEF RateChecked
<1> HIDE DEF n, k
<1>4. a \in SuspiciousIP /\ a.requests = n /\ a.blocks = s.blocks
  BY <1>1 DEF SuspiciousIP
<1> HIDE DEF a
<1>5. b \in SuspiciousIP /\ b.requests = n /\ b.blocks = s.blocks
  BY <1>4 DEF SuspiciousIP
<1> HIDE DEF b
<1>6. c \in SuspiciousIP /\ c.requests = n /\ c.blocks = s.blocks
  BY <1>2, <1>5 DEF SuspiciousIP
<1> HIDE DEF c
<1>7. c # NoCopy
  BY <1>1, <1>6 DEF NoCopy
<1>8. QED
  BY <1>3, <1>6, <1>7

LEMMA DecayedIs ==
    ASSUME NEW s \in SuspiciousIP, NEW d \in Decayed(s)
    PROVE  d \in SuspiciousIP /\ d.blocks = s.blocks /\ d.failed \in {0, s.failed}
<1>1. \A f \in Fades : (f * s.risk) \div 10 \in Nat
  <2>1. SUFFICES ASSUME NEW f \in Fades
                 PROVE  (f * s.risk) \div 10 \in Nat
    OBVIOUS
  <2>2. f \in Nat /\ s.risk \in Nat
    BY EngineConstants DEF SuspiciousIP
  <2>3. f * s.risk \in Nat
    BY <2>2
  <2>4. QED
    BY <2>3
<1>2. PICK k \in IF clock > s.last THEN {(f * s.risk) \div 10 : f \in Fades} ELSE {s.risk} :
         d = [s EXCEPT !.risk = k, !.failed = IF k < SafeRisk THEN 0 ELSE s.failed,
                       !.requests = IF k < SafeRisk THEN 0 ELSE s.requests]
  BY DEF Decayed
<1>3. k \in Nat
  BY <1>1, <1>2 DEF SuspiciousIP
<1>4. QED
  BY <1>2, <1>3, EngineConstants DEF SuspiciousIP

LEMMA FailedLoginIs ==
    ASSUME NEW s \in SuspiciousIP, clock \in Nat, NEW copy \in FailedLogin(s)
    PROVE  /\ copy \in SuspiciousIP /\ copy.blocks = s.blocks
           /\ copy.failed # 0 /\ (copy.failed = 1 \/ copy.failed = s.failed + 1)
<1>1. PICK d \in Decayed(s) :
         copy = [d EXCEPT !.failed = d.failed + 1, !.last = clock,
                          !.risk = d.risk + LeastOf(BaseRisk + d.failed + 1, MaxRisk)]
  BY DEF FailedLogin
<1>2. d \in SuspiciousIP /\ d.blocks = s.blocks /\ d.failed \in {0, s.failed}
  BY DecayedIs
<1>3. d.risk + LeastOf(BaseRisk + d.failed + 1, MaxRisk) \in Nat
  <2> DEFINE n == BaseRisk + d.failed + 1
  <2>1. n \in Nat /\ d.risk \in Nat
    BY <1>2, EngineConstants DEF SuspiciousIP
  <2> HIDE DEF n
  <2>2. LeastOf(n, MaxRisk) \in Nat
    BY <2>1, EngineConstants DEF LeastOf
  <2>3. QED
    BY <2>1, <2>2 DEF n
<1> DEFINE k == d.risk + LeastOf(BaseRisk + d.failed + 1, MaxRisk)
           n == d.failed + 1
           b == [d EXCEPT !.failed = n]
           c == [b EXCEPT !.last = clock]
<1>4. copy = [c EXCEPT !.risk = k]
  BY <1>1
<1>5. k \in Nat /\ n \in Nat /\ n # 0 /\ (n = 1 \/ n = s.failed + 1)
  BY <1>2, <1>3 DEF SuspiciousIP
<1> HIDE DEF k, n
<1>6. b \in SuspiciousIP /\ b.failed = n /\ b.blocks = s.blocks
  BY <1>2, <1>5 DEF SuspiciousIP
<1> HIDE DEF b
<1>7. c \in SuspiciousIP /\ c.failed = n /\ c.blocks = s.blocks
  BY <1>6 DEF SuspiciousIP
<1> HIDE DEF c
<1>8. copy \in SuspiciousIP /\ copy.failed = n /\ copy.blocks = s.blocks
  BY <1>4, <1>5, <1>7 DEF SuspiciousIP
<1>9. QED
  BY <1>5, <1>8

LEMMA SuccessfulLoginIs ==
    ASSUME NEW s \in SuspiciousIP, clock \in Nat, NEW copy \in SuccessfulLogin(s)
    PROVE  copy \in SuspiciousIP
<1>1. PICK d \in Decayed(s) :
         copy = [d EXCEPT !.failed = 0, !.requests = 0, !.last = clock, !.risk = (3 * d.risk) \div 10]
  BY DEF SuccessfulLogin
<1>2. d \in SuspiciousIP
  BY DecayedIs
<1>3. (3 * d.risk) \div 10 \in Nat
  BY <1>2 DEF SuspiciousIP
<1>4. QED
  BY <1>1, <1>2, <1>3 DEF SuspiciousIP

LEMMA DurationIs ==
    ASSUME NEW s \in SuspiciousIP
    PROVE  Duration(s) \in Nat /\ BlockDuration <= Duration(s)
<1>1. PICK m \in Nat : m = MostOf(s.blocks, 1) /\ m >= 1
  BY DEF MostOf, SuspiciousIP
<1>2. BlockDuration * m \in Nat /\ BlockDuration <= BlockDuration * m
  BY <1>1, EngineConstants
<1>3. QED
  BY <1>1, <1>2, EngineConstants DEF Duration, LeastOf

\* There is always a primary key no visit remembers.
LEMMA NewKeyIs == NewKey \in Nat \ {0}
<1> DEFINE N    == Cardinality(Servers)
           keys == {visit[r].pk : r \in Servers}
<1>1. IsFiniteSet(Servers) /\ N \in Nat
  BY EngineConstants, FS_CardinalityType
<1>2. IsFiniteSet(keys) /\ Cardinality(keys) <= N
  <2> DEFINE f == [r \in Servers |-> visit[r].pk]
  <2>1. f \in Surjection(Servers, keys)
    BY DEF Surjection
  <2> HIDE DEF f, keys
  <2>2. QED
    BY <1>1, <2>1, FS_Surjection
<1>3. IsFiniteSet(1..(N + 1)) /\ Cardinality(1..(N + 1)) = N + 1
  BY <1>1, FS_Interval
<1>4. ~(1..(N + 1) \subseteq keys)
  <2>1. SUFFICES ASSUME 1..(N + 1) \subseteq keys
                 PROVE  FALSE
    OBVIOUS
  <2>2. Cardinality(1..(N + 1)) <= Cardinality(keys)
    BY <1>2, <2>1, FS_Subset
  <2>3. Cardinality(keys) \in Nat
    BY <1>2, FS_CardinalityType
  <2>4. QED
    BY <1>1, <1>2, <1>3, <2>2, <2>3
<1>5. \E i \in 1..(N + 1) : \A r \in Servers : visit[r].pk # i
  BY <1>4
<1>6. NewKey \in 1..(N + 1)
  BY <1>5 DEF NewKey
<1>7. QED
  BY <1>1, <1>6

-----------------------------------------------------------------------------
(* What a step does to the others. *)

\* w is v, after a step of somebody else.
Meanwhile(v, w, blockChanged, counters) ==
    /\ IsVisit(w) /\ w.at = v.at /\ w.pk = v.pk /\ w.copy = v.copy /\ w.after = v.after
    /\ v.at # "idle" /\ ~w.unseen => ~v.unseen /\ ~blockChanged
    /\ v.at # "idle" /\ v.copy # NoCopy => w.dirty = v.dirty \cup counters

Moved(r, blockChanged, counters) ==
    /\ visit' = [q \in Servers |-> visit'[q]] /\ IsVisit(visit'[r])
    /\ \A q \in Servers : q # r => Meanwhile(visit[q], visit'[q], blockChanged, counters)

\* What it may change of the rows.
EngineFrame(blockChanged, counters) ==
    /\ clock' = clock /\ kind' = kind /\ (overlapped => overlapped')
    /\ blockChanged \/ (block' = block /\ promised' = promised)
    /\ "blocks" \in counters \/ suspicious'.blocks = suspicious.blocks
    /\ "failed" \in counters \/ suspicious'.failed = suspicious.failed
    /\ escalations' \in Nat /\ escalations <= escalations'

LEMMA IdleMeanwhile ==
    ASSUME NEW v, IsVisit(v), v.at = "idle", NEW blockChanged, NEW counters
    PROVE  Meanwhile(v, v, blockChanged, counters)
BY DEF Meanwhile

LEMMA BusyMeanwhile ==
    ASSUME NEW v, IsVisit(v), NEW unseen, NEW dirty, NEW blockChanged, NEW counters,
           ~unseen => ~v.unseen /\ ~blockChanged,
           v.copy # NoCopy => dirty = v.dirty \cup counters
    PROVE  Meanwhile(v, [v EXCEPT !.unseen = unseen, !.dirty = dirty], blockChanged, counters)
<1> DEFINE a == [v EXCEPT !.unseen = unseen]
           b == [a EXCEPT !.dirty = dirty]
<1>1. v \in [at : {v.at}, pk : {v.pk}, copy : {v.copy}, after : {v.after}, unseen : {v.unseen},
             dirty : {v.dirty}] /\ v.copy \in SuspiciousIP
  BY DEF IsVisit
<1>2. a \in [at : {v.at}, pk : {v.pk}, copy : {v.copy}, after : {v.after}, unseen : {unseen},
             dirty : {v.dirty}]
  BY <1>1
<1> HIDE DEF a
<1>3. b \in [at : {v.at}, pk : {v.pk}, copy : {v.copy}, after : {v.after}, unseen : {unseen},
             dirty : {dirty}]
  BY <1>2
<1> HIDE DEF b
<1>4. IsVisit(b) /\ b.at = v.at /\ b.pk = v.pk /\ b.copy = v.copy /\ b.after = v.after
        /\ b.unseen = unseen /\ b.dirty = dirty
  BY <1>1, <1>3 DEF IsVisit
<1>5. [v EXCEPT !.unseen = unseen, !.dirty = dirty] = b
  BY DEF a, b
<1>6. Meanwhile(v, b, blockChanged, counters)
  BY <1>4 DEF Meanwhile
<1>7. QED
  BY <1>5, <1>6

LEMMA StepIs ==
    ASSUME EngineTypes, NEW r \in Servers, NEW next, IsVisit(next), NEW blockChanged \in BOOLEAN,
           NEW counters, Steps(r, next, blockChanged, counters)
    PROVE  visit'[r] = next /\ Moved(r, blockChanged, counters)
<1>1. visit' = [q \in Servers |-> visit'[q]] /\ visit'[r] = next
  BY DEF Steps
<1>2. ASSUME NEW q \in Servers, q # r
      PROVE  Meanwhile(visit[q], visit'[q], blockChanged, counters)
  <2> DEFINE v == visit[q]
             u == v.unseen \/ blockChanged
             d == IF v.copy = NoCopy THEN {} ELSE v.dirty \cup counters
  <2>1. IsVisit(v)
    BY DEF EngineTypes
  <2>2. visit'[q] = IF v.at = "idle" THEN v ELSE [v EXCEPT !.unseen = u, !.dirty = d]
    BY <1>2 DEF Steps
  <2>3. (~u => ~v.unseen /\ ~blockChanged) /\ (v.copy # NoCopy => d = v.dirty \cup counters)
    OBVIOUS
  <2> HIDE DEF v, u, d
  <2>4. CASE v.at = "idle"
    BY <2>1, <2>2, <2>4, IdleMeanwhile DEF v
  <2>5. CASE v.at # "idle"
    <3>1. Meanwhile(v, [v EXCEPT !.unseen = u, !.dirty = d], blockChanged, counters)
      BY <2>1, <2>3, BusyMeanwhile
    <3>2. visit'[q] = [v EXCEPT !.unseen = u, !.dirty = d]
      BY <2>2, <2>5
    <3>3. QED
      BY <3>1, <3>2 DEF v
  <2>6. QED
    BY <2>4, <2>5
<1>3. QED
  BY <1>1, <1>2 DEF Moved

LEMMA MeanwhileCounters ==
    ASSUME NEW q \in Servers, IsVisit(visit[q]), CountersInHand(visit[q]), EngineTypes,
           NEW blockChanged, NEW counters, EngineFrame(blockChanged, counters),
           Meanwhile(visit[q], visit'[q], blockChanged, counters)
    PROVE  CountersInHand(visit[q])'
<1> DEFINE v == visit[q]
           w == visit'[q]
<1>1. w.at = v.at /\ w.copy = v.copy /\ (v.at # "idle" /\ v.copy # NoCopy => w.dirty = v.dirty \cup counters)
  BY DEF Meanwhile
<1>2. v.copy.blocks \in Nat /\ v.copy.failed \in Nat
  BY DEF IsVisit, SuspiciousIP
<1>3. escalations \in Nat /\ escalations' \in Nat /\ escalations <= escalations'
  BY DEF EngineFrame, EngineTypes
<1>4. ("blocks" \notin counters => suspicious'.blocks = suspicious.blocks)
        /\ ("failed" \notin counters => suspicious'.failed = suspicious.failed)
  BY DEF EngineFrame
<1>5. /\ v.at \in {"countBlock", "saveFailed"} =>
           /\ v.copy # NoCopy /\ v.copy.blocks <= escalations
           /\ "blocks" \notin v.dirty => v.copy.blocks = suspicious.blocks
      /\ v.at = "saveFailed" =>
           /\ v.copy.failed # 0
           /\ "failed" \notin v.dirty => v.copy.failed = 1 \/ v.copy.failed = suspicious.failed + 1
  BY DEF CountersInHand
<1> HIDE DEF v, w
<1>6. /\ w.at \in {"countBlock", "saveFailed"} =>
           /\ w.copy # NoCopy /\ w.copy.blocks <= escalations'
           /\ "blocks" \notin w.dirty => w.copy.blocks = suspicious'.blocks
      /\ w.at = "saveFailed" =>
           /\ w.copy.failed # 0
           /\ "failed" \notin w.dirty => w.copy.failed = 1 \/ w.copy.failed = suspicious'.failed + 1
  BY <1>1, <1>2, <1>3, <1>4, <1>5
<1>7. NoCopy' = NoCopy
  BY DEF NoCopy
<1>8. QED
  BY <1>6, <1>7 DEF CountersInHand, w

LEMMA MeanwhileBlock ==
    ASSUME NEW q \in Servers, BlockInSight(visit[q]),
           NEW blockChanged, NEW counters, EngineFrame(blockChanged, counters),
           Meanwhile(visit[q], visit'[q], blockChanged, counters)
    PROVE  BlockInSight(visit[q])'
BY DEF BlockInSight, PastGate, PastAttempts, IsExpired, Meanwhile, EngineFrame

LEMMA VisitsKept ==
    ASSUME EngineInv, NEW r \in Servers, NEW blockChanged, NEW counters,
           Moved(r, blockChanged, counters), EngineFrame(blockChanged, counters),
           CountersInHand(visit[r])', BlockInSight(visit[r])'
    PROVE  /\ visit' = [q \in Servers |-> visit'[q]]
           /\ \A q \in Servers : IsVisit(visit[q])' /\ CountersInHand(visit[q])' /\ BlockInSight(visit[q])'
<1>1. visit' = [q \in Servers |-> visit'[q]]
  BY DEF Moved
<1>2. ASSUME NEW q \in Servers
      PROVE  IsVisit(visit[q])' /\ CountersInHand(visit[q])' /\ BlockInSight(visit[q])'
  <2>1. IsVisit(visit'[q]) <=> IsVisit(visit[q])'
    BY DEF IsVisit, SuspiciousIP
  <2>2. CASE q = r
    BY <2>1, <2>2 DEF Moved
  <2>3. CASE q # r
    <3>1. Meanwhile(visit[q], visit'[q], blockChanged, counters)
      BY <2>3 DEF Moved
    <3>2. IsVisit(visit[q]) /\ CountersInHand(visit[q]) /\ BlockInSight(visit[q]) /\ EngineTypes
      BY DEF EngineInv, EngineTypes
    <3>3. IsVisit(visit'[q])
      BY <3>1 DEF Meanwhile
    <3>4. CountersInHand(visit[q])'
      BY <3>1, <3>2, MeanwhileCounters
    <3>5. BlockInSight(visit[q])'
      BY <3>1, <3>2, MeanwhileBlock
    <3>6. QED
      BY <2>1, <3>3, <3>4, <3>5
  <2>4. QED
    BY <2>2, <2>3
<1>3. QED
  BY <1>1, <1>2

-----------------------------------------------------------------------------
(* The steps that only read. *)

LEMMA RecentIs ==
    ASSUME IsFiniteSet(attempts)
    PROVE  Recent \in Nat /\ (Recent >= MaxFailures => \E a \in attempts : a.at + Window >= clock)
<1> DEFINE near == {a \in attempts : a.at + Window >= clock}
<1>1. IsFiniteSet(near)
  BY FS_Subset
<1>2. Recent \in Nat /\ (Recent = 0 <=> near = {})
  BY <1>1, FS_CardinalityType, FS_EmptySet DEF Recent
<1>3. MaxFailures \in Nat \ {0}
  BY EngineConstants
<1>4. Recent >= MaxFailures => near # {}
  BY <1>2, <1>3
<1>5. QED
  BY <1>2, <1>4

LEMMA EngineStep ==
    ASSUME EngineInv, NEW r \in Servers, NEW blockChanged, NEW counters,
           Moved(r, blockChanged, counters), EngineFrame(blockChanged, counters),
           CountersInHand(visit[r])', BlockInSight(visit[r])',
           CountersExact', BlockHolds', AttemptsKnown',
           failures' \in Nat, promised' \in Nat, suspicious' \in SuspiciousIP, block' \in BlockedIP
    PROVE  EngineInv'
<1>1. /\ visit' = [q \in Servers |-> visit'[q]]
      /\ \A q \in Servers : IsVisit(visit[q])' /\ CountersInHand(visit[q])' /\ BlockInSight(visit[q])'
  BY VisitsKept
<1>2. clock' \in Nat \ {0} /\ escalations' \in Nat
  BY DEF EngineFrame, EngineInv, EngineTypes
<1>3. SuspiciousIP' = SuspiciousIP /\ BlockedIP' = BlockedIP
  BY DEF SuspiciousIP, BlockedIP
<1>4. EngineTypes'
  BY <1>1, <1>2, <1>3 DEF EngineTypes
<1>5. QED
  BY <1>1, <1>4 DEF EngineInv

\* Whoever is not counting its failed login has nothing to do with what is known of them.
LEMMA AttemptsKept ==
    ASSUME EngineInv, NEW r \in Servers, NEW blockChanged, NEW counters,
           Moved(r, blockChanged, counters), attempts' = attempts, clock' = clock, block' = block,
           lifted => lifted',
           visit[r].at \in {"count", "blockAttempts"} =>
               visit'[r].at \in {"count", "blockAttempts"} \/ Recent < MaxFailures
    PROVE  AttemptsKnown'
<1>1. Recent' = Recent /\ Recent \in Nat
  BY RecentIs DEF Recent, EngineInv, AttemptsKnown
<1>2. MaxFailures \in Nat
  BY EngineConstants
<1>3. ASSUME Recent >= MaxFailures, \A q \in Servers : visit'[q].at \notin {"count", "blockAttempts"}
      PROVE  \A q \in Servers : visit[q].at \notin {"count", "blockAttempts"}
  <2>1. SUFFICES ASSUME NEW q \in Servers
                 PROVE  visit[q].at \notin {"count", "blockAttempts"}
    OBVIOUS
  <2>2. CASE q = r
    <3>1. ~(Recent < MaxFailures)
      BY <1>1, <1>2, <1>3
    <3>2. QED
      BY <1>3, <2>2, <3>1
  <2>3. CASE q # r
    BY <1>3, <2>3 DEF Moved, Meanwhile
  <2>4. QED
    BY <2>2, <2>3
<1>4. QED
  BY <1>1, <1>3 DEF AttemptsKnown, EngineInv

EngineStill == UNCHANGED <<clock, kind, suspicious, block, attempts>> /\ UNCHANGED engineFacts

LEMMA EngineReads ==
    ASSUME EngineInv, NEW r \in Servers, Moved(r, FALSE, {}), EngineStill,
           CountersInHand(visit[r])', BlockInSight(visit[r])',
           visit[r].at \in {"count", "blockAttempts"} =>
               visit'[r].at \in {"count", "blockAttempts"} \/ Recent < MaxFailures
    PROVE  EngineInv'
<1>1. EngineTypes
  BY DEF EngineInv
<1>2. EngineFrame(FALSE, {})
  BY <1>1 DEF EngineFrame, EngineStill, engineFacts, EngineTypes
<1>3. CountersExact' /\ BlockHolds'
  BY DEF EngineInv, CountersExact, BlockHolds, EngineStill, engineFacts
<1>4. AttemptsKnown'
  BY AttemptsKept DEF EngineStill, engineFacts
<1>5. failures' \in Nat /\ promised' \in Nat /\ suspicious' \in SuspiciousIP /\ block' \in BlockedIP
  BY <1>1 DEF EngineTypes, EngineStill, engineFacts
<1>6. QED
  BY <1>2, <1>3, <1>4, <1>5, EngineStep

\* What a visit at one of the other labels holds is of no consequence.
LEMMA NothingInHand ==
    ASSUME NEW r \in Servers, visit'[r].at \notin {"countBlock", "saveFailed"}
    PROVE  CountersInHand(visit[r])'
BY DEF CountersInHand

LEMMA NothingRelied ==
    ASSUME NEW r \in Servers, visit'[r].at \in {"idle", "login"}
    PROVE  BlockInSight(visit[r])'
BY DEF BlockInSight, PastGate, PastAttempts

\* What is next after a gate.
Passing(next) == [Vacant EXCEPT !.at = next]
Discarding(key, next) == [Vacant EXCEPT !.at = "discard", !.pk = key, !.after = next]

LEMMA GateNextIs ==
    ASSUME NEW key, NEW next
    PROVE  /\ IsVisit(Passing(next)) /\ Passing(next).at = next
           /\ IsVisit(Discarding(key, next)) /\ Discarding(key, next).at = "discard"
           /\ Discarding(key, next).pk = key /\ Discarding(key, next).after = next
<1> DEFINE a == [Vacant EXCEPT !.at = next]
           b == [Vacant EXCEPT !.at = "discard", !.pk = key, !.after = next]
<1>1. NoCopy \in SuspiciousIP
  BY DEF NoCopy, SuspiciousIP
<1>2. a \in [at : {next}, pk : {0}, copy : {NoCopy}, after : {"idle"}, unseen : {FALSE}, dirty : {{}}]
  BY DEF Vacant
<1>3. b \in [at : {"discard"}, pk : {key}, copy : {NoCopy}, after : {next}, unseen : {FALSE}, dirty : {{}}]
  BY DEF Vacant
<1>4. a = Passing(next) /\ b = Discarding(key, next)
  BY DEF Passing, Discarding
<1> HIDE DEF a, b
<1>5. IsVisit(a) /\ a.at = next /\ IsVisit(b) /\ b.at = "discard" /\ b.pk = key /\ b.after = next
  BY <1>1, <1>2, <1>3 DEF IsVisit
<1>6. QED
  BY <1>4, <1>5

LEMMA PassGateIs ==
    ASSUME EngineTypes, NEW r \in Servers, NEW next, NEW exempt, PassGate(r, next, exempt)
    PROVE  /\ Moved(r, FALSE, {})
           /\ \/ visit'[r].at = "idle"
              \/ visit'[r].at = next /\ (exempt \/ block.id = 0)
              \/ visit'[r].at = "discard" /\ visit'[r].after = next /\ visit'[r].pk = block.id
                 /\ block.id # 0 /\ IsExpired(block)
<1> DEFINE n == IF IsBlocked(block) = "discard" THEN Discarding(block.id, next)
                ELSE IF (IsBlocked(block) = "blocked" /\ ~exempt) \/ next = "idle" THEN Vacant
                ELSE Passing(next)
<1>1. Steps(r, n, FALSE, {})
  BY DEF PassGate, Passing, Discarding
<1>2. /\ IsVisit(n)
      /\ \/ n.at = "idle"
         \/ n.at = next /\ (exempt \/ IsBlocked(block) \notin {"discard", "blocked"})
         \/ n.at = "discard" /\ n.after = next /\ n.pk = block.id /\ IsBlocked(block) = "discard"
  <2>1. CASE IsBlocked(block) = "discard"
    BY <2>1, GateNextIs
  <2>2. CASE IsBlocked(block) # "discard" /\ ((IsBlocked(block) = "blocked" /\ ~exempt) \/ next = "idle")
    BY <2>2, VacantIs
  <2>3. CASE IsBlocked(block) # "discard" /\ ~((IsBlocked(block) = "blocked" /\ ~exempt) \/ next = "idle")
    BY <2>3, GateNextIs
  <2>4. QED
    BY <2>1, <2>2, <2>3
<1> HIDE DEF n
<1>3. visit'[r] = n /\ Moved(r, FALSE, {})
  BY <1>1, <1>2, StepIs
<1>4. (IsBlocked(block) \notin {"discard", "blocked"} => block.id = 0)
        /\ (IsBlocked(block) = "discard" => block.id # 0 /\ IsExpired(block))
  <2>1. CASE block.id = 0
    BY <2>1 DEF IsBlocked
  <2>2. CASE block.id # 0 /\ IsExpired(block)
    BY <2>2 DEF IsBlocked
  <2>3. CASE block.id # 0 /\ ~IsExpired(block)
    BY <2>3 DEF IsBlocked
  <2>4. QED
    BY <2>1, <2>2, <2>3
<1>5. QED
  BY <1>2, <1>3, <1>4

LEMMA EngineArrive ==
    ASSUME EngineInv, NEW r \in Servers, Arrive(r)
    PROVE  EngineInv'
<1>1. EngineTypes /\ EngineStill /\ visit[r].at = "idle"
  BY DEF EngineInv, Arrive, EngineStill, SameAddress, Serving
<1>2. Moved(r, FALSE, {}) /\ CountersInHand(visit[r])' /\ BlockInSight(visit[r])'
  <2>1. CASE kind = "local" /\ Steps(r, [Vacant EXCEPT !.at = "login"], FALSE, {})
    <3>1. Steps(r, Passing("login"), FALSE, {})
      BY <2>1 DEF Passing
    <3>2. visit'[r] = Passing("login") /\ Moved(r, FALSE, {})
      BY <1>1, <3>1, GateNextIs, StepIs
    <3>3. visit'[r].at = "login"
      BY <3>2, GateNextIs
    <3>4. QED
      BY <3>2, <3>3, NothingInHand, NothingRelied
  <2>2. ASSUME NEW next \in {"login", "idle"}, PassGate(r, next, FALSE)
        PROVE  Moved(r, FALSE, {}) /\ CountersInHand(visit[r])' /\ BlockInSight(visit[r])'
    <3>1. /\ Moved(r, FALSE, {})
          /\ \/ visit'[r].at = "idle"
             \/ visit'[r].at = next /\ (FALSE \/ block.id = 0)
             \/ visit'[r].at = "discard" /\ visit'[r].after = next /\ visit'[r].pk = block.id
                /\ block.id # 0 /\ IsExpired(block)
      BY <1>1, <2>2, PassGateIs
    <3>2. CountersInHand(visit[r])'
      BY <3>1, NothingInHand
    <3>3. BlockInSight(visit[r])'
      <4>1. CASE visit'[r].at \in {"idle", "login"}
        BY <4>1, NothingRelied
      <4>2. CASE visit'[r].at = "discard" /\ visit'[r].after \in {"idle", "login"} /\ IsExpired(block)
        BY <1>1, <4>2 DEF BlockInSight, PastGate, PastAttempts, EngineStill, IsExpired
      <4>3. QED
        BY <3>1, <4>1, <4>2
    <3>4. QED
      BY <3>1, <3>2, <3>3
  <2>3. QED
    BY <2>1, <2>2 DEF Arrive
<1>3. QED
  BY <1>1, <1>2, EngineReads

LEMMA EngineLoginGate ==
    ASSUME EngineInv, NEW r \in Servers, LoginGate(r)
    PROVE  EngineInv'
<1>1. EngineTypes /\ EngineStill /\ visit[r].at = "login" /\ BlockHolds
  BY DEF EngineInv, LoginGate, EngineStill, SameAddress, Serving
<1>2. /\ Moved(r, FALSE, {})
      /\ \/ visit'[r].at = "idle"
         \/ visit'[r].at = "rate" /\ (kind = "trusted" \/ block.id = 0)
         \/ visit'[r].at = "discard" /\ visit'[r].after = "rate" /\ visit'[r].pk = block.id
            /\ block.id # 0 /\ IsExpired(block)
  BY <1>1, PassGateIs DEF LoginGate
<1>3. CountersInHand(visit[r])'
  BY <1>2, NothingInHand
<1>4. BlockInSight(visit[r])'
  <2>1. CASE visit'[r].at = "idle"
    BY <2>1, NothingRelied
  <2>2. CASE visit'[r].at # "idle"
    <3>1. block \in BlockedIP /\ clock \in Nat /\ promised \in Nat
      BY <1>1 DEF EngineTypes
    <3>2. ~overlapped /\ kind # "trusted" => promised < clock
      BY <1>1, <1>2, <2>2, <3>1 DEF BlockHolds, IsExpired, BlockedIP
    <3>3. UNCHANGED <<clock, kind, block, promised, overlapped>>
      BY <1>1 DEF EngineStill, engineFacts
    <3>4. QED
      BY <1>2, <2>2, <3>2, <3>3 DEF BlockInSight, PastGate, PastAttempts, IsExpired
  <2>3. QED
    BY <2>1, <2>2
<1>5. QED
  BY <1>1, <1>2, <1>3, <1>4, EngineReads

LEMMA StillRelied ==
    ASSUME EngineTypes, NEW r \in Servers, BlockInSight(visit[r]),
           clock' = clock, kind' = kind, promised' = promised, overlapped => overlapped',
           visit'[r].unseen = visit[r].unseen, visit'[r].at # "discard",
           visit'[r].at \in {"countBlock", "block"} =>
               visit'[r].after = "idle" \/ (visit'[r].after = "saveRate" /\ visit'[r].copy.requests > RateLimit),
           PastGate(visit[r])' => PastGate(visit[r]),
           PastAttempts(visit[r])' => PastAttempts(visit[r]) \/ PastGate(visit[r])
    PROVE  BlockInSight(visit[r])'
<1>1. clock \in Nat /\ promised \in Nat /\ AttemptsBlock \in Nat
  BY EngineConstants DEF EngineTypes
<1>2. ~visit[r].unseen /\ ~overlapped /\ kind # "trusted" =>
         /\ PastGate(visit[r]) => promised < clock
         /\ PastAttempts(visit[r]) => promised <= clock + AttemptsBlock
  BY DEF BlockInSight
<1>3. ~visit'[r].unseen /\ ~overlapped' /\ kind' # "trusted" =>
         /\ PastGate(visit[r])' => promised' < clock'
         /\ PastAttempts(visit[r])' => promised' <= clock' + AttemptsBlock
  BY <1>1, <1>2
<1>4. QED
  BY <1>3 DEF BlockInSight

LEMMA EngineCheckRate ==
    ASSUME EngineInv, NEW r \in Servers, CheckRate(r)
    PROVE  EngineInv'
<1> DEFINE c == RateChecked(suspicious)
           n == IF c.requests > RateLimit /\ c.risk >= RiskLimit
                THEN Holding(r, c, "countBlock", "saveRate")
                ELSE Holding(r, c, "saveRate", "idle")
<1>1. /\ EngineTypes /\ EngineStill /\ visit[r].at = "rate" /\ Steps(r, n, FALSE, {})
      /\ BlockInSight(visit[r]) /\ CountersExact
  BY DEF EngineInv, CheckRate, EngineStill, SameAddress, Serving
<1>2. suspicious \in SuspiciousIP /\ clock \in Nat
  BY <1>1 DEF EngineTypes
<1>3. c \in SuspiciousIP /\ c # NoCopy /\ c.blocks = suspicious.blocks
  BY <1>2, RateCheckedIs
<1> HIDE DEF c
<1>4. \/ GoesOn(n, r, "countBlock", c, "saveRate") /\ c.requests > RateLimit
      \/ GoesOn(n, r, "saveRate", c, "idle")
  BY <1>3, HoldingIs
<1> HIDE DEF n
<1>5. IsVisit(n)
  BY <1>4 DEF GoesOn
<1>6. visit'[r] = n /\ Moved(r, FALSE, {})
  BY <1>1, <1>5, StepIs
<1>7. UNCHANGED <<clock, kind, promised, overlapped, suspicious, escalations>>
  BY <1>1 DEF EngineStill, engineFacts
<1>8. CountersInHand(visit[r])'
  BY <1>1, <1>3, <1>4, <1>6, <1>7 DEF CountersInHand, CountersExact, GoesOn, NoCopy
<1>9. BlockInSight(visit[r])'
  <2>1. PastGate(visit[r])
    BY <1>1 DEF PastGate
  <2>2. PastAttempts(visit[r])' => PastAttempts(visit[r]) \/ PastGate(visit[r])
    BY <2>1
  <2>3. QED
    BY <1>1, <1>4, <1>6, <1>7, <2>1, <2>2, StillRelied DEF GoesOn
<1>10. QED
  BY <1>1, <1>6, <1>8, <1>9, EngineReads

LEMMA EngineRefuse ==
    ASSUME EngineInv, NEW r \in Servers, Refuse(r)
    PROVE  EngineInv'
<1>1. EngineTypes /\ EngineStill /\ visit[r].at = "password" /\ Steps(r, Vacant, FALSE, {})
  BY DEF EngineInv, Refuse, EngineStill, SameAddress, Serving
<1>2. visit'[r] = Vacant /\ Moved(r, FALSE, {})
  BY <1>1, VacantIs, StepIs
<1>3. CountersInHand(visit[r])' /\ BlockInSight(visit[r])'
  BY <1>2, VacantIs, NothingInHand, NothingRelied
<1>4. QED
  BY <1>1, <1>2, <1>3, EngineReads

\* A visit that goes on with nothing in its hands, to a label after the gate.
LEMMA EngineGoesOn ==
    ASSUME EngineInv, NEW r \in Servers, EngineStill, PastGate(visit[r]),
           NEW label \in {"idle", "password", "count", "blockAttempts", "failed", "lift", "check",
                          "blockAttack"},
           Steps(r, GoesTo(r, label), FALSE, {})
    PROVE  /\ Moved(r, FALSE, {}) /\ visit'[r].at = label
           /\ CountersInHand(visit[r])' /\ BlockInSight(visit[r])'
<1>1. EngineTypes /\ BlockInSight(visit[r])
  BY DEF EngineInv
<1>2. CASE label = "idle"
  <2>1. GoesTo(r, label) = Vacant
    BY <1>2 DEF GoesTo
  <2>2. visit'[r] = Vacant /\ Moved(r, FALSE, {})
    BY <1>1, <2>1, VacantIs, StepIs
  <2>3. QED
    BY <1>2, <2>2, VacantIs, NothingInHand, NothingRelied
<1>3. CASE label # "idle"
  <2>1. GoesOn(GoesTo(r, label), r, label, NoCopy, "idle")
    BY <1>3, GoesToIs
  <2>2. IsVisit(GoesTo(r, label))
    BY <2>1 DEF GoesOn
  <2>3. visit'[r] = GoesTo(r, label) /\ Moved(r, FALSE, {})
    BY <1>1, <2>2, StepIs
  <2>4. visit'[r].at = label /\ visit'[r].unseen = visit[r].unseen
    BY <2>1, <2>3 DEF GoesOn
  <2>5. BlockInSight(visit[r])'
    BY <1>1, <2>4, StillRelied DEF EngineStill, engineFacts
  <2>6. QED
    BY <2>3, <2>4, <2>5, NothingInHand
<1>4. QED
  BY <1>2, <1>3

LEMMA EngineCountAttempts ==
    ASSUME EngineInv, NEW r \in Servers, CountAttempts(r)
    PROVE  EngineInv'
<1> DEFINE label == IF Recent >= MaxFailures THEN "blockAttempts" ELSE "failed"
<1>1. EngineStill /\ visit[r].at = "count" /\ Steps(r, GoesTo(r, label), FALSE, {})
  BY DEF CountAttempts, EngineStill, SameAddress, Serving
<1>2. Recent \in Nat /\ MaxFailures \in Nat
  BY RecentIs, EngineConstants DEF EngineInv, AttemptsKnown
<1>3. label \in {"blockAttempts", "failed"} /\ (label = "blockAttempts" \/ Recent < MaxFailures)
  BY <1>2
<1> HIDE DEF label
<1>4. PastGate(visit[r])
  BY <1>1 DEF PastGate
<1>5. /\ Moved(r, FALSE, {}) /\ visit'[r].at = label
      /\ CountersInHand(visit[r])' /\ BlockInSight(visit[r])'
  BY <1>1, <1>3, <1>4, EngineGoesOn
<1>6. QED
  BY <1>1, <1>3, <1>5, EngineReads

LEMMA EngineCheckAttack ==
    ASSUME EngineInv, NEW r \in Servers, CheckAttack(r)
    PROVE  EngineInv'
<1> DEFINE label == IF Recent >= ManyAttempts THEN "blockAttack" ELSE "idle"
<1>1. EngineStill /\ visit[r].at = "check" /\ Steps(r, GoesTo(r, label), FALSE, {})
  BY DEF CheckAttack, EngineStill, SameAddress, Serving
<1>2. label \in {"blockAttack", "idle"}
  OBVIOUS
<1> HIDE DEF label
<1>3. PastGate(visit[r])
  BY <1>1 DEF PastGate
<1>4. /\ Moved(r, FALSE, {}) /\ visit'[r].at = label
      /\ CountersInHand(visit[r])' /\ BlockInSight(visit[r])'
  BY <1>1, <1>2, <1>3, EngineGoesOn
<1>5. QED
  BY <1>1, <1>4, EngineReads

LEMMA EngineRecordFailed ==
    ASSUME EngineInv, NEW r \in Servers, RecordFailed(r)
    PROVE  EngineInv'
<1>1. /\ EngineTypes /\ EngineStill /\ visit[r].at = "failed"
      /\ BlockInSight(visit[r]) /\ CountersExact
  BY DEF EngineInv, RecordFailed, EngineStill, SameAddress, Serving
<1>2. suspicious \in SuspiciousIP /\ clock \in Nat
  BY <1>1 DEF EngineTypes
<1>3. UNCHANGED <<clock, kind, promised, overlapped, suspicious, escalations>>
  BY <1>1 DEF EngineStill, engineFacts
<1>4. Moved(r, FALSE, {}) /\ CountersInHand(visit[r])' /\ BlockInSight(visit[r])'
  <2>1. ASSUME NEW c \in FailedLogin(suspicious),
               Steps(r, Holding(r, c, "saveFailed", "idle"), FALSE, {})
        PROVE  Moved(r, FALSE, {}) /\ CountersInHand(visit[r])' /\ BlockInSight(visit[r])'
    <3>1. /\ c \in SuspiciousIP /\ c.blocks = suspicious.blocks
          /\ c.failed # 0 /\ (c.failed = 1 \/ c.failed = suspicious.failed + 1)
      BY <1>2, <2>1, FailedLoginIs
    <3>2. c # NoCopy
      BY <3>1 DEF NoCopy
    <3>3. GoesOn(Holding(r, c, "saveFailed", "idle"), r, "saveFailed", c, "idle")
      BY <3>1, HoldingIs
    <3>4. IsVisit(Holding(r, c, "saveFailed", "idle"))
      BY <3>3 DEF GoesOn
    <3>5. visit'[r] = Holding(r, c, "saveFailed", "idle") /\ Moved(r, FALSE, {})
      BY <1>1, <2>1, <3>4, StepIs
    <3>6. /\ visit'[r].at = "saveFailed" /\ visit'[r].copy = c /\ visit'[r].after = "idle"
          /\ visit'[r].unseen = visit[r].unseen
      BY <3>3, <3>5 DEF GoesOn
    <3>7. CountersInHand(visit[r])'
      BY <1>1, <1>3, <3>1, <3>2, <3>6 DEF CountersInHand, CountersExact, NoCopy
    <3>8. PastAttempts(visit[r]) /\ ~PastGate(visit[r])'
      BY <1>1, <3>6 DEF PastAttempts, PastGate
    <3>9. BlockInSight(visit[r])'
      BY <1>1, <1>3, <3>6, <3>8, StillRelied
    <3>10. QED
      BY <3>5, <3>7, <3>9
  <2>2. CASE Steps(r, Vacant, FALSE, {})
    <3>1. visit'[r] = Vacant /\ Moved(r, FALSE, {})
      BY <1>1, <2>2, VacantIs, StepIs
    <3>2. QED
      BY <3>1, VacantIs, NothingInHand, NothingRelied
  <2>3. QED
    BY <2>1, <2>2 DEF RecordFailed
<1>5. QED
  BY <1>1, <1>4, EngineReads

LEMMA EngineRightPassword ==
    ASSUME EngineInv, NEW r \in Servers, RightPassword(r)
    PROVE  EngineInv'
<1>1. EngineTypes /\ EngineStill /\ visit[r].at = "password" /\ BlockInSight(visit[r])
  BY DEF EngineInv, RightPassword, EngineStill, SameAddress, Serving
<1>2. suspicious \in SuspiciousIP /\ clock \in Nat
  BY <1>1 DEF EngineTypes
<1>3. UNCHANGED <<clock, kind, promised, overlapped>>
  BY <1>1 DEF EngineStill, engineFacts
<1>4. PICK c \in SuccessfulLogin(suspicious) :
         Steps(r, Holding(r, c, "saveSuccess", "idle"), FALSE, {})
  BY DEF RightPassword
<1>5. c \in SuspiciousIP
  BY <1>2, <1>4, SuccessfulLoginIs
<1>6. GoesOn(Holding(r, c, "saveSuccess", "idle"), r, "saveSuccess", c, "idle")
  BY <1>5, HoldingIs
<1>7. IsVisit(Holding(r, c, "saveSuccess", "idle"))
  BY <1>6 DEF GoesOn
<1>8. visit'[r] = Holding(r, c, "saveSuccess", "idle") /\ Moved(r, FALSE, {})
  BY <1>1, <1>4, <1>7, StepIs
<1>9. visit'[r].at = "saveSuccess" /\ visit'[r].unseen = visit[r].unseen
  BY <1>6, <1>8 DEF GoesOn
<1>10. PastGate(visit[r])
  BY <1>1 DEF PastGate
<1>11. BlockInSight(visit[r])'
  BY <1>1, <1>3, <1>9, <1>10, StillRelied
<1>12. CountersInHand(visit[r])'
  BY <1>9, NothingInHand
<1>13. QED
  BY <1>1, <1>8, <1>11, <1>12, EngineReads

-----------------------------------------------------------------------------
(* The steps that write the counters. *)

LEMMA EngineSaveRate ==
    ASSUME EngineInv, NEW r \in Servers, SaveRate(r)
    PROVE  EngineInv'
<1> DEFINE c     == visit[r].copy
           label == IF c.requests <= RateLimit THEN "password" ELSE "idle"
           s1    == [suspicious EXCEPT !.requests = c.requests]
           s2    == [s1 EXCEPT !.risk = c.risk]
           s3    == [s2 EXCEPT !.last = clock]
<1>1. /\ visit[r].at = "saveRate" /\ Steps(r, GoesTo(r, label), FALSE, {}) /\ suspicious' = s3
      /\ UNCHANGED <<clock, kind, block, attempts>> /\ UNCHANGED engineFacts
  BY DEF SaveRate, SameAddress, Serving
<1>2. /\ EngineTypes /\ BlockInSight(visit[r]) /\ CountersExact /\ BlockHolds
      /\ suspicious \in SuspiciousIP /\ clock \in Nat /\ c \in SuspiciousIP
  BY DEF EngineInv, EngineTypes, IsVisit
<1>3. label = "idle" \/ (label = "password" /\ c.requests <= RateLimit)
  OBVIOUS
<1>4. suspicious' \in SuspiciousIP /\ suspicious'.blocks = suspicious.blocks
        /\ suspicious'.failed = suspicious.failed
  <2> HIDE DEF c
  <2>1. s1 \in SuspiciousIP /\ s1.blocks = suspicious.blocks /\ s1.failed = suspicious.failed
    BY <1>2 DEF SuspiciousIP
  <2> HIDE DEF s1
  <2>2. s2 \in SuspiciousIP /\ s2.blocks = suspicious.blocks /\ s2.failed = suspicious.failed
    BY <1>2, <2>1 DEF SuspiciousIP
  <2> HIDE DEF s2
  <2>3. QED
    BY <1>1, <1>2, <2>2 DEF SuspiciousIP
<1> HIDE DEF label
<1>5. Moved(r, FALSE, {}) /\ CountersInHand(visit[r])' /\ BlockInSight(visit[r])'
  <2>1. CASE label = "idle"
    <3>1. GoesTo(r, label) = Vacant
      BY <2>1 DEF GoesTo
    <3>2. visit'[r] = Vacant /\ Moved(r, FALSE, {})
      BY <1>1, <1>2, <3>1, VacantIs, StepIs
    <3>3. QED
      BY <3>2, VacantIs, NothingInHand, NothingRelied
  <2>2. CASE label = "password" /\ c.requests <= RateLimit
    <3>1. GoesOn(GoesTo(r, label), r, label, NoCopy, "idle")
      BY <2>2, GoesToIs
    <3>2. IsVisit(GoesTo(r, label))
      BY <3>1 DEF GoesOn
    <3>3. visit'[r] = GoesTo(r, label) /\ Moved(r, FALSE, {})
      BY <1>1, <1>2, <3>2, StepIs
    <3>4. visit'[r].at = "password" /\ visit'[r].unseen = visit[r].unseen
      BY <2>2, <3>1, <3>3 DEF GoesOn
    <3>5. PastGate(visit[r])
      BY <1>1, <2>2 DEF PastGate
    <3>6. BlockInSight(visit[r])'
      BY <1>1, <1>2, <3>4, <3>5, StillRelied DEF engineFacts
    <3>7. QED
      BY <3>3, <3>4, <3>6, NothingInHand
  <2>3. QED
    BY <1>3, <2>1, <2>2
<1>6. EngineFrame(FALSE, {})
  BY <1>1, <1>2, <1>4 DEF EngineFrame, EngineTypes, engineFacts
<1>7. CountersExact' /\ BlockHolds'
  BY <1>1, <1>2, <1>4 DEF CountersExact, BlockHolds, engineFacts
<1>8. AttemptsKnown'
  BY <1>1, <1>5, AttemptsKept DEF engineFacts
<1>9. failures' \in Nat /\ promised' \in Nat /\ block' \in BlockedIP
  BY <1>1, <1>2 DEF EngineTypes, engineFacts
<1>10. QED
  BY <1>4, <1>5, <1>6, <1>7, <1>8, <1>9, EngineStep

LEMMA EngineSaveFailed ==
    ASSUME EngineInv, NEW r \in Servers, SaveFailed(r)
    PROVE  EngineInv'
<1> DEFINE c  == visit[r].copy
           d  == visit[r].dirty
           h  == Holding(r, c, "countBlock", "idle")
           n  == IF c.risk < RiskLimit THEN Vacant ELSE [h EXCEPT !.dirty = d \cap {"blocks"}]
           s1 == [suspicious EXCEPT !.failed = c.failed]
           s2 == [s1 EXCEPT !.risk = c.risk]
           s3 == [s2 EXCEPT !.last = clock]
<1>1. /\ visit[r].at = "saveFailed" /\ Steps(r, n, FALSE, {"failed"}) /\ suspicious' = s3
      /\ failures' = IF c.failed = 1 THEN 1 ELSE failures + 1
      /\ overwritten' = IF "failed" \in d THEN overwritten \cup {"failed"}
                        ELSE IF c.failed = 1 THEN overwritten \ {"failed"} ELSE overwritten
      /\ UNCHANGED <<clock, kind, block, attempts, promised, lifted, overlapped, escalations>>
  BY DEF SaveFailed, SameAddress, Serving
<1>2. /\ EngineTypes /\ BlockInSight(visit[r]) /\ CountersExact /\ BlockHolds
      /\ suspicious \in SuspiciousIP /\ clock \in Nat /\ c \in SuspiciousIP /\ failures \in Nat
  BY DEF EngineInv, EngineTypes, IsVisit
<1>3. /\ c # NoCopy /\ c.blocks <= escalations
      /\ "blocks" \notin d => c.blocks = suspicious.blocks
      /\ c.failed # 0
      /\ "failed" \notin d => c.failed = 1 \/ c.failed = suspicious.failed + 1
  BY <1>1 DEF EngineInv, CountersInHand
<1> HIDE DEF c, d
<1>4. suspicious' \in SuspiciousIP /\ suspicious'.blocks = suspicious.blocks
        /\ suspicious'.failed = c.failed
  <2>1. s1 \in SuspiciousIP /\ s1.blocks = suspicious.blocks /\ s1.failed = c.failed
    BY <1>2 DEF SuspiciousIP
  <2> HIDE DEF s1
  <2>2. s2 \in SuspiciousIP /\ s2.blocks = suspicious.blocks /\ s2.failed = c.failed
    BY <1>2, <2>1 DEF SuspiciousIP
  <2> HIDE DEF s2
  <2>3. QED
    BY <1>1, <1>2, <2>2 DEF SuspiciousIP
<1> HIDE DEF s3
<1>5. \/ n = Vacant
      \/ /\ IsVisit(n) /\ n.at = "countBlock" /\ n.copy = c /\ n.after = "idle"
         /\ n.dirty = d \cap {"blocks"} /\ n.unseen = visit[r].unseen
  <2>1. GoesOn(h, r, "countBlock", c, "idle")
    BY <1>2, HoldingIs
  <2> DEFINE m == [h EXCEPT !.dirty = d \cap {"blocks"}]
  <2>2. h \in [at : {"countBlock"}, pk : {h.pk}, copy : {c}, after : {"idle"},
               unseen : {visit[r].unseen}, dirty : {h.dirty}]
    BY <2>1 DEF GoesOn, IsVisit
  <2> HIDE DEF h
  <2>3. m \in [at : {"countBlock"}, pk : {h.pk}, copy : {c}, after : {"idle"},
               unseen : {visit[r].unseen}, dirty : {d \cap {"blocks"}}]
    BY <2>2
  <2>4. n = Vacant \/ n = m
    OBVIOUS
  <2> HIDE DEF m, n
  <2>5. QED
    BY <1>2, <2>3, <2>4 DEF IsVisit
<1>6. IsVisit(n)
  BY <1>5, VacantIs
<1> HIDE DEF n, h
<1>7. visit'[r] = n /\ Moved(r, FALSE, {"failed"})
  BY <1>1, <1>2, <1>6, StepIs
<1>8. CountersInHand(visit[r])' /\ BlockInSight(visit[r])'
  <2>1. CASE n = Vacant
    BY <1>7, <2>1, VacantIs, NothingInHand, NothingRelied
  <2>2. CASE /\ IsVisit(n) /\ n.at = "countBlock" /\ n.copy = c /\ n.after = "idle"
             /\ n.dirty = d \cap {"blocks"} /\ n.unseen = visit[r].unseen
    <3>1. CountersInHand(visit[r])'
      BY <1>1, <1>3, <1>4, <1>7, <2>2 DEF CountersInHand, NoCopy
    <3>2. PastAttempts(visit[r]) /\ ~PastGate(visit[r])'
      BY <1>1, <1>7, <2>2 DEF PastAttempts, PastGate
    <3>3. BlockInSight(visit[r])'
      BY <1>1, <1>2, <1>7, <2>2, <3>2, StillRelied
    <3>4. QED
      BY <3>1, <3>3
  <2>3. QED
    BY <1>5, <2>1, <2>2
<1>9. EngineFrame(FALSE, {"failed"})
  BY <1>1, <1>2, <1>4 DEF EngineFrame, EngineTypes
<1>10. CountersExact'
  <2>1. /\ suspicious.blocks <= escalations
        /\ "failed" \notin overwritten => suspicious.failed = failures
        /\ "blocks" \notin overwritten => suspicious.blocks = escalations
    BY <1>2 DEF CountersExact
  <2>2. "failed" \notin overwritten' => suspicious'.failed = failures'
    BY <1>1, <1>3, <1>4, <2>1
  <2>3. "blocks" \notin overwritten' => "blocks" \notin overwritten
    BY <1>1
  <2>4. QED
    BY <1>1, <1>4, <2>1, <2>2, <2>3 DEF CountersExact
<1>11. BlockHolds'
  BY <1>1, <1>2 DEF BlockHolds
<1>12. AttemptsKnown'
  BY <1>1, <1>7, AttemptsKept
<1>13. failures' \in Nat /\ promised' \in Nat /\ block' \in BlockedIP
  BY <1>1, <1>2 DEF EngineTypes
<1>14. QED
  BY <1>4, <1>7, <1>8, <1>9, <1>10, <1>11, <1>12, <1>13, EngineStep

LEMMA EngineSaveSuccess ==
    ASSUME EngineInv, NEW r \in Servers, SaveSuccess(r)
    PROVE  EngineInv'
<1> DEFINE c  == visit[r].copy
           s1 == [suspicious EXCEPT !.failed = 0]
           s2 == [s1 EXCEPT !.requests = 0]
           s3 == [s2 EXCEPT !.risk = c.risk]
           s4 == [s3 EXCEPT !.last = clock]
<1>1. /\ visit[r].at = "saveSuccess" /\ Steps(r, GoesTo(r, "lift"), FALSE, {"failed"})
      /\ suspicious' = s4 /\ failures' = 0 /\ overwritten' = overwritten \ {"failed"}
      /\ UNCHANGED <<clock, kind, block, attempts, promised, lifted, overlapped, escalations>>
  BY DEF SaveSuccess, SameAddress, Serving
<1>2. /\ EngineTypes /\ BlockInSight(visit[r]) /\ CountersExact /\ BlockHolds
      /\ suspicious \in SuspiciousIP /\ clock \in Nat /\ c \in SuspiciousIP
  BY DEF EngineInv, EngineTypes, IsVisit
<1> HIDE DEF c
<1>3. suspicious' \in SuspiciousIP /\ suspicious'.blocks = suspicious.blocks /\ suspicious'.failed = 0
  <2>1. s1 \in SuspiciousIP /\ s1.blocks = suspicious.blocks /\ s1.failed = 0
    BY <1>2 DEF SuspiciousIP
  <2> HIDE DEF s1
  <2>2. s2 \in SuspiciousIP /\ s2.blocks = suspicious.blocks /\ s2.failed = 0
    BY <2>1 DEF SuspiciousIP
  <2> HIDE DEF s2
  <2>3. s3 \in SuspiciousIP /\ s3.blocks = suspicious.blocks /\ s3.failed = 0
    BY <1>2, <2>2 DEF SuspiciousIP
  <2> HIDE DEF s3
  <2>4. QED
    BY <1>1, <1>2, <2>3 DEF SuspiciousIP
<1> HIDE DEF s4
<1>4. GoesOn(GoesTo(r, "lift"), r, "lift", NoCopy, "idle")
  BY GoesToIs
<1>5. IsVisit(GoesTo(r, "lift"))
  BY <1>4 DEF GoesOn
<1>6. visit'[r] = GoesTo(r, "lift") /\ Moved(r, FALSE, {"failed"})
  BY <1>1, <1>2, <1>5, StepIs
<1>7. visit'[r].at = "lift" /\ visit'[r].unseen = visit[r].unseen
  BY <1>4, <1>6 DEF GoesOn
<1>8. PastGate(visit[r])
  BY <1>1 DEF PastGate
<1>9. CountersInHand(visit[r])' /\ BlockInSight(visit[r])'
  BY <1>1, <1>2, <1>7, <1>8, NothingInHand, StillRelied
<1>10. EngineFrame(FALSE, {"failed"})
  BY <1>1, <1>2, <1>3 DEF EngineFrame, EngineTypes
<1>11. CountersExact' /\ BlockHolds'
  BY <1>1, <1>2, <1>3 DEF BlockHolds, CountersExact
<1>12. AttemptsKnown'
  BY <1>1, <1>6, AttemptsKept
<1>13. failures' \in Nat /\ promised' \in Nat /\ block' \in BlockedIP
  BY <1>1, <1>2 DEF EngineTypes
<1>14. QED
  BY <1>3, <1>6, <1>9, <1>10, <1>11, <1>12, <1>13, EngineStep

LEMMA EngineCountBlock ==
    ASSUME EngineInv, NEW r \in Servers, CountBlock(r)
    PROVE  EngineInv'
<1> DEFINE v == visit[r]
           b == v.copy.blocks + 1
           c == [v.copy EXCEPT !.blocks = b]
           n == Holding(r, c, "block", v.after)
<1>1. /\ v.at = "countBlock" /\ Steps(r, n, FALSE, {"blocks"})
      /\ suspicious' = [suspicious EXCEPT !.blocks = c.blocks]
      /\ escalations' = escalations + 1
      /\ overwritten' = overwritten \cup (v.dirty \cap {"blocks"})
      /\ UNCHANGED <<clock, kind, block, attempts, promised, lifted, overlapped, failures>>
  BY DEF CountBlock, SameAddress, Serving
<1>2. /\ EngineTypes /\ BlockInSight(visit[r]) /\ CountersExact /\ BlockHolds
      /\ suspicious \in SuspiciousIP /\ v.copy \in SuspiciousIP /\ escalations \in Nat
  BY DEF EngineInv, EngineTypes, IsVisit
<1>3. v.copy.blocks <= escalations /\ ("blocks" \notin v.dirty => v.copy.blocks = suspicious.blocks)
  BY <1>1 DEF EngineInv, CountersInHand
<1>4. b \in Nat
  BY <1>2 DEF SuspiciousIP
<1>5. c \in SuspiciousIP /\ c.blocks = b /\ c.requests = v.copy.requests
  <2> HIDE DEF b, v
  <2>1. QED
    BY <1>2, <1>4 DEF SuspiciousIP
<1> HIDE DEF c, v
<1>6. suspicious' \in SuspiciousIP /\ suspicious'.blocks = b /\ suspicious'.failed = suspicious.failed
  <2> HIDE DEF b
  <2>1. QED
    BY <1>1, <1>2, <1>4, <1>5 DEF SuspiciousIP
<1>7. GoesOn(n, r, "block", c, v.after)
  BY <1>5, HoldingIs
<1> HIDE DEF n
<1>8. IsVisit(n)
  BY <1>7 DEF GoesOn
<1>9. visit'[r] = n /\ Moved(r, FALSE, {"blocks"})
  BY <1>1, <1>2, <1>8, StepIs
<1>10. /\ visit'[r].at = "block" /\ visit'[r].unseen = visit[r].unseen /\ visit'[r].after = visit[r].after
       /\ visit'[r].copy.requests = visit[r].copy.requests
  BY <1>5, <1>7, <1>9 DEF GoesOn, v
<1>11. CountersInHand(visit[r])'
  BY <1>10, NothingInHand
<1>12. BlockInSight(visit[r])'
  <2>1. visit[r].after = "idle" \/ (visit[r].after = "saveRate" /\ visit[r].copy.requests > RateLimit)
    BY <1>1, <1>2 DEF BlockInSight, v
  <2>2. (PastGate(visit[r])' => PastGate(visit[r])) /\ (PastAttempts(visit[r])' => PastAttempts(visit[r]))
    BY <1>1, <1>10 DEF PastGate, PastAttempts, v
  <2>3. QED
    BY <1>1, <1>2, <1>10, <2>1, <2>2, StillRelied
<1>13. EngineFrame(FALSE, {"blocks"})
  BY <1>1, <1>2, <1>6 DEF EngineFrame
<1>14. CountersExact'
  <2>1. /\ suspicious.blocks <= escalations
        /\ "failed" \notin overwritten => suspicious.failed = failures
        /\ "blocks" \notin overwritten => suspicious.blocks = escalations
    BY <1>2 DEF CountersExact
  <2>2. v.copy.blocks \in Nat
    BY <1>2 DEF SuspiciousIP
  <2>3. suspicious'.blocks <= escalations'
    BY <1>1, <1>2, <1>3, <1>6, <2>2
  <2>4. "blocks" \notin overwritten' => suspicious'.blocks = escalations'
    BY <1>1, <1>2, <1>3, <1>6, <2>1, <2>2
  <2>5. "failed" \notin overwritten' => suspicious'.failed = failures'
    BY <1>1, <1>6, <2>1
  <2>6. QED
    BY <2>3, <2>4, <2>5 DEF CountersExact
<1>15. BlockHolds'
  BY <1>1, <1>2 DEF BlockHolds
<1>16. AttemptsKnown'
  BY <1>1, <1>9, AttemptsKept DEF v
<1>17. failures' \in Nat /\ promised' \in Nat /\ block' \in BlockedIP
  BY <1>1, <1>2 DEF EngineTypes
<1>18. QED
  BY <1>6, <1>9, <1>11, <1>12, <1>13, <1>14, <1>15, <1>16, <1>17, EngineStep

-----------------------------------------------------------------------------
(* The steps that write the block. *)

\* A wrong password is not known until it is counted.
LEMMA EngineWrongPassword ==
    ASSUME EngineInv, NEW r \in Servers, WrongPassword(r)
    PROVE  EngineInv'
<1> DEFINE new == [n |-> Cardinality(attempts) + 1, at |-> clock]
<1>1. /\ visit[r].at = "password" /\ Steps(r, GoesTo(r, "count"), FALSE, {})
      /\ attempts' = attempts \cup {new}
      /\ UNCHANGED <<clock, kind, suspicious, block, promised, overlapped, failures, escalations, overwritten>>
  BY DEF WrongPassword, SameAddress, Serving
<1>2. /\ EngineTypes /\ BlockInSight(visit[r]) /\ CountersExact /\ BlockHolds /\ clock \in Nat
      /\ IsFiniteSet(attempts) /\ \A a \in attempts : a.at \in Nat /\ a.at <= clock
  BY DEF EngineInv, EngineTypes, AttemptsKnown
<1>3. GoesOn(GoesTo(r, "count"), r, "count", NoCopy, "idle")
  BY GoesToIs
<1>4. IsVisit(GoesTo(r, "count"))
  BY <1>3 DEF GoesOn
<1>5. visit'[r] = GoesTo(r, "count") /\ Moved(r, FALSE, {})
  BY <1>1, <1>2, <1>4, StepIs
<1>6. visit'[r].at = "count" /\ visit'[r].unseen = visit[r].unseen
  BY <1>3, <1>5 DEF GoesOn
<1>7. PastGate(visit[r])
  BY <1>1 DEF PastGate
<1>8. CountersInHand(visit[r])' /\ BlockInSight(visit[r])'
  BY <1>1, <1>2, <1>6, <1>7, NothingInHand, StillRelied
<1>9. EngineFrame(FALSE, {})
  BY <1>1, <1>2 DEF EngineFrame, EngineTypes
<1>10. CountersExact' /\ BlockHolds'
  BY <1>1, <1>2 DEF BlockHolds, CountersExact
<1>11. AttemptsKnown'
  <2>1. new.at = clock
    OBVIOUS
  <2> HIDE DEF new
  <2>2. IsFiniteSet(attempts')
    BY <1>1, <1>2, FS_AddElement
  <2>3. \A a \in attempts' : a.at \in Nat /\ a.at <= clock'
    BY <1>1, <1>2, <2>1
  <2>4. QED
    BY <1>6, <2>2, <2>3 DEF AttemptsKnown
<1>12. failures' \in Nat /\ promised' \in Nat /\ suspicious' \in SuspiciousIP /\ block' \in BlockedIP
  BY <1>1, <1>2 DEF EngineTypes
<1>13. QED
  BY <1>5, <1>8, <1>9, <1>10, <1>11, <1>12, EngineStep

\* What a block does that is put for at least the window of the failures, by a
\* visit that knows of no longer one.
LEMMA EngineBlocks ==
    ASSUME EngineInv, NEW r \in Servers, NEW until \in Nat, NEW next, IsVisit(next),
           UpdateOrCreate(r, until, next), clock + Window <= until,
           ~visit[r].unseen /\ ~overlapped /\ kind # "trusted" => promised <= until,
           CountersInHand(visit[r])', BlockInSight(visit[r])'
    PROVE  EngineInv'
<1>1. /\ block' = [id |-> IF block.id = 0 THEN NewKey ELSE block.id, until |-> until]
      /\ Steps(r, next, TRUE, {})
      /\ promised' = MostOf(promised, until)
      /\ overlapped => overlapped'
      /\ until < promised /\ visit[r].unseen => overlapped'
      /\ UNCHANGED <<clock, kind, suspicious, attempts, failures, escalations, overwritten>>
  BY DEF UpdateOrCreate, SameAddress
<1>2. /\ EngineTypes /\ CountersExact /\ BlockHolds /\ clock \in Nat /\ promised \in Nat
      /\ block \in BlockedIP
      /\ IsFiniteSet(attempts) /\ \A a \in attempts : a.at \in Nat /\ a.at <= clock
  BY DEF EngineInv, EngineTypes, AttemptsKnown
<1>3. Moved(r, TRUE, {})
  BY <1>1, <1>2, StepIs
<1>4. EngineFrame(TRUE, {})
  BY <1>1, <1>2 DEF EngineFrame, EngineTypes
<1>5. block'.until = until /\ block'.id # 0 /\ block' \in BlockedIP
  BY <1>1, <1>2, NewKeyIs DEF BlockedIP
<1>6. promised' \in Nat /\ (promised <= until => promised' = until)
        /\ (until < promised => promised' = promised)
  BY <1>1, <1>2 DEF MostOf
<1>7. BlockHolds'
  <2>1. ~overlapped' /\ kind' # "trusted" => promised <= until
    BY <1>1, <1>2
  <2>2. QED
    BY <1>2, <1>5, <1>6, <2>1 DEF BlockHolds
<1>8. CountersExact'
  BY <1>1, <1>2 DEF CountersExact
<1>9. AttemptsKnown'
  <2>1. \A a \in attempts : until >= a.at + Window
    BY <1>2, EngineConstants
  <2>2. QED
    BY <1>1, <1>2, <1>5, <2>1 DEF AttemptsKnown
<1>10. failures' \in Nat /\ suspicious' \in SuspiciousIP
  BY <1>1, <1>2 DEF EngineTypes
<1>11. QED
  BY <1>3, <1>4, <1>5, <1>6, <1>7, <1>8, <1>9, <1>10, EngineStep

LEMMA EngineBlockIp ==
    ASSUME EngineInv, NEW r \in Servers, BlockIp(r)
    PROVE  EngineInv'
<1> DEFINE v     == visit[r]
           until == clock + Duration(v.copy)
           n     == IF v.after = "idle" THEN Vacant ELSE Holding(r, v.copy, v.after, "idle")
<1>1. v.at = "block" /\ UpdateOrCreate(r, until, n)
  BY DEF BlockIp, Serving
<1>2. /\ EngineTypes /\ BlockInSight(v) /\ v.copy \in SuspiciousIP /\ clock \in Nat
      /\ promised \in Nat
  BY DEF EngineInv, EngineTypes, IsVisit
<1>3. Duration(v.copy) \in Nat /\ BlockDuration <= Duration(v.copy)
  BY <1>2, DurationIs
<1>4. until \in Nat /\ clock + AttemptsBlock <= until /\ clock + Window <= until /\ clock <= until
  BY <1>2, <1>3, EngineConstants
<1>5. v.after = "idle" \/ (v.after = "saveRate" /\ v.copy.requests > RateLimit)
  BY <1>1, <1>2 DEF BlockInSight
<1>6. PastGate(v) \/ PastAttempts(v)
  BY <1>1, <1>5 DEF PastGate, PastAttempts
<1>7. ~v.unseen /\ ~overlapped /\ kind # "trusted" => promised <= until
  BY <1>2, <1>4, <1>6, EngineConstants DEF BlockInSight
<1> HIDE DEF until
<1>8. \/ v.after = "idle" /\ n = Vacant
      \/ v.after = "saveRate" /\ v.copy.requests > RateLimit /\ n = Holding(r, v.copy, "saveRate", "idle")
  BY <1>5
<1> HIDE DEF n
<1>9. IsVisit(n) /\ (n.at = "idle" \/ (n.at = "saveRate" /\ n.copy.requests > RateLimit))
  <2>1. GoesOn(Holding(r, v.copy, "saveRate", "idle"), r, "saveRate", v.copy, "idle")
    BY <1>2, HoldingIs
  <2> DEFINE h == Holding(r, v.copy, "saveRate", "idle")
  <2>2. IsVisit(h) /\ h.at = "saveRate" /\ h.copy = v.copy
    BY <2>1 DEF GoesOn
  <2> HIDE DEF h
  <2>3. CASE n = Vacant
    BY <2>3, VacantIs
  <2>4. CASE n = h /\ v.copy.requests > RateLimit
    BY <2>2, <2>4
  <2>5. QED
    BY <1>8, <2>3, <2>4 DEF h
<1>10. visit'[r] = n
  BY <1>1, <1>2, <1>9, StepIs DEF UpdateOrCreate
<1>11. CountersInHand(visit[r])'
  BY <1>9, <1>10, NothingInHand
<1>12. BlockInSight(visit[r])'
  <2>1. ~(visit'[r].copy.requests <= RateLimit) \/ n.at = "idle"
    <3>1. CASE n.at = "saveRate" /\ n.copy.requests > RateLimit
      <4>1. n.copy \in SuspiciousIP
        BY <1>9 DEF IsVisit
      <4>2. n.copy.requests \in Nat /\ RateLimit \in Nat
        BY <4>1, EngineConstants DEF SuspiciousIP
      <4>3. QED
        BY <1>10, <3>1, <4>2
    <3>2. QED
      BY <1>9, <3>1
  <2>2. QED
    BY <1>9, <1>10, <2>1 DEF BlockInSight, PastGate, PastAttempts
<1>13. QED
  BY <1>1, <1>4, <1>7, <1>9, <1>11, <1>12, EngineBlocks

LEMMA EngineBlockAttempts ==
    ASSUME EngineInv, NEW r \in Servers, BlockAttempts(r)
    PROVE  EngineInv'
<1> DEFINE until == clock + AttemptsBlock
           n     == GoesTo(r, "failed")
<1>1. visit[r].at = "blockAttempts" /\ UpdateOrCreate(r, until, n)
  BY DEF BlockAttempts, Serving
<1>2. EngineTypes /\ BlockInSight(visit[r]) /\ clock \in Nat /\ promised \in Nat
  BY DEF EngineInv, EngineTypes
<1>3. until \in Nat /\ clock + Window <= until /\ clock <= until
  BY <1>2, EngineConstants
<1>4. PastGate(visit[r])
  BY <1>1 DEF PastGate
<1>5. ~visit[r].unseen /\ ~overlapped /\ kind # "trusted" => promised < clock
  BY <1>2, <1>4 DEF BlockInSight
<1>6. ~visit[r].unseen /\ ~overlapped /\ kind # "trusted" => promised <= until
  BY <1>2, <1>3, <1>5
<1>7. GoesOn(n, r, "failed", NoCopy, "idle")
  BY GoesToIs
<1> HIDE DEF n
<1>8. IsVisit(n)
  BY <1>7 DEF GoesOn
<1>9. visit'[r] = n
  BY <1>1, <1>2, <1>8, StepIs DEF UpdateOrCreate
<1>10. visit'[r].at = "failed" /\ visit'[r].unseen = visit[r].unseen
  BY <1>7, <1>9 DEF GoesOn
<1>11. CountersInHand(visit[r])'
  BY <1>10, NothingInHand
<1>12. BlockInSight(visit[r])'
  <2>1. /\ promised' = MostOf(promised, until) /\ clock' = clock /\ kind' = kind
        /\ overlapped => overlapped'
    BY <1>1 DEF UpdateOrCreate, SameAddress
  <2>2. promised < clock => promised' <= clock' + AttemptsBlock
    BY <1>2, <1>3, <2>1, EngineConstants DEF MostOf
  <2>3. ~visit'[r].unseen /\ ~overlapped' /\ kind' # "trusted" => promised' <= clock' + AttemptsBlock
    BY <1>5, <1>10, <2>1, <2>2
  <2>4. QED
    BY <1>10, <2>3 DEF BlockInSight, PastGate
<1> HIDE DEF until
<1>13. QED
  BY <1>1, <1>3, <1>6, <1>8, <1>11, <1>12, EngineBlocks

LEMMA EngineBlockAttack ==
    ASSUME EngineInv, NEW r \in Servers, BlockAttack(r)
    PROVE  EngineInv'
<1> DEFINE until == clock + BlockDuration
<1>1. visit[r].at = "blockAttack" /\ UpdateOrCreate(r, until, Vacant)
  BY DEF BlockAttack, Serving
<1>2. EngineTypes /\ BlockInSight(visit[r]) /\ clock \in Nat /\ promised \in Nat
  BY DEF EngineInv, EngineTypes
<1>3. until \in Nat /\ clock + Window <= until /\ clock <= until
  BY <1>2, EngineConstants
<1>4. PastGate(visit[r])
  BY <1>1 DEF PastGate
<1>5. ~visit[r].unseen /\ ~overlapped /\ kind # "trusted" => promised <= until
  BY <1>2, <1>3, <1>4 DEF BlockInSight
<1> HIDE DEF until
<1>6. visit'[r] = Vacant
  BY <1>1, <1>2, VacantIs, StepIs DEF UpdateOrCreate
<1>7. CountersInHand(visit[r])' /\ BlockInSight(visit[r])'
  BY <1>6, VacantIs, NothingInHand, NothingRelied
<1>8. QED
  BY <1>1, <1>3, <1>5, <1>7, VacantIs, EngineBlocks

LEMMA EngineDiscard ==
    ASSUME EngineInv, NEW r \in Servers, Discard(r)
    PROVE  EngineInv'
<1> DEFINE v       == visit[r]
           gone    == block.id = v.pk
           renewed == gone /\ ~IsExpired(block)
           n       == GoesTo(r, v.after)
<1>1. /\ v.at = "discard" /\ Steps(r, n, gone, {})
      /\ block' = IF gone THEN NoBlock ELSE block
      /\ overlapped => overlapped'
      /\ renewed /\ v.unseen => overlapped'
      /\ lifted => lifted'
      /\ renewed /\ v.unseen => lifted'
      /\ UNCHANGED <<clock, kind, suspicious, attempts, promised, failures, escalations, overwritten>>
  BY DEF Discard, SameAddress, Serving
<1>2. /\ EngineTypes /\ BlockInSight(v) /\ CountersExact /\ BlockHolds /\ clock \in Nat
      /\ promised \in Nat /\ block \in BlockedIP
      /\ IsFiniteSet(attempts) /\ \A a \in attempts : a.at \in Nat /\ a.at <= clock
  BY DEF EngineInv, EngineTypes, AttemptsKnown
<1>3. v.after \in {"idle", "login", "rate"}
  BY <1>1, <1>2 DEF BlockInSight
<1>4. renewed => v.unseen
  BY <1>1, <1>2 DEF BlockInSight
<1>5. IsVisit(n) /\ n.at = v.after /\ (v.after # "idle" => n.unseen = v.unseen)
  <2>1. CASE v.after = "idle"
    BY <2>1, VacantIs DEF GoesTo
  <2>2. CASE v.after # "idle"
    <3>1. GoesOn(n, r, v.after, NoCopy, "idle")
      BY <2>2, GoesToIs
    <3> HIDE DEF n
    <3>2. QED
      BY <3>1 DEF GoesOn
  <2>3. QED
    BY <2>1, <2>2
<1> HIDE DEF n
<1>6. visit'[r] = n /\ Moved(r, gone, {})
  <2>1. gone \in BOOLEAN
    OBVIOUS
  <2> HIDE DEF gone
  <2>2. QED
    BY <1>1, <1>2, <1>5, <2>1, StepIs
<1>7. visit'[r].at = v.after /\ (v.after # "idle" => visit'[r].unseen = v.unseen)
  BY <1>5, <1>6
<1>8. CountersInHand(visit[r])'
  BY <1>3, <1>7, NothingInHand
<1>9. BlockInSight(visit[r])'
  <2>1. CASE v.after \in {"idle", "login"}
    BY <1>7, <2>1, NothingRelied
  <2>2. CASE v.after = "rate"
    <3>1. PastGate(visit[r])
      BY <1>1, <2>2 DEF PastGate
    <3>2. QED
      BY <1>1, <1>2, <1>7, <2>2, <3>1, StillRelied
  <2>3. QED
    BY <1>3, <2>1, <2>2
<1>10. EngineFrame(gone, {})
  BY <1>1, <1>2 DEF EngineFrame, EngineTypes
<1>11. block' \in BlockedIP
  BY <1>1, <1>2 DEF NoBlock, BlockedIP
<1>12. BlockHolds'
  <2>1. SUFFICES ASSUME promised >= clock, ~overlapped', kind # "trusted"
                 PROVE  block'.id # 0 /\ block'.until >= promised
    BY <1>1 DEF BlockHolds
  <2>2. block.id # 0 /\ block.until >= promised
    BY <1>1, <1>2, <2>1 DEF BlockHolds
  <2>3. ~IsExpired(block)
    BY <1>2, <2>1, <2>2 DEF IsExpired, BlockedIP
  <2>4. ~gone
    BY <1>1, <1>4, <2>1, <2>3
  <2>5. QED
    BY <1>1, <2>2, <2>4
<1>13. CountersExact'
  BY <1>1, <1>2 DEF CountersExact
<1>14. AttemptsKnown'
  <2>1. Recent' = Recent
    BY <1>1 DEF Recent
  <2>2. SUFFICES ASSUME Recent >= MaxFailures, ~lifted',
                        \A q \in Servers : visit'[q].at \notin {"count", "blockAttempts"}
                 PROVE  block'.id # 0 /\ \A a \in attempts : block'.until >= a.at + Window
    BY <1>1, <1>2, <2>1 DEF AttemptsKnown
  <2>3. \A q \in Servers : visit[q].at \notin {"count", "blockAttempts"}
    BY <1>1, <1>6, <2>2 DEF Moved, Meanwhile
  <2>4. block.id # 0 /\ \A a \in attempts : block.until >= a.at + Window
    BY <1>1, <2>2, <2>3 DEF EngineInv, AttemptsKnown
  <2>5. \E a \in attempts : a.at + Window >= clock
    BY <1>2, <2>2, RecentIs
  <2>6. ~IsExpired(block)
    BY <1>2, <2>4, <2>5, EngineConstants DEF IsExpired, BlockedIP
  <2>7. ~gone
    BY <1>1, <1>4, <2>2, <2>6
  <2>8. QED
    BY <1>1, <2>4, <2>7
<1>15. failures' \in Nat /\ promised' \in Nat /\ suspicious' \in SuspiciousIP
  BY <1>1, <1>2 DEF EngineTypes
<1> HIDE DEF gone
<1>16. QED
  BY <1>6, <1>8, <1>9, <1>10, <1>11, <1>12, <1>13, <1>14, <1>15, EngineStep

LEMMA EngineRemoveBlock ==
    ASSUME EngineInv, NEW r \in Servers, RemoveBlock(r)
    PROVE  EngineInv'
<1>1. /\ visit[r].at = "lift" /\ Steps(r, GoesTo(r, "check"), TRUE, {})
      /\ block' = NoBlock /\ promised' = 0 /\ lifted' = TRUE
      /\ UNCHANGED <<clock, kind, suspicious, attempts, overlapped, failures, escalations, overwritten>>
  BY DEF RemoveBlock, Lifts, SameAddress, Serving
<1>2. /\ EngineTypes /\ CountersExact /\ clock \in Nat \ {0}
      /\ IsFiniteSet(attempts) /\ \A a \in attempts : a.at \in Nat /\ a.at <= clock
  BY DEF EngineInv, EngineTypes, AttemptsKnown
<1>3. GoesOn(GoesTo(r, "check"), r, "check", NoCopy, "idle")
  BY GoesToIs
<1>4. IsVisit(GoesTo(r, "check"))
  BY <1>3 DEF GoesOn
<1>5. visit'[r] = GoesTo(r, "check") /\ Moved(r, TRUE, {})
  BY <1>1, <1>2, <1>4, StepIs
<1>6. visit'[r].at = "check"
  BY <1>3, <1>5 DEF GoesOn
<1>7. promised' < clock'
  BY <1>1, <1>2
<1>8. CountersInHand(visit[r])' /\ BlockInSight(visit[r])'
  BY <1>6, <1>7, NothingInHand DEF BlockInSight, PastAttempts
<1>9. EngineFrame(TRUE, {})
  BY <1>1, <1>2 DEF EngineFrame, EngineTypes
<1>10. CountersExact' /\ AttemptsKnown'
  BY <1>1, <1>2 DEF CountersExact, AttemptsKnown
<1>11. BlockHolds'
  BY <1>1, <1>2 DEF BlockHolds
<1>12. failures' \in Nat /\ promised' \in Nat /\ suspicious' \in SuspiciousIP /\ block' \in BlockedIP
  BY <1>1, <1>2 DEF EngineTypes, NoBlock, BlockedIP
<1>13. QED
  BY <1>5, <1>8, <1>9, <1>10, <1>11, <1>12, EngineStep

\* The block changes under every visit's feet.
LEMMA EveryoneUnseen ==
    ASSUME EngineInv, EngineFrame(TRUE, {}),
           visit' = [q \in Servers |-> IF visit[q].at = "idle" THEN visit[q]
                                       ELSE [visit[q] EXCEPT !.unseen = TRUE]]
    PROVE  /\ visit' = [q \in Servers |-> visit'[q]]
           /\ \A q \in Servers :
                /\ IsVisit(visit[q])' /\ CountersInHand(visit[q])' /\ BlockInSight(visit[q])'
                /\ visit'[q].at = visit[q].at
<1>1. ASSUME NEW q \in Servers
      PROVE  /\ IsVisit(visit[q])' /\ CountersInHand(visit[q])' /\ BlockInSight(visit[q])'
             /\ visit'[q].at = visit[q].at
  <2> DEFINE v == visit[q]
             u == [v EXCEPT !.unseen = TRUE]
  <2>1. IsVisit(v) /\ CountersInHand(v) /\ BlockInSight(v) /\ EngineTypes
    BY DEF EngineInv, EngineTypes
  <2>2. visit'[q] = IF v.at = "idle" THEN v ELSE u
    OBVIOUS
  <2>3. v \in [at : {v.at}, pk : {v.pk}, copy : {v.copy}, after : {v.after}, unseen : {v.unseen},
               dirty : {v.dirty}] /\ v.copy \in SuspiciousIP
    BY <2>1 DEF IsVisit
  <2> HIDE DEF v
  <2>4. u \in [at : {v.at}, pk : {v.pk}, copy : {v.copy}, after : {v.after}, unseen : {TRUE},
               dirty : {v.dirty}]
    BY <2>3
  <2> HIDE DEF u
  <2>5. Meanwhile(v, u, TRUE, {})
    BY <2>3, <2>4 DEF Meanwhile, IsVisit
  <2>6. v.at = "idle" => Meanwhile(v, v, TRUE, {})
    BY <2>1, IdleMeanwhile
  <2>7. Meanwhile(visit[q], visit'[q], TRUE, {})
    BY <2>2, <2>5, <2>6 DEF v
  <2>8. CountersInHand(visit[q])' /\ BlockInSight(visit[q])'
    BY <2>1, <2>7, MeanwhileCounters, MeanwhileBlock DEF v
  <2>9. IsVisit(visit'[q]) /\ visit'[q].at = visit[q].at
    BY <2>7 DEF Meanwhile
  <2>10. IsVisit(visit'[q]) <=> IsVisit(visit[q])'
    BY DEF IsVisit, SuspiciousIP
  <2>11. QED
    BY <2>8, <2>9, <2>10
<1>2. visit' = [q \in Servers |-> visit'[q]]
  OBVIOUS
<1>3. QED
  BY <1>1, <1>2

LEMMA EngineUnblockIp ==
    ASSUME EngineInv, UnblockIp
    PROVE  EngineInv'
<1>1. /\ block' = NoBlock /\ promised' = 0 /\ lifted' = TRUE
      /\ visit' = [q \in Servers |-> IF visit[q].at = "idle" THEN visit[q]
                                     ELSE [visit[q] EXCEPT !.unseen = TRUE]]
      /\ UNCHANGED <<clock, kind, suspicious, attempts, overlapped, failures, escalations, overwritten>>
  BY DEF UnblockIp, Lifts, SameAddress
<1>2. /\ EngineTypes /\ CountersExact /\ clock \in Nat \ {0}
      /\ IsFiniteSet(attempts) /\ \A a \in attempts : a.at \in Nat /\ a.at <= clock
  BY DEF EngineInv, EngineTypes, AttemptsKnown
<1>3. EngineFrame(TRUE, {})
  BY <1>1, <1>2 DEF EngineFrame, EngineTypes
<1>4. /\ visit' = [q \in Servers |-> visit'[q]]
      /\ \A q \in Servers : IsVisit(visit[q])' /\ CountersInHand(visit[q])' /\ BlockInSight(visit[q])'
  BY <1>1, <1>3, EveryoneUnseen
<1>5. EngineTypes'
  BY <1>1, <1>2, <1>4 DEF EngineTypes, NoBlock, BlockedIP, SuspiciousIP
<1>6. CountersExact' /\ AttemptsKnown'
  BY <1>1, <1>2 DEF CountersExact, AttemptsKnown
<1>7. BlockHolds'
  BY <1>1, <1>2 DEF BlockHolds
<1>8. QED
  BY <1>4, <1>5, <1>6, <1>7 DEF EngineInv

\* Only an expired block is purged, and no block in force is expired.
LEMMA EnginePurge ==
    ASSUME EngineInv, PurgeBlocks
    PROVE  EngineInv'
<1>1. /\ block' = NoBlock /\ block.until < clock
      /\ visit' = [q \in Servers |-> IF visit[q].at = "idle" THEN visit[q]
                                     ELSE [visit[q] EXCEPT !.unseen = TRUE]]
      /\ UNCHANGED <<clock, kind, suspicious, attempts, promised, lifted, overlapped, failures,
                     escalations, overwritten>>
  BY DEF PurgeBlocks, SameAddress, engineFacts
<1>2. /\ EngineTypes /\ CountersExact /\ BlockHolds /\ clock \in Nat \ {0} /\ block \in BlockedIP
      /\ promised \in Nat
      /\ IsFiniteSet(attempts) /\ \A a \in attempts : a.at \in Nat /\ a.at <= clock
  BY DEF EngineInv, EngineTypes, AttemptsKnown
<1>3. EngineFrame(TRUE, {})
  BY <1>1, <1>2 DEF EngineFrame, EngineTypes
<1>4. /\ visit' = [q \in Servers |-> visit'[q]]
      /\ \A q \in Servers :
           /\ IsVisit(visit[q])' /\ CountersInHand(visit[q])' /\ BlockInSight(visit[q])'
           /\ visit'[q].at = visit[q].at
  BY <1>1, <1>3, EveryoneUnseen
<1>5. EngineTypes'
  BY <1>1, <1>2, <1>4 DEF EngineTypes, NoBlock, BlockedIP, SuspiciousIP
<1>6. CountersExact'
  BY <1>1, <1>2 DEF CountersExact
<1>7. BlockHolds'
  BY <1>1, <1>2 DEF BlockHolds, BlockedIP
<1>8. AttemptsKnown'
  <2>1. Recent' = Recent
    BY <1>1 DEF Recent
  <2>2. SUFFICES ASSUME Recent >= MaxFailures, ~lifted,
                        \A q \in Servers : visit[q].at \notin {"count", "blockAttempts"}
                 PROVE  FALSE
    BY <1>1, <1>2, <1>4, <2>1 DEF AttemptsKnown
  <2>3. \A a \in attempts : block.until >= a.at + Window
    BY <2>2 DEF EngineInv, AttemptsKnown
  <2>4. \E a \in attempts : a.at + Window >= clock
    BY <1>2, <2>2, RecentIs
  <2>5. QED
    BY <1>1, <1>2, <2>3, <2>4, EngineConstants DEF BlockedIP
<1>9. QED
  BY <1>4, <1>5, <1>6, <1>7, <1>8 DEF EngineInv

LEMMA EngineTicks ==
    ASSUME EngineInv, EngineTick
    PROVE  EngineInv'
<1>1. /\ clock' = clock + 1
      /\ UNCHANGED <<kind, visit, suspicious, block, attempts, promised, lifted, overlapped, failures,
                     escalations, overwritten>>
  BY DEF EngineTick, engineFacts
<1>2. /\ EngineTypes /\ CountersExact /\ BlockHolds /\ clock \in Nat \ {0} /\ block \in BlockedIP
      /\ promised \in Nat
      /\ IsFiniteSet(attempts) /\ \A a \in attempts : a.at \in Nat /\ a.at <= clock
  BY DEF EngineInv, EngineTypes, AttemptsKnown
<1>3. ASSUME NEW q \in Servers
      PROVE  IsVisit(visit[q])' /\ CountersInHand(visit[q])' /\ BlockInSight(visit[q])'
  <2>1. IsVisit(visit[q]) /\ CountersInHand(visit[q]) /\ BlockInSight(visit[q])
    BY DEF EngineInv, EngineTypes
  <2>2. IsVisit(visit[q])' /\ CountersInHand(visit[q])'
    BY <1>1, <2>1 DEF IsVisit, SuspiciousIP, CountersInHand, NoCopy
  <2>3. IsExpired(block) => IsExpired(block)'
    BY <1>1, <1>2 DEF IsExpired, BlockedIP
  <2>4. (promised < clock => promised' < clock')
          /\ (promised <= clock + AttemptsBlock => promised' <= clock' + AttemptsBlock)
    BY <1>1, <1>2, EngineConstants
  <2>5. PastGate(visit[q])' = PastGate(visit[q]) /\ PastAttempts(visit[q])' = PastAttempts(visit[q])
    BY <1>1 DEF PastGate, PastAttempts
  <2>6. BlockInSight(visit[q])'
    BY <1>1, <2>1, <2>3, <2>4, <2>5 DEF BlockInSight
  <2>7. QED
    BY <2>2, <2>6
<1>4. EngineTypes'
  BY <1>1, <1>2, <1>3 DEF EngineTypes, BlockedIP, SuspiciousIP
<1>5. CountersExact'
  BY <1>1, <1>2 DEF CountersExact
<1>6. BlockHolds'
  BY <1>1, <1>2 DEF BlockHolds
<1>7. AttemptsKnown'
  <2> DEFINE near == {a \in attempts : a.at + Window >= clock}
             late == {a \in attempts : a.at + Window >= clock + 1}
  <2>1. late \subseteq near
    BY <1>2, EngineConstants
  <2>2. Recent = Cardinality(near) /\ Recent' = Cardinality(late)
    BY <1>1 DEF Recent
  <2>3. IsFiniteSet(near)
    BY <1>2, FS_Subset
  <2> HIDE DEF near, late
  <2>4. Recent' <= Recent /\ Recent \in Nat /\ Recent' \in Nat
    BY <2>1, <2>2, <2>3, FS_Subset, FS_CardinalityType
  <2>5. Recent' >= MaxFailures => Recent >= MaxFailures
    BY <2>4, EngineConstants
  <2>6. \A a \in attempts' : a.at \in Nat /\ a.at <= clock'
    BY <1>1, <1>2
  <2>7. QED
    BY <1>1, <1>2, <2>5, <2>6 DEF EngineInv, AttemptsKnown
<1>8. QED
  BY <1>3, <1>4, <1>5, <1>6, <1>7 DEF EngineInv

-----------------------------------------------------------------------------
(* The theorems. *)

LEMMA EngineInitially == EngineInit => EngineInv
<1> SUFFICES ASSUME EngineInit
             PROVE  EngineInv
  OBVIOUS
<1>1. /\ clock = 1 /\ block = NoBlock /\ attempts = {} /\ suspicious.failed = 0 /\ suspicious.blocks = 0
      /\ suspicious \in SuspiciousIP
      /\ visit = [r \in Servers |-> Vacant] /\ promised = 0 /\ failures = 0 /\ escalations = 0
  BY DEF EngineInit, SuspiciousIP
<1>2. EngineTypes
  BY <1>1, VacantIs DEF EngineTypes, NoBlock, BlockedIP
<1>3. \A r \in Servers : CountersInHand(visit[r]) /\ BlockInSight(visit[r])
  BY <1>1, VacantIs DEF CountersInHand, BlockInSight, PastGate, PastAttempts
<1>4. CountersExact /\ BlockHolds
  BY <1>1 DEF CountersExact, BlockHolds
<1>5. AttemptsKnown
  <2>1. IsFiniteSet(attempts)
    BY <1>1, FS_EmptySet
  <2>2. ~(Recent >= MaxFailures)
    BY <1>1, <2>1, RecentIs
  <2>3. QED
    BY <1>1, <2>1, <2>2 DEF AttemptsKnown
<1>6. QED
  BY <1>2, <1>3, <1>4, <1>5 DEF EngineInv

LEMMA EngineNextKeeps == EngineInv /\ [EngineNext]_engineVars => EngineInv'
<1> SUFFICES ASSUME EngineInv, [EngineNext]_engineVars
             PROVE  EngineInv'
  OBVIOUS
<1>1. ASSUME NEW r \in Servers, ServerStep(r)
      PROVE  EngineInv'
  BY <1>1, EngineArrive, EngineLoginGate, EngineDiscard, EngineCheckRate, EngineSaveRate,
     EngineRefuse, EngineWrongPassword, EngineCountAttempts, EngineBlockAttempts,
     EngineRecordFailed, EngineSaveFailed, EngineCountBlock, EngineBlockIp, EngineRightPassword,
     EngineSaveSuccess, EngineRemoveBlock, EngineCheckAttack, EngineBlockAttack DEF ServerStep
<1>2. CASE UNCHANGED engineVars
  BY <1>2 DEF engineVars, EngineInv, EngineTypes, IsVisit, CountersInHand, BlockInSight, PastGate,
     PastAttempts, IsExpired, CountersExact, BlockHolds, AttemptsKnown, Recent, NoCopy,
     SuspiciousIP, BlockedIP
<1>3. QED
  BY <1>1, <1>2, EngineUnblockIp, EnginePurge, EngineTicks DEF EngineNext

\* The engine's invariant: what every visit has read, and what is true of it since.
THEOREM EngineInductive == EngineSpec => []EngineInv
<1>1. QED
  BY EngineInitially, EngineNextKeeps, PTL DEF EngineSpec

\* However the visits interleave, a block that was announced is in force until
\* the end announced, unless a visit that had not seen it cut it short.
THEOREM BlocksHold == EngineSpec => []BlockHolds
<1>1. EngineInv => BlockHolds
  BY DEF EngineInv
<1>2. QED
  BY <1>1, EngineInductive, PTL

\* The counters are exact, but for the overlaps of two visits.
THEOREM EngineCounts == EngineSpec => []CountersExact
<1>1. EngineInv => CountersExact
  BY DEF EngineInv
<1>2. QED
  BY <1>1, EngineInductive, PTL

\* MaxFailures failures in the window leave the address blocked, once they are counted.
THEOREM AttacksAreBlocked == EngineSpec => []AttackIsBlocked
<1>1. EngineInv => AttackIsBlocked
  <2> SUFFICES ASSUME EngineInv, Recent >= MaxFailures, ~lifted,
                      \A r \in Servers : visit[r].at \notin {"count", "blockAttempts"}
               PROVE  block.id # 0 /\ ~IsExpired(block)
    BY DEF AttackIsBlocked
  <2>1. block.id # 0 /\ (\A a \in attempts : block.until >= a.at + Window) /\ IsFiniteSet(attempts)
          /\ \A a \in attempts : a.at \in Nat
    BY DEF EngineInv, AttemptsKnown
  <2>2. \E a \in attempts : a.at + Window >= clock
    BY <2>1, RecentIs
  <2>3. clock \in Nat /\ block \in BlockedIP
    BY DEF EngineInv, EngineTypes
  <2>4. QED
    BY <2>1, <2>2, <2>3, EngineConstants DEF IsExpired, BlockedIP
<1>2. QED
  BY <1>1, EngineInductive, PTL
-----------------------------------------------------------------------------
(*****************************************************************************)
(* SecurityAlerts: what a user is told of the logins and reset requests.     *)
(*****************************************************************************)
Telling == {"tellDevice", "tellAddress"}

\* A login and an alert have their fields.
IsLogin(l) ==
    /\ l \in [device : {l.device}, address : {l.address}, opened : {l.opened}, at : {l.at},
              tries : {l.tries}]
    /\ l.at # "none" => l.device \in Devices /\ l.address \in Addresses
IsAlert(x) ==
    /\ x \in [kind : {x.kind}, about : {x.about}, by : {x.by}, run : {x.run}, at : Nat,
              resolved : BOOLEAN]

AlertsTypes ==
    /\ time \in Nat \ {0}
    /\ login = [k \in Logins |-> login[k]] /\ \A k \in Logins : IsLogin(login[k])
    /\ known = [d \in Devices |-> known[d]]
    /\ request \in [Requests -> [at : {"none", "count", "alert", "done"}, logged : Nat]]
    /\ \A q \in Requests : request[q].logged <= time
    /\ \A x \in Told : IsAlert(x)
    /\ \A x \in purged : x.resolved

\* Of the alerts T, the runs C that ended early and the logins L: d at a is
\* told, is being told or is not going to be.
ToldIn(T, C, L, d, a) ==
    \/ \E x \in T : x.kind \in {"device", "address"} /\ x.about = <<d, a>>
    \/ <<d, a>> \in C
    \/ \E j \in Logins : L[j].at \in Telling /\ L[j].device = d /\ L[j].address = a

\* What is stored was told, and what was examined is stored.
PlacesTold ==
    /\ \A d \in Devices : known[d] # "noRow" => ToldIn(Told, cut, login, d, known[d])
    /\ \A k \in Logins : login[k].at = "done" =>
         ToldIn(Told, cut, login, login[k].device, login[k].address)

\* A device is announced by the run that stored it, and by no other.
Announced(x, d) == x.kind = "device" /\ x.about[1] = d
Announcing(k, d) == login[k].at = "tellDevice" /\ login[k].device = d
DeviceOnce ==
    \A d \in Devices :
      /\ known[d] = "noRow" =>
           (\A x \in Told : ~Announced(x, d)) /\ \A k \in Logins : ~Announcing(k, d)
      /\ \A k \in Logins : Announcing(k, d) =>
           /\ \A x \in Told : ~Announced(x, d)
           /\ \A j \in Logins : Announcing(j, d) => j = k
      /\ \A x, y \in Told : Announced(x, d) /\ Announced(y, d) => x = y

\* Once everyone has counted, the requests are told or about to be.
EventsKnown ==
    (Cardinality(RecentEvents) >= Threshold /\ \A q \in Requests : request[q].at # "count")
    => \/ \E q \in Requests : request[q].at = "alert"
       \/ \E x \in Told : x.kind = "events" /\ \A q \in Requests : request[q].logged <= x.at

AlertsInv == AlertsTypes /\ PlacesTold /\ DeviceOnce /\ EventsKnown
-----------------------------------------------------------------------------
(* What the steps do to the logins and to the alerts. *)

\* Login k is at stage, and nothing else changes of a login that was opened.
LoginMoved(k, stage) ==
    /\ login' = [j \in Logins |-> login'[j]]
    /\ \A j \in Logins :
         /\ IsLogin(login'[j])
         /\ login[j].at # "none" =>
              login'[j].device = login[j].device /\ login'[j].address = login[j].address
         /\ login'[j].at = IF j = k THEN stage ELSE login[j].at

LEMMA LoginIs ==
    ASSUME NEW l, IsLogin(l), l.at # "none", NEW stage, NEW tries
    PROVE  /\ IsLogin([l EXCEPT !.at = stage]) /\ [l EXCEPT !.at = stage].device = l.device
           /\ [l EXCEPT !.at = stage].address = l.address /\ [l EXCEPT !.at = stage].at = stage
           /\ IsLogin([l EXCEPT !.tries = tries]) /\ [l EXCEPT !.tries = tries].device = l.device
           /\ [l EXCEPT !.tries = tries].address = l.address /\ [l EXCEPT !.tries = tries].at = l.at
<1> DEFINE a == [l EXCEPT !.at = stage]
           b == [l EXCEPT !.tries = tries]
<1>1. /\ l \in [device : {l.device}, address : {l.address}, opened : {l.opened}, at : {l.at},
                tries : {l.tries}]
      /\ l.device \in Devices /\ l.address \in Addresses
  BY DEF IsLogin
<1>2. a \in [device : {l.device}, address : {l.address}, opened : {l.opened}, at : {stage},
             tries : {l.tries}]
  BY <1>1
<1>3. b \in [device : {l.device}, address : {l.address}, opened : {l.opened}, at : {l.at},
             tries : {tries}]
  BY <1>1
<1> HIDE DEF a, b
<1>4. IsLogin(a) /\ a.device = l.device /\ a.address = l.address /\ a.at = stage
  BY <1>1, <1>2 DEF IsLogin
<1>5. IsLogin(b) /\ b.device = l.device /\ b.address = l.address /\ b.at = l.at
  BY <1>1, <1>3 DEF IsLogin
<1>6. QED
  BY <1>4, <1>5 DEF a, b

LEMMA ReachesIs ==
    ASSUME AlertsTypes, NEW k \in Logins, login[k].at # "none", NEW stage, Reaches(k, stage)
    PROVE  LoginMoved(k, stage)
<1> DEFINE l == login[k]
           a == [l EXCEPT !.at = stage]
<1>1. login = [j \in Logins |-> login[j]] /\ \A j \in Logins : IsLogin(login[j])
  BY DEF AlertsTypes
<1>2. IsLogin(a) /\ a.device = l.device /\ a.address = l.address /\ a.at = stage
  BY <1>1, LoginIs
<1>3. login' = [login EXCEPT ![k] = a]
  BY DEF Reaches
<1> HIDE DEF a
<1>4. \A j \in Logins : login'[j] = IF j = k THEN a ELSE login[j]
  BY <1>1, <1>3
<1>5. login' = [j \in Logins |-> login'[j]]
  BY <1>1, <1>3
<1>6. QED
  BY <1>1, <1>2, <1>4, <1>5 DEF LoginMoved

LEMMA ClaimIs ==
    ASSUME AlertsTypes, NEW k \in Logins, Claim(k)
    PROVE  LoginMoved(k, "count")
<1> DEFINE l == login[k]
           t == l.tries + 1
           a == [l EXCEPT !.at = "count"]
           b == [a EXCEPT !.tries = t]
<1>1. login = [j \in Logins |-> login[j]] /\ (\A j \in Logins : IsLogin(login[j])) /\ l.at = "queued"
  BY DEF AlertsTypes, Claim
<1>2. IsLogin(a) /\ a.device = l.device /\ a.address = l.address /\ a.at = "count" /\ a.tries = l.tries
  <2>1. IsLogin(l) /\ l.at # "none"
    BY <1>1
  <2>2. IsLogin(a) /\ a.device = l.device /\ a.address = l.address /\ a.at = "count"
    BY <2>1, LoginIs
  <2>3. a.tries = l.tries
    BY <2>1 DEF IsLogin
  <2>4. QED
    BY <2>2, <2>3
<1>3. login' = [login EXCEPT ![k] = b]
  BY <1>1 DEF Claim
<1> HIDE DEF a, t
<1>4. IsLogin(b) /\ b.device = l.device /\ b.address = l.address /\ b.at = "count"
  <2>1. a.at # "none"
    BY <1>2
  <2>2. /\ IsLogin(b) /\ b.device = a.device
        /\ b.address = a.address /\ b.at = a.at
    BY <1>2, <2>1, LoginIs
  <2>3. QED
    BY <1>2, <2>2
<1> HIDE DEF b
<1>5. \A j \in Logins : login'[j] = IF j = k THEN b ELSE login[j]
  <2>1. ASSUME NEW L, L = [j \in Logins |-> L[j]], NEW j \in Logins
        PROVE  [L EXCEPT ![k] = b][j] = IF j = k THEN b ELSE L[j]
    BY <2>1, ZenonT(20)
  <2>2. QED
    BY <1>1, <1>3, <2>1
<1>6. login' = [j \in Logins |-> login'[j]]
  BY <1>1, <1>3
<1>7. QED
  BY <1>1, <1>4, <1>5, <1>6 DEF LoginMoved

\* The alert a step makes.
NewAlert(what, about, by, run) ==
    [kind |-> what, about |-> about, by |-> by, run |-> run, at |-> time, resolved |-> FALSE]

LEMMA NewAlertIs ==
    ASSUME time \in Nat, NEW what, NEW about, NEW by, NEW run
    PROVE  /\ IsAlert(NewAlert(what, about, by, run))
           /\ NewAlert(what, about, by, run).kind = what
           /\ NewAlert(what, about, by, run).about = about
           /\ NewAlert(what, about, by, run).at = time
BY DEF NewAlert, IsAlert

LEMMA CreateAlertIs ==
    ASSUME NEW what, NEW about, NEW by, NEW run, CreateAlert(what, about, by, run), purged' = purged
    PROVE  Told' = Told \cup {NewAlert(what, about, by, run)}
BY DEF CreateAlert, NewAlert, Told

\* Whatever was told stays told.
LEMMA ToldStays ==
    ASSUME NEW T, NEW U, NEW C, NEW D, NEW L, NEW M, NEW d, NEW a, ToldIn(T, C, L, d, a),
           \A x \in T : \E y \in U : y.kind = x.kind /\ y.about = x.about,
           C \subseteq D,
           \A j \in Logins : L[j].at \in Telling => ToldIn(U, D, M, L[j].device, L[j].address)
    PROVE  ToldIn(U, D, M, d, a)
<1>1. CASE \E x \in T : x.kind \in {"device", "address"} /\ x.about = <<d, a>>
  BY <1>1 DEF ToldIn
<1>2. CASE <<d, a>> \in C
  BY <1>2 DEF ToldIn
<1>3. CASE \E j \in Logins : L[j].at \in Telling /\ L[j].device = d /\ L[j].address = a
  BY <1>3
<1>4. QED
  BY <1>1, <1>2, <1>3 DEF ToldIn

-----------------------------------------------------------------------------
(* The examination of a login. *)

\* What a step keeps that moves one login, and makes none known.
LEMMA AlertsStep ==
    ASSUME AlertsInv, NEW k \in Logins, NEW stage, LoginMoved(k, stage), UNCHANGED <<time, request, purged>>,
           known' = [d \in Devices |-> known'[d]],
           NEW new, Told' \in {Told, Told \cup {new}}, IsAlert(new),
           \A j \in Logins : login[j].at \in Telling =>
               ToldIn(Told', cut', login', login[j].device, login[j].address),
           cut \subseteq cut',
           \A d \in Devices : known'[d] = known[d] \/ ToldIn(Told', cut', login', d, known'[d]),
           stage = "done" => ToldIn(Told', cut', login', login'[k].device, login'[k].address),
           DeviceOnce'
    PROVE  AlertsInv'
<1>1. AlertsTypes /\ PlacesTold /\ EventsKnown
  BY DEF AlertsInv
<1>2. AlertsTypes'
  <2>1. \A x \in Told' : IsAlert(x)
    BY <1>1 DEF AlertsTypes
  <2>2. QED
    BY <1>1, <2>1 DEF AlertsTypes, LoginMoved, IsLogin, IsAlert
<1>3. \A x \in Told : \E y \in Told' : y.kind = x.kind /\ y.about = x.about /\ y.at = x.at
  OBVIOUS
<1>4. PlacesTold'
  <2>1. ASSUME NEW d \in Devices, known'[d] # "noRow"
        PROVE  ToldIn(Told', cut', login', d, known'[d])
    <3>1. CASE known'[d] = known[d]
      <4>1. ToldIn(Told, cut, login, d, known[d])
        BY <1>1, <2>1, <3>1 DEF PlacesTold
      <4>2. ToldIn(Told', cut', login', d, known[d])
        BY <1>3, <4>1, ToldStays
      <4>3. QED
        BY <3>1, <4>2
    <3>2. QED
      BY <3>1
  <2>2. ASSUME NEW j \in Logins, login'[j].at = "done"
        PROVE  ToldIn(Told', cut', login', login'[j].device, login'[j].address)
    <3>1. CASE j = k
      BY <2>2, <3>1 DEF LoginMoved
    <3>2. CASE j # k
      <4>1. login[j].at = "done"
        BY <2>2, <3>2 DEF LoginMoved
      <4>2. login'[j].device = login[j].device /\ login'[j].address = login[j].address
        BY <4>1 DEF LoginMoved
      <4>3. ToldIn(Told, cut, login, login[j].device, login[j].address)
        BY <1>1, <4>1 DEF PlacesTold
      <4>4. ToldIn(Told', cut', login', login[j].device, login[j].address)
        BY <1>3, <4>3, ToldStays
      <4>5. QED
        BY <4>2, <4>4
    <3>3. QED
      BY <3>1, <3>2
  <2>3. \A d, a : ToldIn(Told, cut, login, d, a)' <=> ToldIn(Told', cut', login', d, a)
    BY DEF ToldIn, Telling
  <2>4. QED
    BY <2>1, <2>2 DEF PlacesTold, ToldIn, Telling
<1>5. EventsKnown'
  <2>1. RecentEvents' = RecentEvents
    BY DEF RecentEvents
  <2>2. QED
    BY <1>1, <1>3, <2>1 DEF EventsKnown
<1>6. QED
  BY <1>2, <1>4, <1>5 DEF AlertsInv

\* Nobody announces a device but the run that stored it.
LEMMA OnceKept ==
    ASSUME AlertsInv, NEW k \in Logins, NEW stage, LoginMoved(k, stage), stage # "tellDevice",
           \A d \in Devices : known'[d] = "noRow" => known[d] = "noRow",
           NEW new, Told' \in {Told, Told \cup {new}}, new.kind # "device"
    PROVE  DeviceOnce'
<1>1. \A x \in Told', d \in Devices : Announced(x, d) => x \in Told
  BY DEF Announced
<1>2. \A j \in Logins, d \in Devices : Announcing(j, d)' => Announcing(j, d)
  BY DEF Announcing, LoginMoved
<1>3. \A x, d : Announced(x, d)' <=> Announced(x, d)
  BY DEF Announced
<1>4. SUFFICES ASSUME NEW d \in Devices
               PROVE  /\ known'[d] = "noRow" =>
                           (\A x \in Told' : ~Announced(x, d)) /\ \A j \in Logins : ~Announcing(j, d)'
                      /\ \A j \in Logins : Announcing(j, d)' =>
                           /\ \A x \in Told' : ~Announced(x, d)
                           /\ \A i \in Logins : Announcing(i, d)' => i = j
                      /\ \A x, y \in Told' : Announced(x, d) /\ Announced(y, d) => x = y
  BY DEF DeviceOnce, Announced
<1>5. /\ known[d] = "noRow" =>
           (\A x \in Told : ~Announced(x, d)) /\ \A j \in Logins : ~Announcing(j, d)
      /\ \A j \in Logins : Announcing(j, d) =>
           /\ \A x \in Told : ~Announced(x, d)
           /\ \A i \in Logins : Announcing(i, d) => i = j
      /\ \A x, y \in Told : Announced(x, d) /\ Announced(y, d) => x = y
  BY DEF AlertsInv, DeviceOnce
<1>6. QED
  BY <1>1, <1>2, <1>5

\* A step of a run that neither stores nor tells.
LEMMA AlertsQuiet ==
    ASSUME AlertsInv, NEW k \in Logins, NEW stage, LoginMoved(k, stage),
           UNCHANGED <<time, request, purged, known>>,
           stage \notin {"tellDevice", "tellAddress", "done"},
           NEW new, Told' \in {Told, Told \cup {new}}, IsAlert(new), new.kind # "device",
           cut \subseteq cut',
           login[k].at \in Telling => <<login[k].device, login[k].address>> \in cut'
    PROVE  AlertsInv'
<1>1. DeviceOnce'
  BY OnceKept
<1>2. ASSUME NEW j \in Logins, login[j].at \in Telling
      PROVE  ToldIn(Told', cut', login', login[j].device, login[j].address)
  <2>1. CASE j = k
    BY <1>2, <2>1 DEF ToldIn
  <2>2. CASE j # k
    <3>1. login[j].at # "none"
      BY <1>2 DEF Telling
    <3>2. /\ login'[j].at \in Telling /\ login'[j].device = login[j].device
          /\ login'[j].address = login[j].address
      BY <1>2, <2>2, <3>1 DEF LoginMoved
    <3>3. QED
      BY <3>2 DEF ToldIn
  <2>3. QED
    BY <2>1, <2>2
<1>3. known' = [d \in Devices |-> known'[d]]
  BY DEF AlertsInv, AlertsTypes
<1>4. QED
  BY <1>1, <1>2, <1>3, AlertsStep

LEMMA AlertsOpen ==
    ASSUME AlertsInv, NEW k \in Logins, NEW d \in Devices, NEW a \in Addresses, OpenSession(k, d, a)
    PROVE  AlertsInv'
<1> DEFINE l == [device |-> d, address |-> a, opened |-> time, at |-> "publish", tries |-> 0]
<1>1. /\ login[k].at = "none" /\ login' = [login EXCEPT ![k] = l]
      /\ UNCHANGED <<time, known, request, alerts, purged, cut>>
  BY DEF OpenSession
<1>2. login = [j \in Logins |-> login[j]] /\ (\A j \in Logins : IsLogin(login[j])) /\ time \in Nat
  BY DEF AlertsInv, AlertsTypes
<1>3. IsLogin(l) /\ l.at = "publish"
  BY DEF IsLogin
<1> HIDE DEF l
<1>4. (\A j \in Logins : login'[j] = IF j = k THEN l ELSE login[j]) /\ login' = [j \in Logins |-> login'[j]]
  BY <1>1, <1>2
<1>5. LoginMoved(k, "publish")
  BY <1>1, <1>2, <1>3, <1>4 DEF LoginMoved
<1> DEFINE new == NewAlert("sessions", <<>>, k, 0)
<1>6. IsAlert(new) /\ new.kind # "device" /\ Told' = Told
  BY <1>1, <1>2, NewAlertIs DEF Told
<1> HIDE DEF new
<1>7. cut \subseteq cut' /\ (login[k].at \in Telling => <<login[k].device, login[k].address>> \in cut')
  BY <1>1 DEF Telling
<1>8. QED
  BY <1>1, <1>5, <1>6, <1>7, AlertsQuiet

LEMMA AlertsPublish ==
    ASSUME AlertsInv, NEW k \in Logins, Publish(k)
    PROVE  AlertsInv'
<1>1. login[k].at = "publish" /\ UNCHANGED <<time, known, request, alerts, purged, cut>>
  BY DEF Publish
<1>2. AlertsTypes /\ time \in Nat
  BY DEF AlertsInv, AlertsTypes
<1>3. PICK stage \in {"queued", "unheard"} : Reaches(k, stage)
  BY DEF Publish
<1>4. LoginMoved(k, stage)
  BY <1>1, <1>2, <1>3, ReachesIs
<1> DEFINE new == NewAlert("sessions", <<>>, k, 0)
<1>5. IsAlert(new) /\ new.kind # "device" /\ Told' = Told
  BY <1>1, <1>2, NewAlertIs DEF Told
<1> HIDE DEF new
<1>6. cut \subseteq cut' /\ (login[k].at \in Telling => <<login[k].device, login[k].address>> \in cut')
  BY <1>1 DEF Telling
<1>7. QED
  BY <1>1, <1>3, <1>4, <1>5, <1>6, AlertsQuiet

LEMMA AlertsClaim ==
    ASSUME AlertsInv, NEW k \in Logins, Claim(k)
    PROVE  AlertsInv'
<1>1. login[k].at = "queued" /\ UNCHANGED <<time, known, request, alerts, purged, cut>>
  BY DEF Claim
<1>2. AlertsTypes /\ time \in Nat
  BY DEF AlertsInv, AlertsTypes
<1>3. LoginMoved(k, "count")
  BY <1>2, ClaimIs
<1> DEFINE new == NewAlert("sessions", <<>>, k, 0)
<1>4. IsAlert(new) /\ new.kind # "device" /\ Told' = Told
  BY <1>1, <1>2, NewAlertIs DEF Told
<1> HIDE DEF new
<1>5. cut \subseteq cut' /\ (login[k].at \in Telling => <<login[k].device, login[k].address>> \in cut')
  BY <1>1 DEF Telling
<1>6. QED
  BY <1>1, <1>3, <1>4, <1>5, AlertsQuiet

LEMMA AlertsCountSessions ==
    ASSUME AlertsInv, NEW k \in Logins, CountSessions(k)
    PROVE  AlertsInv'
<1> DEFINE new == NewAlert("sessions", <<>>, k, login[k].tries)
<1>1. /\ login[k].at = "count" /\ Reaches(k, "device")
      /\ CreateAlert("sessions", <<>>, k, login[k].tries) \/ alerts' = alerts
      /\ UNCHANGED <<time, known, request, purged, cut>>
  BY DEF CountSessions
<1>2. AlertsTypes /\ time \in Nat
  BY DEF AlertsInv, AlertsTypes
<1>3. LoginMoved(k, "device")
  BY <1>1, <1>2, ReachesIs
<1>4. IsAlert(new) /\ new.kind # "device"
  BY <1>2, NewAlertIs
<1>5. Told' \in {Told, Told \cup {new}}
  <2>1. CASE CreateAlert("sessions", <<>>, k, login[k].tries)
    <3>1. Told' = Told \cup {new}
      BY <1>1, <2>1, CreateAlertIs
    <3>2. QED
      BY <3>1
  <2>2. CASE alerts' = alerts
    BY <1>1, <2>2 DEF Told
  <2>3. QED
    BY <1>1, <2>1, <2>2
<1> HIDE DEF new
<1>6. cut \subseteq cut' /\ (login[k].at \in Telling => <<login[k].device, login[k].address>> \in cut')
  BY <1>1 DEF Telling
<1>7. QED
  BY <1>1, <1>3, <1>4, <1>5, <1>6, AlertsQuiet

LEMMA AlertsFail ==
    ASSUME AlertsInv, NEW k \in Logins, Fail(k)
    PROVE  AlertsInv'
<1>1. /\ login[k].at \in {"count", "device", "saveAddress", "tellDevice", "tellAddress"}
      /\ cut' = IF login[k].at \in {"tellDevice", "tellAddress"}
                THEN cut \cup {<<login[k].device, login[k].address>>} ELSE cut
      /\ UNCHANGED <<time, known, request, alerts, purged>>
  BY DEF Fail
<1>2. AlertsTypes /\ time \in Nat
  BY DEF AlertsInv, AlertsTypes
<1>3. PICK stage \in {"givenUp", "queued", "dead"} : Reaches(k, stage)
  BY DEF Fail
<1>4. LoginMoved(k, stage)
  BY <1>1, <1>2, <1>3, ReachesIs
<1> DEFINE new == NewAlert("sessions", <<>>, k, 0)
<1>5. IsAlert(new) /\ new.kind # "device" /\ Told' = Told
  BY <1>1, <1>2, NewAlertIs DEF Told
<1> HIDE DEF new
<1>6. cut \subseteq cut' /\ (login[k].at \in Telling => <<login[k].device, login[k].address>> \in cut')
  BY <1>1 DEF Telling
<1>7. QED
  BY <1>1, <1>3, <1>4, <1>5, <1>6, AlertsQuiet

\* The others that are telling still are.
LEMMA OthersTelling ==
    ASSUME NEW k \in Logins, NEW stage, LoginMoved(k, stage), NEW U, NEW D,
           NEW j \in Logins, j # k, login[j].at \in Telling
    PROVE  ToldIn(U, D, login', login[j].device, login[j].address)
<1>1. login[j].at # "none"
  BY DEF Telling
<1>2. /\ login'[j].at \in Telling /\ login'[j].device = login[j].device
      /\ login'[j].address = login[j].address
  BY <1>1 DEF LoginMoved
<1>3. QED
  BY <1>2 DEF ToldIn

LEMMA AlertsFindDevice ==
    ASSUME AlertsInv, NEW k \in Logins, FindDevice(k)
    PROVE  AlertsInv'
<1> DEFINE d   == login[k].device
           a   == login[k].address
           new == NewAlert("sessions", <<>>, k, 0)
<1>1. login[k].at = "device" /\ UNCHANGED <<time, request, alerts, purged, cut>>
  BY DEF FindDevice
<1>2. AlertsTypes /\ PlacesTold /\ DeviceOnce /\ time \in Nat /\ d \in Devices /\ a \in Addresses
      /\ known = [e \in Devices |-> known[e]]
  BY <1>1 DEF AlertsInv, AlertsTypes, IsLogin
<1>3. IsAlert(new) /\ new.kind # "device" /\ Told' = Told /\ cut \subseteq cut'
  BY <1>1, <1>2, NewAlertIs DEF Told
<1> HIDE DEF new
<1>4. login[k].at \notin Telling /\ login[k].at # "none"
  BY <1>1 DEF Telling
<1>5. \A stage : LoginMoved(k, stage) =>
         \A j \in Logins : login[j].at \in Telling =>
            ToldIn(Told', cut', login', login[j].device, login[j].address)
  BY <1>4, OthersTelling
<1>6. CASE Unknown(d, a)
  <2>1. Reaches(k, "tellDevice") /\ known' = [known EXCEPT ![d] = a] /\ known[d] = "noRow"
    BY <1>6 DEF FindDevice, Unknown
  <2>2. LoginMoved(k, "tellDevice")
    BY <1>2, <1>4, <2>1, ReachesIs
  <2>3. /\ known' = [e \in Devices |-> known'[e]]
        /\ \A e \in Devices : known'[e] = IF e = d THEN a ELSE known[e]
    BY <1>2, <2>1
  <2>4. login'[k].at = "tellDevice" /\ login'[k].device = d /\ login'[k].address = a
    BY <1>4, <2>2 DEF LoginMoved
  <2>5. ToldIn(Told', cut', login', d, a)
    BY <2>4 DEF ToldIn, Telling
  <2>6. DeviceOnce'
    <3>1. a # "noRow"
      BY <1>2, AlertsAssumption
    <3>2. \A x, e : Announced(x, e)' <=> Announced(x, e)
      BY DEF Announced
    <3>3. \A j \in Logins, e \in Devices :
             Announcing(j, e)' <=> Announcing(j, e) \/ (j = k /\ e = d)
      BY <1>1, <2>2, <2>4 DEF Announcing, LoginMoved
    <3>4. (\A x \in Told : ~Announced(x, d)) /\ \A j \in Logins : ~Announcing(j, d)
      BY <1>2, <2>1 DEF DeviceOnce
    <3>5. ~Announcing(k, d) /\ \A e \in Devices : ~Announcing(k, e)
      BY <1>1 DEF Announcing
    <3>6. SUFFICES ASSUME NEW e \in Devices
                   PROVE  /\ known'[e] = "noRow" =>
                               (\A x \in Told : ~Announced(x, e)) /\ \A j \in Logins : ~Announcing(j, e)'
                          /\ \A j \in Logins : Announcing(j, e)' =>
                               /\ \A x \in Told : ~Announced(x, e)
                               /\ \A i \in Logins : Announcing(i, e)' => i = j
                          /\ \A x, y \in Told : Announced(x, e) /\ Announced(y, e) => x = y
      BY <1>3 DEF DeviceOnce, Announced
    <3>7. /\ known[e] = "noRow" =>
               (\A x \in Told : ~Announced(x, e)) /\ \A j \in Logins : ~Announcing(j, e)
          /\ \A j \in Logins : Announcing(j, e) =>
               /\ \A x \in Told : ~Announced(x, e)
               /\ \A i \in Logins : Announcing(i, e) => i = j
          /\ \A x, y \in Told : Announced(x, e) /\ Announced(y, e) => x = y
      BY <1>2 DEF DeviceOnce
    <3>8. CASE e = d
      BY <2>3, <3>1, <3>3, <3>4, <3>7, <3>8
    <3>9. CASE e # d
      BY <2>3, <3>3, <3>7, <3>9
    <3>10. QED
      BY <3>8, <3>9
  <2>7. \A e \in Devices : known'[e] = known[e] \/ ToldIn(Told', cut', login', e, known'[e])
    BY <2>3, <2>5
  <2>8. \A j \in Logins : login[j].at \in Telling =>
           ToldIn(Told', cut', login', login[j].device, login[j].address)
    BY <1>5, <2>2
  <2>9. QED
    BY <1>1, <1>3, <2>2, <2>3, <2>6, <2>7, <2>8, AlertsStep
<1>7. CASE ~Unknown(d, a)
  <2> DEFINE stage == IF known[d] # a THEN "saveAddress" ELSE "done"
  <2>1. Reaches(k, stage) /\ known' = known /\ known[d] # "noRow"
    BY <1>7 DEF FindDevice, Unknown
  <2>2. stage \in {"saveAddress", "done"} /\ (stage = "done" => known[d] = a)
    OBVIOUS
  <2> HIDE DEF stage
  <2>3. LoginMoved(k, stage)
    BY <1>2, <1>4, <2>1, ReachesIs
  <2>4. DeviceOnce'
    BY <1>3, <2>1, <2>2, <2>3, OnceKept
  <2>5. \A j \in Logins : login[j].at \in Telling =>
           ToldIn(Told', cut', login', login[j].device, login[j].address)
    BY <1>5, <2>3
  <2>6. stage = "done" => ToldIn(Told', cut', login', login'[k].device, login'[k].address)
    <3>1. SUFFICES ASSUME stage = "done"
                   PROVE  ToldIn(Told', cut', login', login'[k].device, login'[k].address)
      OBVIOUS
    <3>2. login'[k].device = d /\ login'[k].address = a
      BY <1>4, <2>3 DEF LoginMoved
    <3>3. ToldIn(Told, cut, login, d, a)
      BY <1>2, <2>1, <2>2, <3>1 DEF PlacesTold
    <3>4. \A x \in Told : \E y \in Told' : y.kind = x.kind /\ y.about = x.about
      BY <1>3
    <3>5. ToldIn(Told', cut', login', d, a)
      BY <1>3, <2>5, <3>3, <3>4, ToldStays
    <3>6. QED
      BY <3>2, <3>5
  <2>7. known' = [e \in Devices |-> known'[e]] /\ \A e \in Devices : known'[e] = known[e]
    BY <1>2, <2>1
  <2>8. QED
    BY <1>1, <1>3, <2>3, <2>4, <2>5, <2>6, <2>7, AlertsStep
<1>8. QED
  BY <1>6, <1>7

LEMMA AlertsSaveAddress ==
    ASSUME AlertsInv, NEW k \in Logins, SaveAddress(k)
    PROVE  AlertsInv'
<1> DEFINE d   == login[k].device
           a   == login[k].address
           new == NewAlert("sessions", <<>>, k, 0)
<1>1. /\ login[k].at = "saveAddress" /\ UNCHANGED <<time, request, alerts, purged, cut>>
      /\ Reaches(k, "tellAddress") /\ known' = [known EXCEPT ![d] = a]
  BY DEF SaveAddress
<1>2. AlertsTypes /\ time \in Nat /\ d \in Devices /\ a \in Addresses
      /\ known = [e \in Devices |-> known[e]]
  BY <1>1 DEF AlertsInv, AlertsTypes, IsLogin
<1>3. IsAlert(new) /\ new.kind # "device" /\ Told' = Told /\ cut \subseteq cut'
  BY <1>1, <1>2, NewAlertIs DEF Told
<1> HIDE DEF new
<1>4. login[k].at \notin Telling /\ login[k].at # "none"
  BY <1>1 DEF Telling
<1>5. LoginMoved(k, "tellAddress")
  BY <1>1, <1>2, <1>4, ReachesIs
<1>6. \A j \in Logins : login[j].at \in Telling =>
         ToldIn(Told', cut', login', login[j].device, login[j].address)
  BY <1>4, <1>5, OthersTelling
<1>7. /\ known' = [e \in Devices |-> known'[e]]
      /\ \A e \in Devices : known'[e] = IF e = d THEN a ELSE known[e]
  BY <1>1, <1>2
<1>8. ToldIn(Told', cut', login', d, a)
  <2>1. login'[k].at = "tellAddress" /\ login'[k].device = d /\ login'[k].address = a
    BY <1>4, <1>5 DEF LoginMoved
  <2>2. QED
    BY <2>1 DEF ToldIn, Telling
<1>9. \A e \in Devices : known'[e] = known[e] \/ ToldIn(Told', cut', login', e, known'[e])
  BY <1>7, <1>8
<1>10. \A e \in Devices : known'[e] = "noRow" => known[e] = "noRow"
  BY <1>2, <1>7, AlertsAssumption
<1>11. DeviceOnce'
  BY <1>3, <1>5, <1>10, OnceKept
<1>12. UNCHANGED <<time, request, purged>> /\ known' = [e \in Devices |-> known'[e]]
  BY <1>1, <1>7
<1>13. Told' \in {Told, Told \cup {new}}
  BY <1>3
<1> DEFINE stage == "tellAddress"
<1>14. LoginMoved(k, stage) /\ stage # "done"
  BY <1>5
<1> HIDE DEF stage
<1>15. QED
  BY <1>3, <1>6, <1>9, <1>11, <1>12, <1>13, <1>14, AlertsStep

LEMMA AlertsTell ==
    ASSUME AlertsInv, NEW k \in Logins, Tell(k)
    PROVE  AlertsInv'
<1> DEFINE d    == login[k].device
           a    == login[k].address
           what == IF login[k].at = "tellDevice" THEN "device" ELSE "address"
           new  == NewAlert(what, <<d, a>>, k, login[k].tries)
<1>1. /\ login[k].at \in Telling /\ UNCHANGED <<time, known, request, purged, cut>>
      /\ Reaches(k, "done") /\ CreateAlert(what, <<d, a>>, k, login[k].tries)
  BY DEF Tell, Telling
<1>2. AlertsTypes /\ DeviceOnce /\ time \in Nat /\ known = [e \in Devices |-> known[e]]
  BY DEF AlertsInv, AlertsTypes
<1>3. login[k].at # "none"
  BY <1>1 DEF Telling
<1>4. what \in {"device", "address"} /\ (what = "device" <=> login[k].at = "tellDevice")
  OBVIOUS
<1> HIDE DEF what
<1>5. /\ IsAlert(new) /\ new.kind = what /\ new.about = <<d, a>> /\ Told' = Told \cup {new}
      /\ cut \subseteq cut'
  BY <1>1, <1>2, NewAlertIs, CreateAlertIs
<1> HIDE DEF new
<1>6. LoginMoved(k, "done")
  BY <1>1, <1>2, <1>3, ReachesIs
<1>7. ToldIn(Told', cut', login', d, a)
  BY <1>4, <1>5 DEF ToldIn
<1>8. \A j \in Logins : login[j].at \in Telling =>
         ToldIn(Told', cut', login', login[j].device, login[j].address)
  BY <1>6, <1>7, OthersTelling
<1>9. DeviceOnce'
  <2>1. CASE what = "address"
    <3>1. new.kind # "device"
      BY <1>5, <2>1
    <3>2. QED
      BY <1>1, <1>5, <1>6, <3>1, OnceKept
  <2>2. CASE what = "device"
    <3>1. login[k].at = "tellDevice" /\ d \in Devices
      BY <1>2, <1>4, <2>2 DEF AlertsTypes, IsLogin
    <3>2. Announcing(k, d)
      BY <3>1 DEF Announcing
    <3>3. \A e : Announced(new, e) <=> e = d
      BY <1>5, <2>2 DEF Announced
    <3>4. \A j \in Logins, e \in Devices : Announcing(j, e)' <=> Announcing(j, e) /\ j # k
      BY <1>6 DEF Announcing, LoginMoved
    <3>5. SUFFICES ASSUME NEW e \in Devices
                   PROVE  /\ known[e] = "noRow" =>
                               (\A x \in Told' : ~Announced(x, e)) /\ \A j \in Logins : ~Announcing(j, e)'
                          /\ \A j \in Logins : Announcing(j, e)' =>
                               /\ \A x \in Told' : ~Announced(x, e)
                               /\ \A i \in Logins : Announcing(i, e)' => i = j
                          /\ \A x, y \in Told' : Announced(x, e) /\ Announced(y, e) => x = y
      BY <1>1 DEF DeviceOnce, Announced
    <3>6. /\ known[e] = "noRow" =>
               (\A x \in Told : ~Announced(x, e)) /\ \A j \in Logins : ~Announcing(j, e)
          /\ \A j \in Logins : Announcing(j, e) =>
               /\ \A x \in Told : ~Announced(x, e)
               /\ \A i \in Logins : Announcing(i, e) => i = j
          /\ \A x, y \in Told : Announced(x, e) /\ Announced(y, e) => x = y
      BY <1>2 DEF DeviceOnce
    <3>7. CASE e = d
      <4>1. known[e] # "noRow" /\ (\A x \in Told : ~Announced(x, e))
              /\ \A j \in Logins : ~Announcing(j, e)'
        BY <3>2, <3>4, <3>6, <3>7
      <4>2. QED
        BY <1>5, <4>1
    <3>8. CASE e # d
      BY <1>5, <3>3, <3>4, <3>6, <3>8
    <3>9. QED
      BY <3>7, <3>8
  <2>3. QED
    BY <1>4, <2>1, <2>2
<1>10. ToldIn(Told', cut', login', login'[k].device, login'[k].address)
  BY <1>3, <1>6, <1>7 DEF LoginMoved
<1>11. known' = [e \in Devices |-> known'[e]] /\ \A e \in Devices : known'[e] = known[e]
  BY <1>1, <1>2
<1>12. Told' \in {Told, Told \cup {new}}
  BY <1>5
<1>13. /\ UNCHANGED <<time, request, purged>> /\ known' = [e \in Devices |-> known'[e]]
       /\ \A e \in Devices : known'[e] = known[e] \/ ToldIn(Told', cut', login', e, known'[e])
       /\ IsAlert(new) /\ cut \subseteq cut'
  BY <1>1, <1>5, <1>11
<1> DEFINE stage == "done"
<1>14. LoginMoved(k, stage)
  BY <1>6
<1> HIDE DEF stage
<1>15. stage = "done" => ToldIn(Told', cut', login', login'[k].device, login'[k].address)
  BY <1>10
<1>16. QED
  BY <1>8, <1>9, <1>12, <1>13, <1>14, <1>15, AlertsStep

-----------------------------------------------------------------------------
(* The reset requests, and what may happen at any time. *)

LEMMA RecentEventsAre ==
    /\ IsFiniteSet(RecentEvents) /\ Cardinality(RecentEvents) \in Nat
    /\ Cardinality(RecentEvents) >= Threshold =>
         \E q \in Requests : request[q].logged + EventWindow >= time
<1>1. IsFiniteSet(RecentEvents)
  BY AlertsAssumption, FS_Subset DEF RecentEvents
<1>2. Cardinality(RecentEvents) \in Nat /\ (Cardinality(RecentEvents) = 0 <=> RecentEvents = {})
  BY <1>1, FS_CardinalityType, FS_EmptySet
<1>3. Cardinality(RecentEvents) >= Threshold => RecentEvents # {}
  BY <1>2, AlertsAssumption
<1>4. QED
  BY <1>1, <1>2, <1>3 DEF RecentEvents

\* A step of nobody that logs in.
LEMMA AlertsElsewhere ==
    ASSUME AlertsInv, UNCHANGED <<login, known, cut>>, AlertsTypes', EventsKnown',
           \A x \in Told : \E y \in Told' : y.kind = x.kind /\ y.about = x.about,
           \A d \in Devices, x \in Told' : Announced(x, d) => \E z \in Told : Announced(z, d),
           \A d \in Devices, x, y \in Told' : Announced(x, d) /\ Announced(y, d) => x = y
    PROVE  AlertsInv'
<1>1. PlacesTold /\ DeviceOnce
  BY DEF AlertsInv
<1>2. \A j \in Logins : login[j].at \in Telling =>
         ToldIn(Told', cut', login', login[j].device, login[j].address)
  BY DEF ToldIn
<1>3. \A d, a : ToldIn(Told, cut, login, d, a) => ToldIn(Told', cut', login', d, a)
  BY <1>2, ToldStays
<1>4. PlacesTold'
  <2>1. \A d \in Devices : known'[d] # "noRow" => ToldIn(Told', cut', login', d, known'[d])
    BY <1>1, <1>3 DEF PlacesTold
  <2>2. \A k \in Logins : login'[k].at = "done" =>
           ToldIn(Told', cut', login', login'[k].device, login'[k].address)
    BY <1>1, <1>3 DEF PlacesTold
  <2>3. QED
    BY <2>1, <2>2 DEF PlacesTold, ToldIn, Telling
<1>5. DeviceOnce'
  <2>1. \A k, d : Announcing(k, d)' <=> Announcing(k, d)
    BY DEF Announcing
  <2>2. SUFFICES ASSUME NEW d \in Devices
                 PROVE  /\ known[d] = "noRow" =>
                             (\A x \in Told' : ~Announced(x, d)) /\ \A j \in Logins : ~Announcing(j, d)
                        /\ \A j \in Logins : Announcing(j, d) =>
                             /\ \A x \in Told' : ~Announced(x, d)
                             /\ \A i \in Logins : Announcing(i, d) => i = j
                        /\ \A x, y \in Told' : Announced(x, d) /\ Announced(y, d) => x = y
    BY <2>1 DEF DeviceOnce, Announced
  <2>3. /\ known[d] = "noRow" =>
             (\A x \in Told : ~Announced(x, d)) /\ \A j \in Logins : ~Announcing(j, d)
        /\ \A j \in Logins : Announcing(j, d) =>
             /\ \A x \in Told : ~Announced(x, d)
             /\ \A i \in Logins : Announcing(i, d) => i = j
    BY <1>1 DEF DeviceOnce
  <2>4. QED
    BY <2>3
<1>6. QED
  BY <1>4, <1>5 DEF AlertsInv

\* The user is told no less of the same things, and there is at most a new
\* alert that is not about a device.
LEMMA AlertsElsewhereTold ==
    ASSUME AlertsInv, UNCHANGED <<login, known, cut>>, AlertsTypes', EventsKnown',
           NEW new, Told' \in {Told, Told \cup {new}}, new.kind # "device"
    PROVE  AlertsInv'
<1>1. DeviceOnce
  BY DEF AlertsInv
<1>2. \A d \in Devices, x \in Told' : Announced(x, d) => x \in Told
  BY DEF Announced
<1>3. \A d \in Devices, x, y \in Told : Announced(x, d) /\ Announced(y, d) => x = y
  BY <1>1 DEF DeviceOnce
<1>4. \A d \in Devices, x, y \in Told' : Announced(x, d) /\ Announced(y, d) => x = y
  BY <1>2, <1>3
<1>5. \A x \in Told : \E y \in Told' : y.kind = x.kind /\ y.about = x.about
  OBVIOUS
<1>6. \A d \in Devices, x \in Told' : Announced(x, d) => \E z \in Told : Announced(z, d)
  BY <1>2
<1>7. QED
  BY <1>4, <1>5, <1>6, AlertsElsewhere

\* What is left to show of a reset request's step.
LEMMA RequestMoves ==
    ASSUME AlertsInv, UNCHANGED <<time, login, known, cut, purged>>,
           request' \in [Requests -> [at : {"none", "count", "alert", "done"}, logged : Nat]],
           \A p \in Requests : request'[p].logged <= time,
           NEW new, Told' \in {Told, Told \cup {new}}, IsAlert(new), new.kind # "device",
           EventsKnown'
    PROVE  AlertsInv'
<1>1. AlertsTypes
  BY DEF AlertsInv
<1>2. \A y \in Told' : IsAlert(y)
  BY <1>1 DEF AlertsTypes
<1>3. AlertsTypes'
  BY <1>1, <1>2 DEF AlertsTypes, IsLogin, IsAlert
<1>4. QED
  BY <1>3, AlertsElsewhereTold

LEMMA AlertsLogEvent ==
    ASSUME AlertsInv, NEW q \in Requests, LogEvent(q)
    PROVE  AlertsInv'
<1> DEFINE new == NewAlert("events", <<>>, q, 0)
           x   == [at |-> "count", logged |-> time]
<1>1. request' = [request EXCEPT ![q] = x] /\ UNCHANGED <<time, login, known, alerts, purged, cut>>
  BY DEF LogEvent
<1>2. /\ time \in Nat /\ \A p \in Requests : request[p].logged <= time
      /\ request \in [Requests -> [at : {"none", "count", "alert", "done"}, logged : Nat]]
  BY DEF AlertsInv, AlertsTypes
<1>3. x \in [at : {"none", "count", "alert", "done"}, logged : Nat] /\ x.logged <= time /\ x.at = "count"
  BY <1>2
<1>4. IsAlert(new) /\ new.kind # "device" /\ Told' \in {Told, Told \cup {new}}
  BY <1>1, <1>2, NewAlertIs DEF Told
<1> HIDE DEF x, new
<1>5. /\ request'[q].at = "count" /\ \A p \in Requests : request'[p].logged <= time
      /\ request' \in [Requests -> [at : {"none", "count", "alert", "done"}, logged : Nat]]
  BY <1>1, <1>2, <1>3
<1>6. EventsKnown'
  BY <1>5 DEF EventsKnown
<1>7. UNCHANGED <<time, login, known, cut, purged>>
  BY <1>1
<1>8. QED
  BY <1>4, <1>5, <1>6, <1>7, RequestMoves

LEMMA AlertsCountEvents ==
    ASSUME AlertsInv, NEW q \in Requests, CountEvents(q)
    PROVE  AlertsInv'
<1> DEFINE new  == NewAlert("events", <<>>, q, 0)
           next == IF Repeated THEN "alert" ELSE "done"
           x    == [request[q] EXCEPT !.at = next]
<1>1. request' = [request EXCEPT ![q] = x] /\ UNCHANGED <<time, login, known, alerts, purged, cut>>
  BY DEF CountEvents
<1>2. /\ time \in Nat /\ \A p \in Requests : request[p].logged <= time
      /\ request \in [Requests -> [at : {"none", "count", "alert", "done"}, logged : Nat]]
  BY DEF AlertsInv, AlertsTypes
<1>3. next \in {"alert", "done"} /\ (Repeated => next = "alert")
  OBVIOUS
<1> HIDE DEF next
<1>4. /\ x \in [at : {"none", "count", "alert", "done"}, logged : Nat] /\ x.at = next
      /\ x.logged = request[q].logged
  BY <1>2, <1>3
<1>5. IsAlert(new) /\ new.kind # "device" /\ Told' \in {Told, Told \cup {new}}
  BY <1>1, <1>2, NewAlertIs DEF Told
<1> HIDE DEF x, new
<1>6. /\ request'[q].at = next /\ \A p \in Requests : request'[p].logged = request[p].logged
      /\ request' \in [Requests -> [at : {"none", "count", "alert", "done"}, logged : Nat]]
  BY <1>1, <1>2, <1>4
<1>7. RecentEvents' = RecentEvents
  BY <1>1, <1>6 DEF RecentEvents
<1>8. EventsKnown'
  <2>1. CASE Repeated
    BY <1>3, <1>6, <2>1 DEF EventsKnown
  <2>2. CASE ~Repeated
    <3>1. ~(Cardinality(RecentEvents) >= Threshold)
      BY <2>2 DEF Repeated
    <3>2. QED
      BY <1>7, <3>1 DEF EventsKnown
  <2>3. QED
    BY <2>1, <2>2
<1>9. UNCHANGED <<time, login, known, cut, purged>> /\ \A p \in Requests : request'[p].logged <= time
  BY <1>1, <1>2, <1>6
<1>10. QED
  BY <1>5, <1>6, <1>8, <1>9, RequestMoves

LEMMA AlertsAlertRepeated ==
    ASSUME AlertsInv, NEW q \in Requests, AlertRepeated(q)
    PROVE  AlertsInv'
<1> DEFINE new == NewAlert("events", <<>>, q, 0)
           x   == [request[q] EXCEPT !.at = "done"]
<1>1. /\ request' = [request EXCEPT ![q] = x] /\ CreateAlert("events", <<>>, q, 0)
      /\ UNCHANGED <<time, login, known, purged, cut>>
  BY DEF AlertRepeated
<1>2. /\ time \in Nat /\ \A p \in Requests : request[p].logged <= time
      /\ request \in [Requests -> [at : {"none", "count", "alert", "done"}, logged : Nat]]
  BY DEF AlertsInv, AlertsTypes
<1>3. /\ x \in [at : {"none", "count", "alert", "done"}, logged : Nat]
      /\ x.logged = request[q].logged
  BY <1>2
<1>4. IsAlert(new) /\ new.kind = "events" /\ new.at = time /\ Told' = Told \cup {new}
  BY <1>1, <1>2, NewAlertIs, CreateAlertIs
<1> HIDE DEF x, new
<1>5. /\ \A p \in Requests : request'[p].logged = request[p].logged
      /\ request' \in [Requests -> [at : {"none", "count", "alert", "done"}, logged : Nat]]
  BY <1>1, <1>2, <1>3
<1>6. EventsKnown'
  BY <1>2, <1>4, <1>5 DEF EventsKnown
<1>7. new.kind # "device" /\ Told' \in {Told, Told \cup {new}} /\ IsAlert(new)
  BY <1>4
<1>8. UNCHANGED <<time, login, known, cut, purged>> /\ \A p \in Requests : request'[p].logged <= time
  BY <1>1, <1>2, <1>5
<1>9. QED
  BY <1>5, <1>6, <1>7, <1>8, RequestMoves

LEMMA AlertsResolve ==
    ASSUME AlertsInv, NEW alert \in alerts, ResolveAlert(alert)
    PROVE  AlertsInv'
<1> DEFINE r == [alert EXCEPT !.resolved = TRUE]
<1>1. /\ ~alert.resolved /\ alerts' = (alerts \ {alert}) \cup {r}
      /\ UNCHANGED <<time, login, known, request, purged, cut>>
  BY DEF ResolveAlert
<1>2. AlertsTypes /\ DeviceOnce /\ EventsKnown /\ (\A x \in Told : IsAlert(x)) /\ \A x \in purged : x.resolved
  BY DEF AlertsInv, AlertsTypes
<1>3. alert \in Told /\ alert \notin purged
  BY <1>1, <1>2 DEF Told
<1>4. IsAlert(r) /\ r.kind = alert.kind /\ r.about = alert.about /\ r.at = alert.at
  BY <1>2, <1>3 DEF IsAlert
<1> HIDE DEF r
<1>5. Told' = (Told \ {alert}) \cup {r}
  BY <1>1, <1>3 DEF Told
<1>6. \A x \in Told : \E y \in Told' : y.kind = x.kind /\ y.about = x.about /\ y.at = x.at
  BY <1>4, <1>5
<1>7. AlertsTypes'
  <2>1. \A x \in Told' : IsAlert(x)
    BY <1>2, <1>4, <1>5
  <2>2. QED
    BY <1>1, <1>2, <2>1 DEF AlertsTypes, IsLogin, IsAlert
<1>8. EventsKnown'
  <2>1. RecentEvents' = RecentEvents
    BY <1>1 DEF RecentEvents
  <2>2. QED
    BY <1>1, <1>2, <1>6, <2>1 DEF EventsKnown
<1>9. \A d : Announced(r, d) <=> Announced(alert, d)
  BY <1>4 DEF Announced
<1>10. \A d \in Devices, x, y \in Told : Announced(x, d) /\ Announced(y, d) => x = y
  BY <1>2 DEF DeviceOnce
<1>11. \A d \in Devices, x \in Told' : Announced(x, d) => \E z \in Told : Announced(z, d)
  BY <1>3, <1>5, <1>9
<1>12. \A d \in Devices, x, y \in Told' : Announced(x, d) /\ Announced(y, d) => x = y
  BY <1>3, <1>5, <1>9, <1>10
<1>13. \A x \in Told : \E y \in Told' : y.kind = x.kind /\ y.about = x.about
  BY <1>6
<1>14. QED
  BY <1>1, <1>7, <1>8, <1>11, <1>12, <1>13, AlertsElsewhere

LEMMA AlertsPurge ==
    ASSUME AlertsInv, PurgeAlerts
    PROVE  AlertsInv'
<1>1. /\ alerts' = alerts \ Expired /\ purged' = purged \cup {alert \in Expired : alert.resolved}
      /\ UNCHANGED <<time, login, known, request, cut>>
  BY DEF PurgeAlerts
<1>2. AlertsTypes /\ EventsKnown /\ time \in Nat
  BY DEF AlertsInv, AlertsTypes
<1>3. (\A alert \in Expired : alert.resolved) /\ Expired \subseteq alerts
  BY DEF Expired
<1>4. Told' = Told /\ \A x \in purged' : x.resolved
  BY <1>1, <1>2, <1>3 DEF Told, AlertsTypes
<1>5. AlertsTypes'
  BY <1>1, <1>2, <1>4 DEF AlertsTypes, IsLogin, IsAlert
<1>6. EventsKnown'
  <2>1. RecentEvents' = RecentEvents
    BY <1>1 DEF RecentEvents
  <2>2. QED
    BY <1>1, <1>2, <1>4, <2>1 DEF EventsKnown
<1> DEFINE new == NewAlert("events", <<>>, 0, 0)
<1>7. new.kind # "device" /\ Told' \in {Told, Told \cup {new}}
  BY <1>2, <1>4, NewAlertIs
<1> HIDE DEF new
<1>8. QED
  BY <1>1, <1>5, <1>6, <1>7, AlertsElsewhereTold

LEMMA AlertsPasses ==
    ASSUME AlertsInv, Passes
    PROVE  AlertsInv'
<1>1. time' = time + 1 /\ UNCHANGED <<login, known, request, alerts, purged, cut>>
  BY DEF Passes
<1>2. /\ AlertsTypes /\ EventsKnown /\ time \in Nat
      /\ request \in [Requests -> [at : {"none", "count", "alert", "done"}, logged : Nat]]
  BY DEF AlertsInv, AlertsTypes
<1>3. Told' = Told
  BY <1>1 DEF Told
<1>4. AlertsTypes'
  <2>1. \A q \in Requests : request[q].logged \in Nat /\ request[q].logged <= time
    BY <1>2 DEF AlertsTypes
  <2>2. \A q \in Requests : request'[q].logged <= time'
    BY <1>1, <1>2, <2>1
  <2>3. time' \in Nat \ {0}
    BY <1>1, <1>2
  <2>4. QED
    BY <1>1, <1>2, <1>3, <2>2, <2>3 DEF AlertsTypes, IsLogin, IsAlert
<1>5. EventsKnown'
  <2>1. \A q \in Requests : request[q].logged + EventWindow >= time' => request[q].logged + EventWindow >= time
    BY <1>1, <1>2, AlertsAssumption
  <2>2. RecentEvents' \subseteq RecentEvents
    BY <1>1, <2>1 DEF RecentEvents
  <2>3. IsFiniteSet(RecentEvents) /\ Cardinality(RecentEvents) \in Nat
    BY RecentEventsAre
  <2>4. Cardinality(RecentEvents') <= Cardinality(RecentEvents) /\ Cardinality(RecentEvents') \in Nat
    BY <2>2, <2>3, FS_Subset, FS_CardinalityType
  <2>5. Cardinality(RecentEvents') >= Threshold => Cardinality(RecentEvents) >= Threshold
    BY <2>3, <2>4, AlertsAssumption
  <2>6. QED
    BY <1>1, <1>2, <1>3, <2>5 DEF EventsKnown
<1> DEFINE new == NewAlert("events", <<>>, 0, 0)
<1>6. new.kind # "device" /\ Told' \in {Told, Told \cup {new}}
  BY <1>2, <1>3, NewAlertIs
<1> HIDE DEF new
<1>7. QED
  BY <1>1, <1>4, <1>5, <1>6, AlertsElsewhereTold

-----------------------------------------------------------------------------
(* The theorems. *)

LEMMA AlertsInitially == AlertsInit => AlertsInv
<1> SUFFICES ASSUME AlertsInit
             PROVE  AlertsInv
  OBVIOUS
<1>1. /\ time = 1 /\ known = [d \in Devices |-> "noRow"]
      /\ request = [q \in Requests |-> [at |-> "none", logged |-> 0]]
      /\ alerts = {} /\ purged = {} /\ cut = {}
  BY DEF AlertsInit
<1>2. login = [k \in Logins |-> login[k]] /\ \A k \in Logins : IsLogin(login[k]) /\ login[k].at = "none"
  BY DEF AlertsInit, IsLogin
<1>3. AlertsTypes
  BY <1>1, <1>2 DEF AlertsTypes, Told
<1>4. PlacesTold
  BY <1>1, <1>2 DEF PlacesTold
<1>5. DeviceOnce
  BY <1>1, <1>2 DEF DeviceOnce, Announcing, Told
<1>6. EventsKnown
  <2>1. RecentEvents = {}
    BY <1>1 DEF RecentEvents
  <2>2. Cardinality(RecentEvents) = 0
    BY <2>1, FS_EmptySet
  <2>3. ~(Cardinality(RecentEvents) >= Threshold)
    BY <2>2, AlertsAssumption
  <2>4. QED
    BY <2>3 DEF EventsKnown
<1>7. QED
  BY <1>3, <1>4, <1>5, <1>6 DEF AlertsInv

LEMMA AlertsNextKeeps == AlertsInv /\ [AlertsNext]_alertVars => AlertsInv'
<1> SUFFICES ASSUME AlertsInv, [AlertsNext]_alertVars
             PROVE  AlertsInv'
  OBVIOUS
<1>1. CASE LoginStep
  BY <1>1, AlertsOpen, AlertsPublish, AlertsClaim, AlertsCountSessions, AlertsFindDevice,
     AlertsSaveAddress, AlertsTell, AlertsFail DEF LoginStep, Examine
<1>2. CASE RequestStep
  BY <1>2, AlertsLogEvent, AlertsCountEvents, AlertsAlertRepeated DEF RequestStep
<1>3. CASE AnyTime
  BY <1>3, AlertsResolve, AlertsPurge, AlertsPasses DEF AnyTime
<1>4. CASE UNCHANGED alertVars
  <2>1. UNCHANGED alertVars /\ AlertsTypes /\ PlacesTold /\ DeviceOnce /\ EventsKnown
    BY <1>4 DEF AlertsInv
  <2>2. AlertsTypes'
    BY <2>1 DEF alertVars, AlertsTypes, IsLogin, IsAlert, Told
  <2>3. PlacesTold'
    <3>1. Told' = Told /\ UNCHANGED <<login, known, cut>>
      BY <2>1 DEF alertVars, Told
    <3>2. QED
      BY <2>1, <3>1 DEF PlacesTold, ToldIn
  <2>4. DeviceOnce'
    BY <2>1 DEF alertVars, DeviceOnce, Announced, Announcing, Told
  <2>5. EventsKnown'
    <3>1. Told' = Told /\ UNCHANGED <<request, time>>
      BY <2>1 DEF alertVars, Told
    <3>2. RecentEvents' = RecentEvents
      BY <3>1 DEF RecentEvents
    <3>3. QED
      BY <2>1, <3>1, <3>2 DEF EventsKnown
  <2>6. QED
    BY <2>2, <2>3, <2>4, <2>5 DEF AlertsInv
<1>5. QED
  BY <1>1, <1>2, <1>3, <1>4 DEF AlertsNext

\* The invariant of the alerts.
THEOREM AlertsInductive == AlertsSpec => []AlertsInv
<1>1. QED
  BY AlertsInitially, AlertsNextKeeps, PTL DEF AlertsSpec

\* However the examinations interleave, are retried or die, whoever logged in
\* from a new place was told of it, unless the run that stored the place died
\* first; and no device is announced twice.
THEOREM NewPlacesAreTold == AlertsSpec => []NewDevicesAreTold
<1>1. AlertsInv => NewDevicesAreTold
  <2> SUFFICES ASSUME AlertsInv
               PROVE  NewDevicesAreTold
    OBVIOUS
  <2>1. ASSUME NEW k \in Logins, login[k].at = "done"
        PROVE  \/ \E alert \in Told : /\ alert.kind \in {"device", "address"}
                                      /\ alert.about = <<login[k].device, login[k].address>>
               \/ <<login[k].device, login[k].address>> \in cut
               \/ \E j \in Logins : /\ login[j].at \in {"tellDevice", "tellAddress"}
                                    /\ <<login[j].device, login[j].address>>
                                         = <<login[k].device, login[k].address>>
    <3>1. ToldIn(Told, cut, login, login[k].device, login[k].address)
      BY <2>1 DEF AlertsInv, PlacesTold
    <3>2. QED
      BY <3>1 DEF ToldIn, Telling
  <2>2. ASSUME NEW d \in Devices
        PROVE  Cardinality({alert \in Told : alert.kind = "device" /\ alert.about[1] = d}) <= 1
    <3> DEFINE S == {alert \in Told : alert.kind = "device" /\ alert.about[1] = d}
    <3>1. \A x, y \in S : x = y
      BY DEF AlertsInv, DeviceOnce, Announced
    <3> HIDE DEF S
    <3>2. CASE S = {}
      <4>1. Cardinality(S) = 0
        BY <3>2, FS_EmptySet
      <4>2. QED
        BY <4>1 DEF S
    <3>3. CASE S # {}
      <4>1. PICK x : x \in S
        BY <3>3
      <4>2. S = {x}
        BY <3>1, <4>1
      <4>3. Cardinality(S) = 1
        BY <4>2, FS_Singleton
      <4>4. QED
        BY <4>3 DEF S
    <3>4. QED
      BY <3>2, <3>3
  <2>3. QED
    BY <2>1, <2>2 DEF NewDevicesAreTold
<1>2. QED
  BY <1>1, AlertsInductive, PTL

\* However the reset requests overlap, enough of them within the window have
\* made an alert in it.
THEOREM RepeatedRequestsTold == AlertsSpec => []RepeatedRequestsAreTold
<1>1. AlertsInv => RepeatedRequestsAreTold
  <2> SUFFICES ASSUME AlertsInv, Cardinality(RecentEvents) >= Threshold,
                      \A q \in Requests : request[q].at \notin {"count", "alert"}
               PROVE  \E alert \in Told : alert.kind = "events" /\ alert.at + EventWindow >= time
    BY DEF RepeatedRequestsAreTold
  <2>1. PICK q \in Requests : request[q].logged + EventWindow >= time
    BY RecentEventsAre
  <2>2. PICK x \in Told : x.kind = "events" /\ \A p \in Requests : request[p].logged <= x.at
    BY DEF AlertsInv, EventsKnown
  <2>3. x.at \in Nat /\ request[q].logged \in Nat /\ time \in Nat
    BY <2>2 DEF AlertsInv, AlertsTypes, IsAlert
  <2>4. x.at + EventWindow >= time
    BY <2>1, <2>2, <2>3, AlertsAssumption
  <2>5. QED
    BY <2>2, <2>4
<1>2. QED
  BY <1>1, AlertsInductive, PTL
=============================================================================
