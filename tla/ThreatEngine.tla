----------------------------- MODULE ThreatEngine -----------------------------
(***************************************************************************)
(* What the server knows of one address (apps/security): its SuspiciousIP  *)
(* row (counters and a risk score), its BlockedIP row and its failed       *)
(* LoginAttempt rows; and the requests, logins first, that read and write  *)
(* them.  No transaction spans two statements and no row is locked, so a   *)
(* request is the sequence of its reads and writes.                        *)
(*                                                                         *)
(* An absent SuspiciousIP row is the row of zeros get_or_create would make.*)
(* Risk is a natural number; of 0.9 ^ minutes some tenths are left.  The    *)
(* account's own lock and the records per e-mail are module Account's.     *)
(***************************************************************************)
EXTENDS Naturals, FiniteSets

CONSTANTS
    Servers,       \* workers serving requests
    MaxVisits,     \* bound: requests begun in a behaviour
    MaxNow,        \* bound: the last value of the clock
    MaxFailures,   \* failures in the window that block (MAX_ATTEMPTS)
    ManyAttempts,  \* failures that block even after a login (MAX_FAILED_ATTEMPTS)
    Window,        \* WINDOW_MINUTES
    AttemptsBlock, \* LOCK_TIME
    BlockDuration, \* BLOCK_DURATION
    MaxDuration,   \* max_duration
    RateWindow,    \* RATE_WINDOW
    RateLimit,     \* RATE_LIMIT
    RiskLimit,     \* RISK_BLOCK_THRESHOLD
    SafeRisk,      \* risk under which the counters start again
    BaseRisk,      \* what a failure adds, and
    MaxRisk,       \* the most it adds
    Fades          \* bound: tenths of a score that may be left after some time

ASSUME ThreatAssumption ==
    /\ {MaxVisits, MaxNow, MaxFailures, ManyAttempts, Window, AttemptsBlock, BlockDuration,
        MaxDuration, RateWindow, RateLimit, RiskLimit, SafeRisk, BaseRisk, MaxRisk} \subseteq Nat
    /\ MaxFailures # 0 /\ Fades \subseteq 0..10 /\ IsFiniteSet(Servers)
    /\ Window <= AttemptsBlock /\ AttemptsBlock <= BlockDuration /\ BlockDuration <= MaxDuration

VARIABLES
    clock,         \* the time
    suspicious,    \* the SuspiciousIP row
    block,         \* the BlockedIP row; id = 0: there is none
    attempts,      \* the failed LoginAttempt rows, in order, and when each was made
    kind,          \* the address is in LOCAL_IPS, has a TrustedIP row, or neither
    visit,         \* what each worker is doing
    visits,        \* requests begun so far
    \* history, read by no action
    promised,      \* the furthest end announced since the last lift; 0: none
    lifted,        \* a block was lifted since the last failed attempt
    overlapped,    \* a request that had not seen a block cut it short
    failures,      \* failed logins counted since the counter last started again
    escalations,   \* blocks block_ip made
    overwritten    \* counters written over a value the writer had not read

engineVars == <<clock, suspicious, block, attempts, kind, visit, visits,
                promised, lifted, overlapped, failures, escalations, overwritten>>
engineFacts == <<promised, lifted, overlapped, failures, escalations, overwritten>>

SuspiciousIP ==
    [failed : Nat, risk : Nat, requests : Nat, blocks : Nat, last : Nat]

BlockedIP == [id : Nat, until : Nat]
NoBlock == [id |-> 0, until |-> 0]

\* is_expired.
IsExpired(b) == clock > b.until

LeastOf(a, b) == IF a <= b THEN a ELSE b
MostOf(a, b) == IF a >= b THEN a ELSE b

-----------------------------------------------------------------------------
(* What the engine does to the row it read. *)

\* decay_risk: the score fades with the time since last_attempt, and under
\* SafeRisk the counters start again.
Decayed(s) ==
    {[s EXCEPT !.risk = d,
               !.failed = IF d < SafeRisk THEN 0 ELSE s.failed,
               !.requests = IF d < SafeRisk THEN 0 ELSE s.requests] :
        d \in IF clock > s.last THEN {(f * s.risk) \div 10 : f \in Fades} ELSE {s.risk}}

\* check_rate_limit, up to the blocking.
RateChecked(s) ==
    LET n == (IF clock - s.last > RateWindow THEN 0 ELSE s.requests) + 1
    IN  [s EXCEPT !.requests = n, !.last = clock,
                  !.risk = s.risk + IF n > RateLimit THEN BaseRisk ELSE 0]

(* Mutant of FailedLogin: a failure counts twice. *)
Mut_FailedLogin_CountTwice(s) ==
    {[d EXCEPT !.failed = d.failed + 2, !.last = clock] : d \in Decayed(s)}

\* record_failed_login.
FailedLogin(s) ==
    {[d EXCEPT !.failed = d.failed + 1, !.last = clock,
               !.risk = d.risk + LeastOf(BaseRisk + d.failed + 1, MaxRisk)] : d \in Decayed(s)}

\* record_successful_login: risk_score *= 0.3.
SuccessfulLogin(s) ==
    {[d EXCEPT !.failed = 0, !.requests = 0, !.last = clock, !.risk = (3 * d.risk) \div 10] :
        d \in Decayed(s)}

\* block_ip: the k-th block of the address lasts k times as long.
Duration(s) == LeastOf(BlockDuration * MostOf(s.blocks, 1), MaxDuration)

\* Failed attempts of the last WINDOW_MINUTES.
Recent == Cardinality({a \in attempts : a.at + Window >= clock})

-----------------------------------------------------------------------------
(* Requests. *)

NoCopy == [failed |-> 0, risk |-> 0, requests |-> 0, blocks |-> 0, last |-> 0]
Vacant ==
    [at |-> "idle", pk |-> 0, copy |-> NoCopy, after |-> "idle",
     unseen |-> FALSE, dirty |-> {}]

Serving(r, label) == visit[r].at = label

\* r goes on to a label with nothing in its hands.
GoesTo(r, label) ==
    IF label = "idle" THEN Vacant
    ELSE [Vacant EXCEPT !.at = label, !.unseen = visit[r].unseen]

\* r goes on with the SuspiciousIP row it just read, and changed in memory.
Holding(r, copy, label, after) ==
    [GoesTo(r, label) EXCEPT !.copy = copy, !.after = after]

\* r is next; the others have not seen the block row, or the counters, that
\* changed.
Steps(r, next, blockChanged, counters) ==
    visit' = [q \in Servers |->
              IF q = r THEN next
              ELSE IF visit[q].at = "idle" THEN visit[q]
              ELSE [visit[q] EXCEPT !.unseen = @ \/ blockChanged,
                                  !.dirty = IF visit[q].copy = NoCopy THEN {} ELSE @ \cup counters]]

SameAddress == UNCHANGED <<clock, kind>>

(* Mutant of IsBlocked: the test for expiry is inverted. *)
Mut_IsBlocked_Inverted(b) ==
    CASE b.id = 0                   -> "free"
      [] b.id # 0 /\ ~IsExpired(b)  -> "discard"
      [] OTHER                      -> "blocked"

\* is_blocked: an expired row is deleted, by its primary key, in a statement
\* of its own.
IsBlocked(b) ==
    CASE b.id = 0                  -> "free"
      [] b.id # 0 /\ IsExpired(b)  -> "discard"
      [] OTHER                     -> "blocked"

\* A gate reads the block row, before what is next.
PassGate(r, next, exempt) ==
    LET found == IsBlocked(block) IN
        Steps(r,
              IF found = "discard"
              THEN [Vacant EXCEPT !.at = "discard", !.pk = block.id, !.after = next]
              ELSE IF (found = "blocked" /\ ~exempt) \/ next = "idle" THEN Vacant
              ELSE [Vacant EXCEPT !.at = next],
              FALSE, {})

\* BlockIPMiddleware: every request but those of a local address passes a
\* gate; then the logins go on.
Arrive(r) ==
    /\ Serving(r, "idle") /\ visits < MaxVisits
    /\ \/ kind = "local" /\ Steps(r, [Vacant EXCEPT !.at = "login"], FALSE, {})
       \/ kind # "local" /\ \E next \in {"login", "idle"} : PassGate(r, next, FALSE)
    /\ visits' = visits + 1
    /\ SameAddress /\ UNCHANGED <<suspicious, block, attempts>> /\ UNCHANGED engineFacts

\* login_user asks again; a trusted address goes on.
LoginGate(r) ==
    /\ Serving(r, "login")
    /\ PassGate(r, "rate", kind = "trusted")
    /\ SameAddress /\ UNCHANGED <<visits, suspicious, block, attempts>> /\ UNCHANGED engineFacts

\* blocked.delete(): whatever the row says by now.
Discard(r) ==
    LET gone    == block.id = visit[r].pk
        renewed == gone /\ ~IsExpired(block)
        next    == visit[r].after
    IN  /\ Serving(r, "discard")
        /\ block' = IF gone THEN NoBlock ELSE block
        /\ Steps(r, GoesTo(r, next), gone, {})
        /\ overlapped' = (overlapped \/ (renewed /\ visit[r].unseen))
        /\ lifted' = (lifted \/ (renewed /\ visit[r].unseen))
        /\ SameAddress
        /\ UNCHANGED <<visits, suspicious, attempts, promised, failures, escalations, overwritten>>

-----------------------------------------------------------------------------
(* Blocking. *)

\* A primary key no request remembers.
NewKey ==
    CHOOSE i \in 1..(Cardinality(Servers) + 1) : \A r \in Servers : visit[r].pk # i

\* update_or_create locks the row, or meets the unique address and updates.
UpdateOrCreate(r, until, next) ==
    /\ block' = [id |-> IF block.id = 0 THEN NewKey ELSE block.id, until |-> until]
    /\ Steps(r, next, TRUE, {})
    /\ promised' = MostOf(promised, until)
    /\ overlapped' = (overlapped \/ (until < promised /\ visit[r].unseen))
    /\ SameAddress
    /\ UNCHANGED <<visits, suspicious, attempts, lifted, failures, escalations, overwritten>>

\* block_ip saves the count, then puts the block.
CountBlock(r) ==
    LET copy == [visit[r].copy EXCEPT !.blocks = @ + 1] IN
    /\ Serving(r, "countBlock")
    /\ suspicious' = [suspicious EXCEPT !.blocks = copy.blocks]
    /\ Steps(r, Holding(r, copy, "block", visit[r].after), FALSE, {"blocks"})
    /\ escalations' = escalations + 1
    /\ overwritten' = overwritten \cup (visit[r].dirty \cap {"blocks"})
    /\ SameAddress
    /\ UNCHANGED <<visits, block, attempts, promised, lifted, overlapped, failures>>

BlockIp(r) ==
    /\ Serving(r, "block")
    /\ UpdateOrCreate(r, clock + Duration(visit[r].copy),
                      IF visit[r].after = "idle" THEN Vacant
                      ELSE Holding(r, visit[r].copy, visit[r].after, "idle"))

\* record_login_attempt, the blocking.
BlockAttempts(r) ==
    /\ Serving(r, "blockAttempts")
    /\ UpdateOrCreate(r, clock + AttemptsBlock, GoesTo(r, "failed"))

BlockAttack(r) ==
    /\ Serving(r, "blockAttack")
    /\ UpdateOrCreate(r, clock + BlockDuration, Vacant)

-----------------------------------------------------------------------------
(* A login. *)

\* check_rate_limit reads the row (get_or_create).
CheckRate(r) ==
    LET copy == RateChecked(suspicious) IN
    /\ Serving(r, "rate")
    /\ Steps(r, IF copy.requests > RateLimit /\ copy.risk >= RiskLimit
                THEN Holding(r, copy, "countBlock", "saveRate")
                ELSE Holding(r, copy, "saveRate", "idle"), FALSE, {})
    /\ SameAddress /\ UNCHANGED <<visits, suspicious, block, attempts>> /\ UNCHANGED engineFacts

\* It saves its columns; over the limit the login is refused.
SaveRate(r) ==
    LET copy == visit[r].copy IN
    /\ Serving(r, "saveRate")
    /\ suspicious' = [suspicious EXCEPT !.requests = copy.requests, !.risk = copy.risk,
                                        !.last = clock]
    /\ Steps(r, GoesTo(r, IF copy.requests <= RateLimit THEN "password" ELSE "idle"), FALSE, {})
    /\ SameAddress /\ UNCHANGED <<visits, block, attempts>> /\ UNCHANGED engineFacts

\* A locked account, an unverified address or a pending second factor ends it.
Refuse(r) ==
    /\ Serving(r, "password")
    /\ Steps(r, Vacant, FALSE, {})
    /\ SameAddress /\ UNCHANGED <<visits, suspicious, block, attempts>> /\ UNCHANGED engineFacts

\* A wrong password: record_login_attempt inserts a row, then counts.
WrongPassword(r) ==
    /\ Serving(r, "password")
    /\ attempts' = attempts \cup {[n |-> Cardinality(attempts) + 1, at |-> clock]}
    /\ lifted' = FALSE
    /\ Steps(r, GoesTo(r, "count"), FALSE, {})
    /\ SameAddress
    /\ UNCHANGED <<visits, suspicious, block, promised, overlapped, failures, escalations, overwritten>>

(* Mutant of CountAttempts: blocks from one failure too many. *)
Mut_CountAttempts_OffByOne(r) ==
    /\ Serving(r, "count")
    /\ Steps(r, GoesTo(r, IF Recent > MaxFailures THEN "blockAttempts" ELSE "failed"),
             FALSE, {})
    /\ SameAddress /\ UNCHANGED <<visits, suspicious, block, attempts>> /\ UNCHANGED engineFacts

CountAttempts(r) ==
    /\ Serving(r, "count")
    /\ Steps(r, GoesTo(r, IF Recent >= MaxFailures THEN "blockAttempts" ELSE "failed"),
             FALSE, {})
    /\ SameAddress /\ UNCHANGED <<visits, suspicious, block, attempts>> /\ UNCHANGED engineFacts

\* record_failed_login, unless register_failed_attempt before it raises.
RecordFailed(r) ==
    /\ Serving(r, "failed")
    /\ \/ \E copy \in FailedLogin(suspicious) :
            Steps(r, Holding(r, copy, "saveFailed", "idle"), FALSE, {})
       \/ Steps(r, Vacant, FALSE, {})
    /\ SameAddress /\ UNCHANGED <<visits, suspicious, block, attempts>> /\ UNCHANGED engineFacts

SaveFailed(r) ==
    LET copy == visit[r].copy IN
    /\ Serving(r, "saveFailed")
    /\ suspicious' = [suspicious EXCEPT !.failed = copy.failed, !.risk = copy.risk, !.last = clock]
    /\ Steps(r, IF copy.risk < RiskLimit THEN Vacant
                ELSE [Holding(r, copy, "countBlock", "idle")
                        EXCEPT !.dirty = visit[r].dirty \cap {"blocks"}], FALSE, {"failed"})
    /\ failures' = IF copy.failed = 1 THEN 1 ELSE failures + 1
    /\ overwritten' = IF "failed" \in visit[r].dirty THEN overwritten \cup {"failed"}
                ELSE IF copy.failed = 1 THEN overwritten \ {"failed"} ELSE overwritten
    /\ SameAddress
    /\ UNCHANGED <<visits, block, attempts, promised, lifted, overlapped, escalations>>

\* The right password: record_successful_login.
RightPassword(r) ==
    /\ Serving(r, "password")
    /\ \E copy \in SuccessfulLogin(suspicious) :
         Steps(r, Holding(r, copy, "saveSuccess", "idle"), FALSE, {})
    /\ SameAddress /\ UNCHANGED <<visits, suspicious, block, attempts>> /\ UNCHANGED engineFacts

SaveSuccess(r) ==
    LET copy == visit[r].copy IN
    /\ Serving(r, "saveSuccess")
    /\ suspicious' = [suspicious EXCEPT !.failed = 0, !.requests = 0, !.risk = copy.risk,
                                        !.last = clock]
    /\ Steps(r, GoesTo(r, "lift"), FALSE, {"failed"})
    /\ failures' = 0 /\ overwritten' = overwritten \ {"failed"}
    /\ SameAddress
    /\ UNCHANGED <<visits, block, attempts, promised, lifted, overlapped, escalations>>

\* The block goes, whoever put it.
Lifts ==
    /\ block' = NoBlock
    /\ promised' = 0 /\ lifted' = TRUE
    /\ UNCHANGED <<suspicious, attempts, overlapped, failures, escalations, overwritten>>

RemoveBlock(r) ==
    /\ Serving(r, "lift")
    /\ Lifts
    /\ Steps(r, GoesTo(r, "check"), TRUE, {})
    /\ SameAddress /\ UNCHANGED visits

\* check_and_block_ip: many failures block the address all the same.
CheckAttack(r) ==
    /\ Serving(r, "check")
    /\ Steps(r, GoesTo(r, IF Recent >= ManyAttempts THEN "blockAttack" ELSE "idle"),
             FALSE, {})
    /\ SameAddress /\ UNCHANGED <<visits, suspicious, block, attempts>> /\ UNCHANGED engineFacts

-----------------------------------------------------------------------------
\* An administrator unblocks the address.
UnblockIp ==
    /\ block.id # 0 /\ visits < MaxVisits
    /\ visits' = visits + 1
    /\ Lifts
    /\ visit' = [q \in Servers |-> IF visit[q].at = "idle" THEN visit[q]
                                   ELSE [visit[q] EXCEPT !.unseen = TRUE]]
    /\ SameAddress

\* The retention command deletes expired blocks in one statement.
PurgeBlocks ==
    /\ block.id # 0 /\ block.until < clock
    /\ block' = NoBlock
    /\ visit' = [q \in Servers |-> IF visit[q].at = "idle" THEN visit[q]
                                   ELSE [visit[q] EXCEPT !.unseen = TRUE]]
    /\ SameAddress /\ UNCHANGED <<visits, suspicious, attempts>> /\ UNCHANGED engineFacts

EngineTick ==
    /\ clock < MaxNow
    /\ clock' = clock + 1
    /\ UNCHANGED <<suspicious, block, attempts, kind, visit, visits>> /\ UNCHANGED engineFacts

EngineInit ==
    /\ clock = 1 /\ visits = 0 /\ block = NoBlock /\ attempts = {}
    /\ suspicious = [failed |-> 0, risk |-> 0, requests |-> 0, blocks |-> 0, last |-> 1]
    /\ kind \in {"local", "trusted", "other"}
    /\ visit = [r \in Servers |-> Vacant]
    /\ promised = 0 /\ lifted = FALSE /\ overlapped = FALSE
    /\ failures = 0 /\ escalations = 0 /\ overwritten = {}

ServerStep(r) ==
    \/ Arrive(r) \/ LoginGate(r) \/ Discard(r) \/ CheckRate(r) \/ SaveRate(r)
    \/ Refuse(r) \/ WrongPassword(r) \/ CountAttempts(r) \/ BlockAttempts(r)
    \/ RecordFailed(r) \/ SaveFailed(r) \/ CountBlock(r) \/ BlockIp(r)
    \/ RightPassword(r) \/ SaveSuccess(r) \/ RemoveBlock(r) \/ CheckAttack(r) \/ BlockAttack(r)

EngineNext == (\E r \in Servers : ServerStep(r)) \/ UnblockIp \/ PurgeBlocks \/ EngineTick

EngineSpec == EngineInit /\ [][EngineNext]_engineVars

-----------------------------------------------------------------------------
\* A block is in force until the end it announced, unless a login or an
\* administrator lifted it: neither the deletion of an expired row, nor a
\* shorter block by another rule, ends it early, except in a request that had
\* passed the gate before that block was put.  (A trusted address may log in,
\* and fail, while it is blocked.)
BlockHolds ==
    (promised >= clock /\ ~overlapped /\ kind # "trusted")
    => block.id # 0 /\ block.until >= promised

\* MaxFailures failed logins within the window leave the address blocked once
\* their requests have counted them, however these overlapped, until someone
\* lifts the block.
AttackIsBlocked ==
    (Recent >= MaxFailures /\ ~lifted
        /\ \A r \in Servers : visit[r].at \notin {"count", "blockAttempts"})
    => block.id # 0 /\ ~IsExpired(block)

\* The counters are the failures since they last started again and the blocks
\* made, unless two requests overlapped in reading and writing them; then the
\* count of blocks is lower, and the next block shorter, never longer.
CountersExact ==
    /\ suspicious.blocks <= escalations
    /\ "failed" \notin overwritten => suspicious.failed = failures
    /\ "blocks" \notin overwritten => suspicious.blocks = escalations
=============================================================================
