---------------------------- MODULE DeviceSessions ----------------------------
(***************************************************************************)
(* Refresh tokens and login sessions of one account: the DeviceSession and *)
(* UserSession rows of apps/users and apps/security, the token blacklist   *)
(* of simplejwt, and the requests that work on them: login, refresh,       *)
(* logout, revocation of one session, change or reset of the password.     *)
(*                                                                         *)
(* No request runs in a transaction (ATOMIC_REQUESTS is not set), so each  *)
(* is split at its statements; one that dies leaves what it wrote.         *)
(***************************************************************************)
EXTENDS Naturals

CONSTANTS
  Requests,    \* slots for requests in progress
  Tokens,      \* refresh tokens that may be issued
  Sessions,    \* rows that may be inserted in DeviceSession
  NoToken, NoSession,
  MaxChanges,  \* bound: password changes
  MaxAborts    \* bound: requests that die on the way

ASSUME NoTokenAssumption == NoToken \notin Tokens
ASSUME NoSessionAssumption == NoSession \notin Sessions
ASSUME BoundsAssumption == MaxChanges \in Nat /\ MaxAborts \in Nat

VARIABLES
  pwd,        \* version of the account's password
  minted,     \* tokens issued
  parent,     \* history: the token a token was rotated from
  black,      \* blacklisted tokens
  expired,    \* tokens whose exp has passed
  delivered,  \* tokens some response handed to the client
  sess,       \* sess[s]: the DeviceSession row
  runtime,    \* runtime[s]: the UserSession row the same login creates
  req,        \* req[r]: the request in slot r and how far it has come
  ended,      \* history: tokens whose logout was answered with 205
  aborts      \* requests that died so far

tokenVars == <<minted, parent, black, expired, delivered>>
vars == <<pwd, tokenVars, sess, runtime, req, ended, aborts>>

AnyToken == Tokens \cup {NoToken}
AnySession == Sessions \cup {NoSession}

(* opened: the password version when the row was inserted (history).       *)
SessionRow == [token : AnyToken, active : BOOLEAN, revokedAt : BOOLEAN,
               opened : 0..MaxChanges]
RuntimeRow == [active : BOOLEAN, opened : 0..MaxChanges]

Absent == [token |-> NoToken, active |-> FALSE, revokedAt |-> FALSE, opened |-> 0]
AbsentRuntime == [active |-> FALSE, opened |-> 0]

Stages == {"free", "authenticated", "opened", "checked", "rotated", "found",
           "blacklisted", "revoking", "saved", "devicesRevoked"}

Request == [op : {"none", "login", "refresh", "logout", "password"},
            at : Stages, token : AnyToken, fresh : AnyToken, session : AnySession]

Doing(op, at, token, fresh, session) ==
  [op |-> op, at |-> at, token |-> token, fresh |-> fresh, session |-> session]
Idle == Doing("none", "free", NoToken, NoToken, NoSession)

TypeOK ==
  /\ pwd \in 0..MaxChanges
  /\ minted \subseteq Tokens
  /\ parent \in [Tokens -> AnyToken]
  /\ black \subseteq minted /\ expired \subseteq minted /\ delivered \subseteq minted
  /\ sess \in [Sessions -> SessionRow]
  /\ runtime \in [Sessions -> RuntimeRow]
  /\ req \in [Requests -> Request]
  /\ ended \subseteq minted
  /\ aborts \in 0..MaxAborts

Init ==
  /\ pwd = 0
  /\ minted = {} /\ black = {} /\ expired = {} /\ delivered = {} /\ ended = {}
  /\ parent = [t \in Tokens |-> NoToken]
  /\ sess = [s \in Sessions |-> Absent]
  /\ runtime = [s \in Sessions |-> AbsentRuntime]
  /\ req = [r \in Requests |-> Idle]
  /\ aborts = 0

At(r, op, stage) == req[r].op = op /\ req[r].at = stage
Free(r) == At(r, "none", "free")
Exists(s) == sess[s].token # NoToken
Put(r, request) == req' = [req EXCEPT ![r] = request]
Finish(r) == Put(r, Idle)
PutSession(s, record) == sess' = [sess EXCEPT ![s] = record]

(* DeviceSession rows found by build_refresh_token_hash, is_active = True  *)
(* (revoked_at is set only together with is_active = False).               *)
ActiveWith(t) == {s \in Sessions : sess[s].active /\ sess[s].token = t}

-----------------------------------------------------------------------------
(* Login. *)

(* login_user accepts the credentials; RefreshToken.for_user. *)
LoginAuthenticates(r) ==
  /\ Free(r)
  /\ \E t \in Tokens \ minted :
       /\ minted' = minted \cup {t}
       /\ Put(r, Doing("login", "authenticated", NoToken, t, NoSession))
  /\ UNCHANGED <<pwd, parent, black, expired, delivered, sess, runtime, ended, aborts>>

(* create_device_session. *)
LoginOpensSession(r) ==
  /\ At(r, "login", "authenticated")
  /\ \E s \in Sessions :
       /\ ~Exists(s)
       /\ PutSession(s, [token |-> req[r].fresh, active |-> TRUE,
                          revokedAt |-> FALSE, opened |-> pwd])
       /\ Put(r, Doing("login", "opened", NoToken, req[r].fresh, s))
  /\ UNCHANGED <<pwd, tokenVars, runtime, ended, aborts>>

(* create_runtime_session, and the response with the tokens. *)
LoginAnswers(r) ==
  /\ At(r, "login", "opened")
  /\ runtime' = [runtime EXCEPT ![req[r].session] = [active |-> TRUE, opened |-> pwd]]
  /\ delivered' = delivered \cup {req[r].fresh}
  /\ Finish(r)
  /\ UNCHANGED <<pwd, minted, parent, black, expired, sess, ended, aborts>>

-----------------------------------------------------------------------------
(* Refresh and logout. *)

(* RefreshToken(...): the presented token's signature, exp and blacklist.  *)
PresentToken(r, op, t) ==
  /\ Free(r)
  /\ t \in delivered \ (expired \cup black)
  /\ Put(r, Doing(op, "checked", t, NoToken, NoSession))
  /\ UNCHANGED <<pwd, tokenVars, sess, runtime, ended, aborts>>

(* Mutant of RefreshRotates: BLACKLIST_AFTER_ROTATION off.                  *)
Mut_RefreshRotates_KeepOld(r) ==
  /\ At(r, "refresh", "checked")
  /\ \E t \in Tokens \ minted :
       /\ minted' = minted \cup {t}
       /\ parent' = [parent EXCEPT ![t] = req[r].token]
       /\ Put(r, Doing("refresh", "rotated", req[r].token, t, NoSession))
  /\ UNCHANGED <<pwd, black, expired, delivered, sess, runtime, ended, aborts>>
(* TokenRefreshSerializer.validate: blacklist() is a get_or_create, so it  *)
(* does not fail when another request blacklisted the token first.         *)
RefreshRotates(r) ==
  /\ At(r, "refresh", "checked")
  /\ \E t \in Tokens \ minted :
       /\ minted' = minted \cup {t}
       /\ parent' = [parent EXCEPT ![t] = req[r].token]
       /\ Put(r, Doing("refresh", "rotated", req[r].token, t, NoSession))
  /\ black' = black \cup {req[r].token}
  /\ UNCHANGED <<pwd, expired, delivered, sess, runtime, ended, aborts>>

(* refresh_device_session looks the presented token up: not recognised,    *)
(* expired meanwhile, or found.                                            *)
RefreshLooksUp(r) ==
  /\ At(r, "refresh", "rotated")
  /\ \/ ActiveWith(req[r].token) = {} /\ Finish(r)
     \/ \E s \in ActiveWith(req[r].token) :
          Put(r, Doing("refresh", IF req[r].token \in expired THEN "revoking" ELSE "found",
                       req[r].token, req[r].fresh, s))
  /\ UNCHANGED <<pwd, tokenVars, sess, runtime, ended, aborts>>

(* Mutants of RefreshStores: the whole object saved; the hash left out.    *)
Mut_RefreshStores_FullSave(r) ==
  /\ At(r, "refresh", "found")
  /\ PutSession(req[r].session, [sess[req[r].session] EXCEPT
       !.token = req[r].fresh, !.active = TRUE, !.revokedAt = FALSE])
  /\ delivered' = delivered \cup {req[r].fresh}
  /\ Finish(r)
  /\ UNCHANGED <<pwd, minted, parent, black, expired, runtime, ended, aborts>>
Mut_RefreshStores_NoHash(r) ==
  /\ At(r, "refresh", "found")
  /\ delivered' = delivered \cup {req[r].fresh}
  /\ Finish(r)
  /\ UNCHANGED <<pwd, minted, parent, black, expired, sess, runtime, ended, aborts>>
(* save(update_fields = [hash, expiry, ...]) and the response.             *)
RefreshStores(r) ==
  /\ At(r, "refresh", "found")
  /\ PutSession(req[r].session, [sess[req[r].session] EXCEPT !.token = req[r].fresh])
  /\ delivered' = delivered \cup {req[r].fresh}
  /\ Finish(r)
  /\ UNCHANGED <<pwd, minted, parent, black, expired, runtime, ended, aborts>>

LogoutBlacklists(r) ==
  /\ At(r, "logout", "checked")
  /\ black' = black \cup {req[r].token}
  /\ Put(r, Doing("logout", "blacklisted", req[r].token, NoToken, NoSession))
  /\ UNCHANGED <<pwd, minted, parent, expired, delivered, sess, runtime, ended, aborts>>

LogoutLooksUp(r) ==
  /\ At(r, "logout", "blacklisted")
  /\ \/ /\ ActiveWith(req[r].token) = {}
        /\ Finish(r)
        /\ ended' = ended \cup {req[r].token}
     \/ /\ \E s \in ActiveWith(req[r].token) :
             Put(r, Doing("logout", "revoking", req[r].token, NoToken, s))
        /\ UNCHANGED ended
  /\ UNCHANGED <<pwd, tokenVars, sess, runtime, aborts>>

Revoked(row) ==
  [token |-> row.token, active |-> FALSE, revokedAt |-> TRUE, opened |-> row.opened]

(* Mutant of RevokesFound: is_active missing from update_fields.           *)
Mut_RevokesFound_NoActive(r) ==
  /\ req[r].at = "revoking"
  /\ PutSession(req[r].session, [sess[req[r].session] EXCEPT !.revokedAt = TRUE])
  /\ Finish(r)
  /\ ended' = IF req[r].op = "logout" THEN ended \cup {req[r].token} ELSE ended
  /\ UNCHANGED <<pwd, tokenVars, runtime, aborts>>
(* Logout's, and an expired refresh's, save of the revoked session.        *)
RevokesFound(r) ==
  /\ req[r].at = "revoking"
  /\ PutSession(req[r].session, Revoked(sess[req[r].session]))
  /\ Finish(r)
  /\ ended' = IF req[r].op = "logout" THEN ended \cup {req[r].token} ELSE ended
  /\ UNCHANGED <<pwd, tokenVars, runtime, aborts>>

-----------------------------------------------------------------------------
(* Revocations. *)

(* revoke_device_session writes constants: read and save are one step.     *)
RevokeSession(s) ==
  /\ Exists(s)
  /\ PutSession(s, Revoked(sess[s]))
  /\ UNCHANGED <<pwd, tokenVars, runtime, req, ended, aborts>>

(* change_password and reset_password: the save of the user row, then the  *)
(* bulk update of one table, then of the other.                            *)
PasswordSaves(r) ==
  /\ Free(r)
  /\ pwd < MaxChanges
  /\ pwd' = pwd + 1
  /\ Put(r, Doing("password", "saved", NoToken, NoToken, NoSession))
  /\ UNCHANGED <<tokenVars, sess, runtime, ended, aborts>>

(* Mutant of DevicesRevoked: only sessions with an unexpired token.        *)
Mut_DevicesRevoked_Unexpired ==
  [s \in Sessions |-> IF sess[s].token \in expired
                      THEN sess[s] ELSE [sess[s] EXCEPT !.active = FALSE]]
(* revoke_device_sessions leaves revoked_at alone. *)
DevicesRevoked == [s \in Sessions |-> [sess[s] EXCEPT !.active = FALSE]]

PasswordRevokesDevices(r) ==
  /\ At(r, "password", "saved")
  /\ sess' = DevicesRevoked
  /\ Put(r, Doing("password", "devicesRevoked", NoToken, NoToken, NoSession))
  /\ UNCHANGED <<pwd, tokenVars, runtime, ended, aborts>>

PasswordRevokesRuntime(r) ==
  /\ At(r, "password", "devicesRevoked")
  /\ runtime' = [s \in Sessions |-> [runtime[s] EXCEPT !.active = FALSE]]
  /\ Finish(r)
  /\ UNCHANGED <<pwd, tokenVars, sess, ended, aborts>>

-----------------------------------------------------------------------------
(* The environment. *)

(* The process serving r dies, or one of its statements fails.             *)
Abort(r) ==
  /\ ~Free(r)
  /\ aborts < MaxAborts
  /\ aborts' = aborts + 1
  /\ Finish(r)
  /\ UNCHANGED <<pwd, tokenVars, sess, runtime, ended>>

(* A token's exp passes; the expires_at of its session is the same time.   *)
Expire(t) ==
  /\ t \in minted \ expired
  /\ expired' = expired \cup {t}
  /\ UNCHANGED <<pwd, minted, parent, black, delivered, sess, runtime, req, ended, aborts>>

Step(r) ==
  \/ LoginAuthenticates(r) \/ LoginOpensSession(r) \/ LoginAnswers(r)
  \/ \E t \in Tokens : PresentToken(r, "refresh", t) \/ PresentToken(r, "logout", t)
  \/ RefreshRotates(r) \/ RefreshLooksUp(r) \/ RefreshStores(r)
  \/ LogoutBlacklists(r) \/ LogoutLooksUp(r) \/ RevokesFound(r)
  \/ PasswordSaves(r) \/ PasswordRevokesDevices(r) \/ PasswordRevokesRuntime(r)
  \/ Abort(r)

Next ==
  \/ \E r \in Requests : Step(r)
  \/ \E s \in Sessions : RevokeSession(s)
  \/ \E t \in Tokens : Expire(t)

Spec == Init /\ [][Next]_vars

-----------------------------------------------------------------------------
(* Properties. *)

(* A revoked session is never active again, although a refresh may save    *)
(* its row after reading it as active.                                     *)
RevokedStaysRevoked ==
  [][\A s \in Sessions : Exists(s) /\ ~sess[s].active => ~sess'[s].active]_vars

(* A password change ends every session opened before it, in both tables,  *)
(* once its request got past the bulk updates or unless it died before.    *)
OldSessionsEnd ==
  aborts = 0 =>
    \A s \in Sessions :
      /\ sess[s].active /\ sess[s].opened < pwd =>
           \E r \in Requests : At(r, "password", "saved")
      /\ runtime[s].active /\ runtime[s].opened < pwd =>
           \E r \in Requests : \/ At(r, "password", "saved")
                               \/ At(r, "password", "devicesRevoked")

(* A session in force never rests on a blacklisted token, which could      *)
(* neither be refreshed nor logged out: only while a request that presents *)
(* the token is still at work.                                             *)
NoDeadCurrentToken ==
  aborts = 0 =>
    \A s \in Sessions :
      sess[s].active /\ sess[s].token \in black =>
        \E r \in Requests : req[r].token = sess[s].token

(* Tokens from which t descends by rotation, t included: the least set of   *)
(* tokens that holds t and, with a token, the one it was rotated from.      *)
HoldsParents(S) == \A t \in S : parent[t] = NoToken \/ parent[t] \in S
Lineage(t) ==
  {u \in Tokens : \A S \in SUBSET Tokens : t \in S /\ HoldsParents(S) => u \in S}

(* Two refreshes of one token, which t descends from, were at work at once. *)
Twinned(t) ==
  \E u \in Lineage(t), v \in minted :
    u # v /\ parent[u] = parent[v] /\ parent[u] # NoToken

(* A token the client holds, valid but of no session, goes back to two     *)
(* refreshes of one token at the same time; a client that does not refresh *)
(* concurrently is never cut off.                                          *)
OrphansAreTwins ==
  \A t \in delivered \ black :
    (\A s \in Sessions : sess[s].token # t) => Twinned(t)

(* After the 205 of a logout its token is spent and keeps no session       *)
(* active, whatever ran beside it.                                         *)
LogoutEndsSession ==
  \A t \in ended : t \in black /\ ActiveWith(t) = {}

-----------------------------------------------------------------------------
(* The inductive invariant the proofs use. *)

(* A token no response has carried yet belongs to one request, and to no   *)
(* session but the one that request has just opened.                       *)
FreshIsNew ==
  \A r \in Requests : req[r].fresh # NoToken =>
    /\ req[r].fresh \in minted \ delivered
    /\ \A q \in Requests : req[q].fresh = req[r].fresh => q = r
    /\ \A s \in Sessions : sess[s].token = req[r].fresh =>
         At(r, "login", "opened") /\ req[r].session = s

(* A session's token was issued, and to no other session. *)
TokensAreUnique ==
  \A s \in Sessions : Exists(s) =>
    /\ sess[s].token \in minted
    /\ \A u \in Sessions : sess[u].token = sess[s].token => u = s

(* What a request has in hand at each stage. *)
InHand ==
  \A r \in Requests :
    /\ IF req[r].op \in {"refresh", "logout"}
       THEN req[r].token \in delivered ELSE req[r].token = NoToken
    /\ req[r].op = "login" \/ req[r].at \in {"rotated", "found"} => req[r].fresh # NoToken
    /\ req[r].at \in {"opened", "found", "revoking"} => req[r].session \in Sessions
    /\ req[r].at \in {"found", "revoking"} =>
         /\ req[r].op \in {"refresh", "logout"}
         /\ \A s \in Sessions : sess[s].token = req[r].token => s = req[r].session
    /\ req[r].op = "logout" /\ req[r].at \in {"blacklisted", "revoking"} =>
         req[r].token \in black

(* Only tokens that were handed out are blacklisted or logged out. *)
SpentWereDelivered == black \subseteq delivered /\ ended \subseteq delivered

IInv ==
  /\ TypeOK
  /\ FreshIsNew /\ TokensAreUnique /\ InHand /\ SpentWereDelivered
  /\ OldSessionsEnd /\ NoDeadCurrentToken /\ LogoutEndsSession
=============================================================================
