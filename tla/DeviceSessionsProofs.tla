------------------------ MODULE DeviceSessionsProofs ------------------------
(* Theorems about DeviceSessions and about a browser, for any number of   *)
(* requests, tokens and sessions.                                          *)
EXTENDS Browser, TLAPS

(* What a write of one request, or of one session, leaves. *)
LEMMA PutWrites ==
  ASSUME TypeOK, NEW r \in Requests, NEW request \in Request, Put(r, request)
  PROVE  /\ req' \in [Requests -> Request]
         /\ req'[r] = request
         /\ \A q \in Requests : q # r => req'[q] = req[q]
BY DEF TypeOK, Put

LEMMA PutSessionWrites ==
  ASSUME TypeOK, NEW s \in Sessions, NEW record \in SessionRow, PutSession(s, record)
  PROVE  /\ sess' \in [Sessions -> SessionRow]
         /\ sess'[s] = record
         /\ \A u \in Sessions : u # s => sess'[u] = sess[u]
BY DEF TypeOK, PutSession

LEMMA IdleIsRequest == Idle \in Request
BY DEF Idle, Doing, Request, Stages, AnyToken, AnySession

LEMMA InitInvariant == Init => IInv
<1> SUFFICES ASSUME Init PROVE IInv
  OBVIOUS
<1>1. TypeOK
  BY IdleIsRequest, BoundsAssumption DEF Init, TypeOK, Absent, AbsentRuntime, SessionRow, RuntimeRow, AnyToken
<1>2. FreshIsNew /\ InHand
  BY DEF Init, FreshIsNew, InHand, Idle, Doing
<1>3. TokensAreUnique /\ SpentWereDelivered
  BY DEF Init, TokensAreUnique, SpentWereDelivered, Exists, Absent
<1>4. OldSessionsEnd /\ NoDeadCurrentToken /\ LogoutEndsSession
  BY DEF Init, OldSessionsEnd, NoDeadCurrentToken, LogoutEndsSession, Absent, AbsentRuntime
<1> QED
  BY <1>1, <1>2, <1>3, <1>4 DEF IInv

(* A login that has its token. *)
LEMMA LoginAuthenticatesInvariant ==
  ASSUME IInv, NEW r \in Requests, LoginAuthenticates(r)
  PROVE  IInv'
<1>0. PICK t \in Tokens \ minted :
        /\ minted' = minted \cup {t}
        /\ Put(r, Doing("login", "authenticated", NoToken, t, NoSession))
  BY DEF LoginAuthenticates
<1> DEFINE new == Doing("login", "authenticated", NoToken, t, NoSession)
<1>1. Put(r, new) /\ new \in Request
  BY <1>0 DEF Doing, Request, Stages, AnyToken, AnySession
<1>2. /\ req' \in [Requests -> Request]
      /\ req'[r] = new
      /\ \A q \in Requests : q # r => req'[q] = req[q]
  BY <1>1, PutWrites DEF IInv
<1> HIDE DEF new
<1>3. UNCHANGED <<pwd, parent, black, expired, delivered, sess, runtime, ended, aborts>>
  BY DEF LoginAuthenticates
<1>4. TypeOK'
  BY <1>0, <1>2, <1>3 DEF IInv, TypeOK
<1>5. FreshIsNew'
  <2>1. t # NoToken /\ t \notin delivered /\ t \in minted'
    BY <1>0, NoTokenAssumption DEF IInv, TypeOK
  <2>2. \A s \in Sessions : sess[s].token # t
    BY <1>0, NoTokenAssumption DEF IInv, TokensAreUnique, Exists
  <2>3. \A q \in Requests : req[q].fresh # t
    BY <1>0, NoTokenAssumption DEF IInv, FreshIsNew
  <2> QED
    BY <1>0, <1>2, <1>3, <2>1, <2>2, <2>3 DEF IInv, FreshIsNew, At, new, Doing
<1>6. InHand'
  BY <1>0, <1>2, <1>3, NoTokenAssumption DEF IInv, InHand, new, Doing, Doing
<1>7. TokensAreUnique' /\ SpentWereDelivered'
  BY <1>0, <1>3 DEF IInv, TokensAreUnique, SpentWereDelivered, Exists
<1>8. OldSessionsEnd'
  BY <1>2, <1>3 DEF IInv, OldSessionsEnd, At, LoginAuthenticates, Free
<1>9. NoDeadCurrentToken'
  <2>1. req[r].token = NoToken /\ NoToken \notin black
    BY NoTokenAssumption DEF IInv, TypeOK, InHand, LoginAuthenticates, Free, At
  <2> QED
    BY <1>2, <1>3, <2>1 DEF IInv, NoDeadCurrentToken
<1>10. LogoutEndsSession'
  BY <1>3 DEF IInv, LogoutEndsSession, ActiveWith
<1> QED
  BY <1>4, <1>5, <1>6, <1>7, <1>8, <1>9, <1>10 DEF IInv

LEMMA FinishWrites ==
  ASSUME TypeOK, NEW r \in Requests, Finish(r)
  PROVE  /\ req' \in [Requests -> Request]
         /\ req'[r] = Idle
         /\ \A q \in Requests : q # r => req'[q] = req[q]
BY IdleIsRequest, PutWrites DEF Finish

LEMMA IdleFields ==
  /\ Idle.op = "none" /\ Idle.at = "free"
  /\ Idle.token = NoToken /\ Idle.fresh = NoToken /\ Idle.session = NoSession
BY DEF Idle, Doing

(* A login inserts its session. *)
LEMMA LoginOpensSessionInvariant ==
  ASSUME IInv, NEW r \in Requests, LoginOpensSession(r)
  PROVE  IInv'
<1> DEFINE t == req[r].fresh
<1>0. PICK s \in Sessions :
        /\ ~Exists(s)
        /\ PutSession(s, [token |-> t, active |-> TRUE, revokedAt |-> FALSE, opened |-> pwd])
        /\ Put(r, Doing("login", "opened", NoToken, t, s))
  BY DEF LoginOpensSession
<1> DEFINE new == Doing("login", "opened", NoToken, t, s)
           record == [token |-> t, active |-> TRUE, revokedAt |-> FALSE, opened |-> pwd]
<1>1. /\ At(r, "login", "authenticated")
      /\ t \in minted \ delivered /\ t # NoToken
      /\ \A q \in Requests : req[q].fresh = t => q = r
      /\ \A u \in Sessions : sess[u].token # t
  BY DEF IInv, InHand, FreshIsNew, LoginOpensSession, At
<1>2. t \in Tokens /\ pwd \in 0..MaxChanges
  BY <1>1 DEF IInv, TypeOK
<1>3. new \in Request /\ record \in SessionRow
  BY <1>2 DEF Doing, Request, SessionRow, Stages, AnyToken, AnySession
<1>4. /\ req' \in [Requests -> Request]
      /\ req'[r] = new
      /\ \A q \in Requests : q # r => req'[q] = req[q]
  BY <1>0, <1>3, PutWrites DEF IInv
<1>5. /\ sess' \in [Sessions -> SessionRow]
      /\ sess'[s] = record
      /\ \A u \in Sessions : u # s => sess'[u] = sess[u]
  BY <1>0, <1>3, PutSessionWrites DEF IInv
<1>6. UNCHANGED <<pwd, minted, parent, black, expired, delivered, runtime, ended, aborts>>
  BY DEF LoginOpensSession, tokenVars
<1>7. /\ new.op = "login" /\ new.at = "opened" /\ new.token = NoToken /\ new.fresh = t
      /\ new.session = s /\ record.token = t /\ record.opened = pwd
  BY DEF Doing
<1> HIDE DEF new, record, t
<1>8. TypeOK'
  BY <1>4, <1>5, <1>6 DEF IInv, TypeOK
<1>9. FreshIsNew'
  BY <1>1, <1>4, <1>5, <1>6, <1>7 DEF IInv, FreshIsNew, At
<1>10. InHand'
  <2>1. ASSUME NEW q \in Requests, q # r, req[q].at \in {"found", "revoking"}
        PROVE  \A u \in Sessions : sess'[u].token = req[q].token => u = req[q].session
    BY <2>1, <1>1, <1>5, <1>7 DEF IInv, InHand
  <2> QED
    BY <1>0, <1>1, <1>4, <1>6, <1>7, <2>1 DEF IInv, InHand
<1>11. TokensAreUnique' /\ SpentWereDelivered'
  BY <1>1, <1>5, <1>6, <1>7 DEF IInv, TokensAreUnique, SpentWereDelivered, Exists
<1>12. OldSessionsEnd'
  <2>1. ~(pwd < pwd)
    BY <1>2
  <2> QED
    BY <1>1, <1>4, <1>5, <1>6, <1>7, <2>1 DEF IInv, OldSessionsEnd, At
<1>13. NoDeadCurrentToken' /\ LogoutEndsSession'
  <2>1. t \notin black /\ t \notin ended /\ NoToken \notin black
    BY <1>1, NoTokenAssumption DEF IInv, TypeOK, SpentWereDelivered
  <2>2. req[r].token = NoToken
    BY <1>1 DEF IInv, InHand, At
  <2> QED
    BY <1>4, <1>5, <1>6, <1>7, <2>1, <2>2
    DEF IInv, NoDeadCurrentToken, LogoutEndsSession, ActiveWith
<1> QED
  BY <1>8, <1>9, <1>10, <1>11, <1>12, <1>13 DEF IInv

(* A login answers. *)
LEMMA LoginAnswersInvariant ==
  ASSUME IInv, NEW r \in Requests, LoginAnswers(r)
  PROVE  IInv'
<1> DEFINE t == req[r].fresh
           s == req[r].session
<1>1. /\ At(r, "login", "opened") /\ s \in Sessions
      /\ t \in minted \ delivered /\ t # NoToken /\ req[r].token = NoToken
      /\ \A q \in Requests : req[q].fresh = t => q = r
  BY DEF IInv, InHand, FreshIsNew, LoginAnswers, At
<1>2. /\ req' \in [Requests -> Request]
      /\ req'[r] = Idle
      /\ \A q \in Requests : q # r => req'[q] = req[q]
  BY FinishWrites DEF IInv, LoginAnswers
<1>3. /\ delivered' = delivered \cup {t}
      /\ runtime' = [runtime EXCEPT ![s] = [active |-> TRUE, opened |-> pwd]]
      /\ UNCHANGED <<pwd, minted, parent, black, expired, sess, ended, aborts>>
  BY DEF LoginAnswers
<1>4. pwd \in 0..MaxChanges /\ [active |-> TRUE, opened |-> pwd] \in RuntimeRow
  BY DEF IInv, TypeOK, RuntimeRow
<1> HIDE DEF t, s
<1>5. TypeOK'
  BY <1>1, <1>2, <1>3, <1>4 DEF IInv, TypeOK
<1>6. FreshIsNew'
  BY <1>1, <1>2, <1>3, IdleFields DEF IInv, FreshIsNew, At
<1>7. InHand'
  BY <1>2, <1>3, IdleFields DEF IInv, InHand
<1>8. TokensAreUnique' /\ SpentWereDelivered' /\ LogoutEndsSession'
  BY <1>3 DEF IInv, TokensAreUnique, SpentWereDelivered, Exists, LogoutEndsSession, ActiveWith
<1>9. OldSessionsEnd'
  <2>1. ~(pwd < pwd)
    BY <1>4
  <2>2. /\ runtime'[s].opened = pwd
        /\ \A u \in Sessions : u # s => runtime'[u] = runtime[u]
    BY <1>1, <1>3 DEF IInv, TypeOK
  <2> QED
    BY <1>1, <1>2, <1>3, <2>1, <2>2 DEF IInv, OldSessionsEnd, At
<1>10. NoDeadCurrentToken'
  <2>1. NoToken \notin black
    BY NoTokenAssumption DEF IInv, TypeOK
  <2> QED
    BY <1>1, <1>2, <1>3, <2>1 DEF IInv, NoDeadCurrentToken
<1> QED
  BY <1>5, <1>6, <1>7, <1>8, <1>9, <1>10 DEF IInv

(* A token is presented for a refresh or a logout. *)
LEMMA PresentTokenInvariant ==
  ASSUME IInv, NEW r \in Requests, NEW op \in {"refresh", "logout"}, NEW t \in Tokens,
         PresentToken(r, op, t)
  PROVE  IInv'
<1> DEFINE new == Doing(op, "checked", t, NoToken, NoSession)
<1>1. Free(r) /\ t \in delivered /\ t \notin black
  BY DEF PresentToken
<1>2. new \in Request
  BY DEF Doing, Request, Stages, AnyToken, AnySession
<1>3. /\ req' \in [Requests -> Request]
      /\ req'[r] = new
      /\ \A q \in Requests : q # r => req'[q] = req[q]
  BY <1>2, PutWrites DEF IInv, PresentToken
<1>4. UNCHANGED <<pwd, minted, parent, black, expired, delivered, sess, runtime, ended, aborts>>
  BY DEF PresentToken, tokenVars
<1>5. new.op = op /\ new.at = "checked" /\ new.token = t /\ new.fresh = NoToken
  BY DEF Doing
<1> HIDE DEF new
<1>6. TypeOK'
  BY <1>3, <1>4 DEF IInv, TypeOK
<1>7. FreshIsNew' /\ InHand'
  BY <1>1, <1>3, <1>4, <1>5 DEF IInv, FreshIsNew, InHand, At, Free
<1>8. TokensAreUnique' /\ SpentWereDelivered' /\ LogoutEndsSession'
  BY <1>4 DEF IInv, TokensAreUnique, SpentWereDelivered, Exists, LogoutEndsSession, ActiveWith
<1>9. OldSessionsEnd'
  BY <1>1, <1>3, <1>4 DEF IInv, OldSessionsEnd, At, Free
<1>10. NoDeadCurrentToken'
  <2>1. req[r].token = NoToken /\ NoToken \notin black
    BY <1>1, NoTokenAssumption DEF IInv, TypeOK, InHand, Free, At
  <2> QED
    BY <1>3, <1>4, <2>1 DEF IInv, NoDeadCurrentToken
<1> QED
  BY <1>6, <1>7, <1>8, <1>9, <1>10 DEF IInv

(* A refresh rotates the presented token. *)
LEMMA RefreshRotatesInvariant ==
  ASSUME IInv, NEW r \in Requests, RefreshRotates(r)
  PROVE  IInv'
<1> DEFINE old == req[r].token
<1>0. PICK t \in Tokens \ minted :
        /\ minted' = minted \cup {t}
        /\ parent' = [parent EXCEPT ![t] = old]
        /\ Put(r, Doing("refresh", "rotated", old, t, NoSession))
  BY DEF RefreshRotates
<1> DEFINE new == Doing("refresh", "rotated", old, t, NoSession)
<1>1. At(r, "refresh", "checked") /\ old \in delivered
  BY DEF IInv, InHand, RefreshRotates, At
<1>2. old \in minted /\ old \in AnyToken /\ new \in Request
  BY <1>1 DEF IInv, TypeOK, Doing, Request, Stages, AnyToken, AnySession
<1>3. /\ req' \in [Requests -> Request]
      /\ req'[r] = new
      /\ \A q \in Requests : q # r => req'[q] = req[q]
  BY <1>0, <1>2, PutWrites DEF IInv
<1>4. /\ black' = black \cup {old}
      /\ UNCHANGED <<pwd, expired, delivered, sess, runtime, ended, aborts>>
  BY DEF RefreshRotates
<1>5. new.op = "refresh" /\ new.at = "rotated" /\ new.token = old /\ new.fresh = t
  BY DEF Doing
<1> HIDE DEF new, old
<1>6. TypeOK'
  BY <1>0, <1>2, <1>3, <1>4 DEF IInv, TypeOK
<1>7. FreshIsNew'
  <2>1. t # NoToken /\ t \notin delivered /\ t \in minted'
    BY <1>0, NoTokenAssumption DEF IInv, TypeOK
  <2>2. \A s \in Sessions : sess[s].token # t
    BY <1>0, NoTokenAssumption DEF IInv, TokensAreUnique, Exists
  <2>3. \A q \in Requests : req[q].fresh # t
    BY <1>0, NoTokenAssumption DEF IInv, FreshIsNew
  <2> QED
    BY <1>0, <1>3, <1>4, <1>5, <2>1, <2>2, <2>3 DEF IInv, FreshIsNew, At
<1>8. InHand'
  BY <1>0, <1>1, <1>3, <1>4, <1>5, NoTokenAssumption DEF IInv, InHand
<1>9. TokensAreUnique' /\ SpentWereDelivered' /\ LogoutEndsSession'
  BY <1>0, <1>1, <1>4 DEF IInv, TokensAreUnique, SpentWereDelivered, Exists, LogoutEndsSession, ActiveWith
<1>10. OldSessionsEnd'
  BY <1>1, <1>3, <1>4 DEF IInv, OldSessionsEnd, At
<1>11. NoDeadCurrentToken'
  BY <1>3, <1>4, <1>5 DEF IInv, NoDeadCurrentToken, old
<1> QED
  BY <1>6, <1>7, <1>8, <1>9, <1>10, <1>11 DEF IInv

(* A request that found no active session with its token ends. *)
LEMMA UnfoundInvariant ==
  ASSUME IInv, NEW r \in Requests, req[r].op \in {"refresh", "logout"},
         ActiveWith(req[r].token) = {}, Finish(r),
         UNCHANGED <<pwd, minted, parent, black, expired, delivered, sess, runtime, aborts>>,
         ended' = ended \/ (ended' = ended \cup {req[r].token} /\ req[r].token \in black)
  PROVE  IInv'
<1>1. /\ req' \in [Requests -> Request]
      /\ req'[r] = Idle
      /\ \A q \in Requests : q # r => req'[q] = req[q]
  BY FinishWrites DEF IInv
<1>2. req[r].token \in delivered /\ delivered \subseteq minted
  BY DEF IInv, InHand, TypeOK
<1>3. TypeOK'
  BY <1>1, <1>2 DEF IInv, TypeOK
<1>4. FreshIsNew' /\ InHand'
  BY <1>1, IdleFields DEF IInv, FreshIsNew, InHand, At
<1>5. TokensAreUnique' /\ SpentWereDelivered' /\ LogoutEndsSession'
  BY <1>2 DEF IInv, TokensAreUnique, SpentWereDelivered, Exists, LogoutEndsSession, ActiveWith
<1>6. OldSessionsEnd'
  BY <1>1 DEF IInv, OldSessionsEnd, At
<1>7. NoDeadCurrentToken'
  BY <1>1 DEF IInv, NoDeadCurrentToken, ActiveWith
<1> QED
  BY <1>3, <1>4, <1>5, <1>6, <1>7 DEF IInv

(* A refresh or a logout found the active session of its token. *)
LEMMA FoundInvariant ==
  ASSUME IInv, NEW r \in Requests, NEW s \in ActiveWith(req[r].token),
         req[r].op \in {"refresh", "logout"}, NEW stage \in {"found", "revoking"},
         NEW fresh \in {NoToken, req[r].fresh}, stage = "found" => fresh # NoToken,
         req[r].op = "logout" => req[r].token \in black,
         Put(r, Doing(req[r].op, stage, req[r].token, fresh, s)),
         UNCHANGED <<pwd, minted, parent, black, expired, delivered, sess, runtime, ended, aborts>>
  PROVE  IInv'
<1> DEFINE new == Doing(req[r].op, stage, req[r].token, fresh, s)
<1>1. /\ s \in Sessions /\ sess[s].token = req[r].token
      /\ req[r].token \in delivered /\ req[r].token # NoToken
  BY NoTokenAssumption DEF IInv, InHand, TypeOK, ActiveWith
<1>2. new \in Request
  <2>1. /\ req[r] \in Request /\ NoToken \in AnyToken
        /\ s \in AnySession /\ stage \in Stages
    BY <1>1 DEF IInv, TypeOK, AnyToken, AnySession, Stages
  <2>2. req[r].token \in AnyToken /\ fresh \in AnyToken
    BY <2>1 DEF Request
  <2>3. req[r].op \in {"none", "login", "refresh", "logout", "password"}
    OBVIOUS
  <2> QED
    BY <2>1, <2>2, <2>3 DEF Doing, Request
<1>3. /\ req' \in [Requests -> Request]
      /\ req'[r] = new
      /\ \A q \in Requests : q # r => req'[q] = req[q]
  BY <1>2, PutWrites DEF IInv
<1>4. /\ new.op = req[r].op /\ new.at = stage /\ new.token = req[r].token
      /\ new.fresh = fresh /\ new.session = s
  BY DEF Doing
<1> HIDE DEF new
<1>5. \A u \in Sessions : sess[u].token = req[r].token => u = s
  BY <1>1 DEF IInv, TokensAreUnique, Exists
<1>6. TypeOK'
  BY <1>3 DEF IInv, TypeOK
<1>7. FreshIsNew'
  BY <1>3, <1>4 DEF IInv, FreshIsNew, At
<1>8. InHand'
  BY <1>1, <1>3, <1>4, <1>5 DEF IInv, InHand
<1>9. TokensAreUnique' /\ SpentWereDelivered' /\ LogoutEndsSession'
  BY DEF IInv, TokensAreUnique, SpentWereDelivered, Exists, LogoutEndsSession, ActiveWith
<1>10. OldSessionsEnd'
  BY <1>3 DEF IInv, OldSessionsEnd, At
<1>11. NoDeadCurrentToken'
  BY <1>3, <1>4 DEF IInv, NoDeadCurrentToken
<1> QED
  BY <1>6, <1>7, <1>8, <1>9, <1>10, <1>11 DEF IInv

LEMMA RefreshLooksUpInvariant ==
  ASSUME IInv, NEW r \in Requests, RefreshLooksUp(r)
  PROVE  IInv'
<1>1. /\ req[r].op = "refresh" /\ req[r].fresh # NoToken
      /\ UNCHANGED <<pwd, minted, parent, black, expired, delivered, sess, runtime, ended, aborts>>
  BY DEF IInv, InHand, RefreshLooksUp, At, tokenVars
<1>2. CASE ActiveWith(req[r].token) = {} /\ Finish(r)
  BY <1>1, <1>2, UnfoundInvariant
<1>3. CASE \E s \in ActiveWith(req[r].token) :
             Put(r, Doing("refresh", IF req[r].token \in expired THEN "revoking" ELSE "found",
                          req[r].token, req[r].fresh, s))
  <2> DEFINE stage == IF req[r].token \in expired THEN "revoking" ELSE "found"
  <2>1. PICK s \in ActiveWith(req[r].token) :
          Put(r, Doing(req[r].op, stage, req[r].token, req[r].fresh, s))
    BY <1>1, <1>3
  <2>2. stage \in {"found", "revoking"} /\ req[r].fresh \in {NoToken, req[r].fresh}
    OBVIOUS
  <2> HIDE DEF stage
  <2> QED
    BY <1>1, <2>1, <2>2, FoundInvariant
<1> QED
  BY <1>2, <1>3 DEF RefreshLooksUp

(* A refresh stores the new token in the session it found. *)
LEMMA RefreshStoresInvariant ==
  ASSUME IInv, NEW r \in Requests, RefreshStores(r)
  PROVE  IInv'
<1> DEFINE t == req[r].fresh
           s == req[r].session
           record == [sess[s] EXCEPT !.token = t]
<1>1. /\ At(r, "refresh", "found") /\ s \in Sessions
      /\ t \in minted \ delivered /\ t # NoToken
      /\ \A q \in Requests : req[q].fresh = t => q = r
      /\ \A u \in Sessions : sess[u].token # t
      /\ \A u \in Sessions : sess[u].token = req[r].token => u = s
  BY DEF IInv, InHand, FreshIsNew, RefreshStores, At
<1>2. sess[s] \in SessionRow /\ t \in AnyToken /\ t \in minted
  BY <1>1 DEF IInv, TypeOK, AnyToken
<1>3. /\ record \in SessionRow /\ record.token = t
      /\ record.active = sess[s].active /\ record.opened = sess[s].opened
  BY <1>2 DEF SessionRow
<1>4. /\ req' \in [Requests -> Request]
      /\ req'[r] = Idle
      /\ \A q \in Requests : q # r => req'[q] = req[q]
  BY FinishWrites DEF IInv, RefreshStores
<1>5. /\ sess' \in [Sessions -> SessionRow]
      /\ sess'[s] = record
      /\ \A u \in Sessions : u # s => sess'[u] = sess[u]
  BY <1>1, <1>3, PutSessionWrites DEF IInv, RefreshStores
<1>6. /\ delivered' = delivered \cup {t}
      /\ UNCHANGED <<pwd, minted, parent, black, expired, runtime, ended, aborts>>
  BY DEF RefreshStores
<1> HIDE DEF record, t, s
<1>7. TypeOK'
  BY <1>2, <1>4, <1>5, <1>6 DEF IInv, TypeOK
<1>8. FreshIsNew'
  BY <1>1, <1>3, <1>4, <1>5, <1>6, IdleFields DEF IInv, FreshIsNew, At
<1>9. InHand'
  <2>1. ASSUME NEW q \in Requests, q # r, req[q].at \in {"found", "revoking"}
        PROVE  \A u \in Sessions : sess'[u].token = req[q].token => u = req[q].session
    <3>1. req[q].token \in delivered
      BY <2>1 DEF IInv, InHand
    <3> QED
      BY <2>1, <3>1, <1>1, <1>3, <1>5 DEF IInv, InHand
  <2> QED
    BY <1>4, <1>6, <2>1, IdleFields DEF IInv, InHand
<1>10. TokensAreUnique' /\ SpentWereDelivered'
  BY <1>1, <1>2, <1>3, <1>5, <1>6 DEF IInv, TokensAreUnique, SpentWereDelivered, Exists
<1>11. OldSessionsEnd'
  BY <1>1, <1>3, <1>4, <1>5, <1>6 DEF IInv, OldSessionsEnd, At
<1>12. t \notin black /\ t \notin ended
  BY <1>1 DEF IInv, SpentWereDelivered
<1>13. NoDeadCurrentToken'
  <2>1. ASSUME NEW u \in Sessions, sess'[u].active, sess'[u].token \in black, aborts = 0
        PROVE  \E q \in Requests : req'[q].token = sess'[u].token
    <3>1. u # s /\ sess'[u] = sess[u]
      BY <2>1, <1>3, <1>5, <1>12
    <3>2. PICK q \in Requests : req[q].token = sess[u].token
      BY <2>1, <3>1 DEF IInv, NoDeadCurrentToken
    <3>3. q # r
      BY <3>1, <3>2, <1>1
    <3> QED
      BY <3>1, <3>2, <3>3, <1>4
  <2> QED
    BY <1>6, <2>1 DEF NoDeadCurrentToken
<1>14. LogoutEndsSession'
  BY <1>3, <1>5, <1>6, <1>12 DEF IInv, LogoutEndsSession, ActiveWith
<1> QED
  BY <1>7, <1>8, <1>9, <1>10, <1>11, <1>13, <1>14 DEF IInv

LEMMA LogoutBlacklistsInvariant ==
  ASSUME IInv, NEW r \in Requests, LogoutBlacklists(r)
  PROVE  IInv'
<1> DEFINE t == req[r].token
           new == Doing("logout", "blacklisted", t, NoToken, NoSession)
<1>1. At(r, "logout", "checked") /\ t \in delivered /\ t \in minted /\ t \in AnyToken
  BY DEF IInv, InHand, TypeOK, LogoutBlacklists, At, AnyToken
<1>2. new \in Request
  BY <1>1 DEF Doing, Request, Stages, AnyToken, AnySession
<1>3. /\ req' \in [Requests -> Request]
      /\ req'[r] = new
      /\ \A q \in Requests : q # r => req'[q] = req[q]
  BY <1>2, PutWrites DEF IInv, LogoutBlacklists
<1>4. /\ black' = black \cup {t}
      /\ UNCHANGED <<pwd, minted, parent, expired, delivered, sess, runtime, ended, aborts>>
  BY DEF LogoutBlacklists
<1>5. new.op = "logout" /\ new.at = "blacklisted" /\ new.token = t /\ new.fresh = NoToken
  BY DEF Doing
<1> HIDE DEF new, t
<1>6. TypeOK'
  BY <1>1, <1>3, <1>4 DEF IInv, TypeOK
<1>7. FreshIsNew' /\ InHand'
  BY <1>1, <1>3, <1>4, <1>5 DEF IInv, FreshIsNew, InHand, At
<1>8. TokensAreUnique' /\ SpentWereDelivered' /\ LogoutEndsSession'
  BY <1>1, <1>4 DEF IInv, TokensAreUnique, SpentWereDelivered, Exists, LogoutEndsSession, ActiveWith
<1>9. OldSessionsEnd'
  BY <1>1, <1>3, <1>4 DEF IInv, OldSessionsEnd, At
<1>10. NoDeadCurrentToken'
  BY <1>3, <1>4, <1>5 DEF IInv, NoDeadCurrentToken, t
<1> QED
  BY <1>6, <1>7, <1>8, <1>9, <1>10 DEF IInv

LEMMA LogoutLooksUpInvariant ==
  ASSUME IInv, NEW r \in Requests, LogoutLooksUp(r)
  PROVE  IInv'
<1>1. /\ req[r].op = "logout" /\ req[r].token \in black
      /\ UNCHANGED <<pwd, minted, parent, black, expired, delivered, sess, runtime, aborts>>
  BY DEF IInv, InHand, LogoutLooksUp, At, tokenVars
<1>2. CASE ActiveWith(req[r].token) = {} /\ Finish(r) /\ ended' = ended \cup {req[r].token}
  BY <1>1, <1>2, UnfoundInvariant
<1>3. CASE /\ \E s \in ActiveWith(req[r].token) :
                Put(r, Doing("logout", "revoking", req[r].token, NoToken, s))
           /\ ended' = ended
  <2>1. PICK s \in ActiveWith(req[r].token) :
          Put(r, Doing(req[r].op, "revoking", req[r].token, NoToken, s))
    BY <1>1, <1>3
  <2>2. "revoking" \in {"found", "revoking"} /\ NoToken \in {NoToken, req[r].fresh}
    OBVIOUS
  <2> QED
    BY <1>1, <1>3, <2>1, <2>2, FoundInvariant
<1> QED
  BY <1>2, <1>3 DEF LogoutLooksUp

(* A logout, or a refresh whose token expired, revokes what it found. *)
LEMMA RevokesFoundInvariant ==
  ASSUME IInv, NEW r \in Requests, RevokesFound(r)
  PROVE  IInv'
<1> DEFINE t == req[r].token
           s == req[r].session
           record == Revoked(sess[s])
<1>1. /\ req[r].op \in {"refresh", "logout"} /\ s \in Sessions
      /\ t \in delivered /\ t \in minted
      /\ req[r].op = "logout" => t \in black
      /\ \A u \in Sessions : sess[u].token = t => u = s
  BY DEF IInv, TypeOK, InHand, RevokesFound
<1>2. sess[s] \in SessionRow
  BY <1>1 DEF IInv, TypeOK
<1>3. /\ record \in SessionRow /\ record.token = sess[s].token
      /\ record.active = FALSE
  BY <1>2 DEF SessionRow, Revoked
<1>4. /\ req' \in [Requests -> Request]
      /\ req'[r] = Idle
      /\ \A q \in Requests : q # r => req'[q] = req[q]
  BY FinishWrites DEF IInv, RevokesFound
<1>5. /\ sess' \in [Sessions -> SessionRow]
      /\ sess'[s] = record
      /\ \A u \in Sessions : u # s => sess'[u] = sess[u]
  BY <1>1, <1>3, PutSessionWrites DEF IInv, RevokesFound
<1>6. /\ ended' = IF req[r].op = "logout" THEN ended \cup {t} ELSE ended
      /\ UNCHANGED <<pwd, minted, parent, black, expired, delivered, runtime, aborts>>
  BY DEF RevokesFound, tokenVars
<1> HIDE DEF record, t, s
<1>7. \A u \in Sessions : sess'[u].token = sess[u].token
                          /\ (sess'[u].active => u # s /\ sess'[u] = sess[u])
  BY <1>3, <1>5
<1>8. TypeOK'
  BY <1>1, <1>4, <1>5, <1>6 DEF IInv, TypeOK
<1>9. FreshIsNew' /\ InHand'
  BY <1>1, <1>4, <1>6, <1>7, IdleFields DEF IInv, FreshIsNew, InHand, At
<1>10. TokensAreUnique' /\ SpentWereDelivered'
  BY <1>1, <1>6, <1>7 DEF IInv, TokensAreUnique, SpentWereDelivered, Exists
<1>11. LogoutEndsSession'
  BY <1>1, <1>6, <1>7 DEF IInv, LogoutEndsSession, ActiveWith
<1>12. OldSessionsEnd'
  BY <1>1, <1>4, <1>6, <1>7 DEF IInv, OldSessionsEnd, At
<1>13. NoDeadCurrentToken'
  <2>1. ASSUME NEW u \in Sessions, sess'[u].active, sess'[u].token \in black, aborts = 0
        PROVE  \E q \in Requests : req'[q].token = sess'[u].token
    <3>1. u # s /\ sess'[u] = sess[u]
      BY <2>1, <1>7
    <3>2. PICK q \in Requests : req[q].token = sess[u].token
      BY <2>1, <3>1 DEF IInv, NoDeadCurrentToken
    <3>3. q # r
      BY <3>1, <3>2, <1>1 DEF t
    <3> QED
      BY <3>1, <3>2, <3>3, <1>4
  <2> QED
    BY <1>6, <2>1 DEF NoDeadCurrentToken
<1> QED
  BY <1>8, <1>9, <1>10, <1>11, <1>12, <1>13 DEF IInv

LEMMA RevokeSessionInvariant ==
  ASSUME IInv, NEW s \in Sessions, RevokeSession(s)
  PROVE  IInv'
<1> DEFINE record == Revoked(sess[s])
<1>1. sess[s] \in SessionRow
  BY DEF IInv, TypeOK
<1>2. record \in SessionRow /\ record.token = sess[s].token /\ record.active = FALSE
  BY <1>1 DEF SessionRow, Revoked
<1>3. /\ sess' \in [Sessions -> SessionRow]
      /\ sess'[s] = record
      /\ \A u \in Sessions : u # s => sess'[u] = sess[u]
  BY <1>2, PutSessionWrites DEF IInv, RevokeSession
<1>4. UNCHANGED <<pwd, minted, parent, black, expired, delivered, runtime, req, ended, aborts>>
  BY DEF RevokeSession, tokenVars
<1> HIDE DEF record
<1>5. \A u \in Sessions : sess'[u].token = sess[u].token
                          /\ (sess'[u].active => sess'[u] = sess[u])
  BY <1>2, <1>3
<1>6. TypeOK'
  BY <1>3, <1>4 DEF IInv, TypeOK
<1>7. FreshIsNew' /\ InHand'
  BY <1>4, <1>5 DEF IInv, FreshIsNew, InHand, At
<1>8. TokensAreUnique' /\ SpentWereDelivered' /\ LogoutEndsSession'
  BY <1>4, <1>5 DEF IInv, TokensAreUnique, SpentWereDelivered, Exists, LogoutEndsSession, ActiveWith
<1>9. OldSessionsEnd' /\ NoDeadCurrentToken'
  BY <1>4, <1>5 DEF IInv, OldSessionsEnd, NoDeadCurrentToken, At
<1> QED
  BY <1>6, <1>7, <1>8, <1>9 DEF IInv

(* A password change is saved: it is a witness for all older sessions. *)
LEMMA PasswordSavesInvariant ==
  ASSUME IInv, NEW r \in Requests, PasswordSaves(r)
  PROVE  IInv'
<1> DEFINE new == Doing("password", "saved", NoToken, NoToken, NoSession)
<1>1. new \in Request
  BY DEF Doing, Request, Stages, AnyToken, AnySession
<1>2. /\ req' \in [Requests -> Request]
      /\ req'[r] = new
      /\ \A q \in Requests : q # r => req'[q] = req[q]
  BY <1>1, PutWrites DEF IInv, PasswordSaves
<1>3. /\ Free(r) /\ pwd < MaxChanges /\ pwd' = pwd + 1
      /\ UNCHANGED <<minted, parent, black, expired, delivered, sess, runtime, ended, aborts>>
  BY DEF PasswordSaves, tokenVars
<1>4. new.op = "password" /\ new.at = "saved" /\ new.token = NoToken /\ new.fresh = NoToken
  BY DEF Doing
<1> HIDE DEF new
<1>5. pwd' \in 0..MaxChanges
  BY <1>3, BoundsAssumption DEF IInv, TypeOK
<1>6. TypeOK'
  BY <1>2, <1>3, <1>5 DEF IInv, TypeOK
<1>7. FreshIsNew' /\ InHand'
  BY <1>2, <1>3, <1>4 DEF IInv, FreshIsNew, InHand, At, Free
<1>8. TokensAreUnique' /\ SpentWereDelivered' /\ LogoutEndsSession'
  BY <1>3 DEF IInv, TokensAreUnique, SpentWereDelivered, Exists, LogoutEndsSession, ActiveWith
<1>9. OldSessionsEnd'
  <2>1. At(r, "password", "saved")'
    BY <1>2, <1>4 DEF At
  <2> QED
    BY <2>1 DEF OldSessionsEnd
<1>10. NoDeadCurrentToken'
  <2>1. req[r].token = NoToken /\ NoToken \notin black
    BY <1>3, NoTokenAssumption DEF IInv, TypeOK, InHand, Free, At
  <2> QED
    BY <1>2, <1>3, <2>1 DEF IInv, NoDeadCurrentToken
<1> QED
  BY <1>6, <1>7, <1>8, <1>9, <1>10 DEF IInv

(* The bulk update ends all sessions. *)
LEMMA PasswordRevokesDevicesInvariant ==
  ASSUME IInv, NEW r \in Requests, PasswordRevokesDevices(r)
  PROVE  IInv'
<1> DEFINE new == Doing("password", "devicesRevoked", NoToken, NoToken, NoSession)
<1>1. new \in Request
  BY DEF Doing, Request, Stages, AnyToken, AnySession
<1>2. /\ req' \in [Requests -> Request]
      /\ req'[r] = new
      /\ \A q \in Requests : q # r => req'[q] = req[q]
  BY <1>1, PutWrites DEF IInv, PasswordRevokesDevices
<1>3. /\ At(r, "password", "saved")
      /\ UNCHANGED <<pwd, minted, parent, black, expired, delivered, runtime, ended, aborts>>
  BY DEF PasswordRevokesDevices, tokenVars
<1>4. new.op = "password" /\ new.at = "devicesRevoked" /\ new.token = NoToken /\ new.fresh = NoToken
  BY DEF Doing
<1>5. /\ sess' \in [Sessions -> SessionRow]
      /\ \A s \in Sessions : sess'[s].token = sess[s].token /\ ~sess'[s].active
  BY DEF IInv, TypeOK, PasswordRevokesDevices, DevicesRevoked, SessionRow
<1> HIDE DEF new
<1>6. TypeOK'
  BY <1>2, <1>3, <1>5 DEF IInv, TypeOK
<1>7. FreshIsNew' /\ InHand'
  BY <1>2, <1>3, <1>4, <1>5 DEF IInv, FreshIsNew, InHand, At
<1>8. TokensAreUnique' /\ SpentWereDelivered' /\ LogoutEndsSession'
  BY <1>3, <1>5 DEF IInv, TokensAreUnique, SpentWereDelivered, Exists, LogoutEndsSession, ActiveWith
<1>9. OldSessionsEnd'
  <2>1. At(r, "password", "devicesRevoked")'
    BY <1>2, <1>4 DEF At
  <2> QED
    BY <2>1, <1>5 DEF OldSessionsEnd
<1>10. NoDeadCurrentToken'
  BY <1>5 DEF NoDeadCurrentToken
<1> QED
  BY <1>6, <1>7, <1>8, <1>9, <1>10 DEF IInv

(* A request ends that holds no token and revokes nothing it found. *)
LEMMA PasswordRevokesRuntimeInvariant ==
  ASSUME IInv, NEW r \in Requests, PasswordRevokesRuntime(r)
  PROVE  IInv'
<1>1. /\ req' \in [Requests -> Request]
      /\ req'[r] = Idle
      /\ \A q \in Requests : q # r => req'[q] = req[q]
  BY FinishWrites DEF IInv, PasswordRevokesRuntime
<1>2. /\ At(r, "password", "devicesRevoked")
      /\ UNCHANGED <<pwd, minted, parent, black, expired, delivered, sess, ended, aborts>>
  BY DEF PasswordRevokesRuntime, tokenVars
<1>3. /\ runtime' \in [Sessions -> RuntimeRow]
      /\ \A s \in Sessions : ~runtime'[s].active
  BY DEF IInv, TypeOK, PasswordRevokesRuntime, RuntimeRow
<1>4. TypeOK'
  BY <1>1, <1>2, <1>3 DEF IInv, TypeOK
<1>5. FreshIsNew' /\ InHand'
  BY <1>1, <1>2, IdleFields DEF IInv, FreshIsNew, InHand, At
<1>6. TokensAreUnique' /\ SpentWereDelivered' /\ LogoutEndsSession'
  BY <1>2 DEF IInv, TokensAreUnique, SpentWereDelivered, Exists, LogoutEndsSession, ActiveWith
<1>7. OldSessionsEnd'
  BY <1>1, <1>2, <1>3 DEF IInv, OldSessionsEnd, At
<1>8. NoDeadCurrentToken'
  <2>1. req[r].token = NoToken /\ NoToken \notin black
    BY <1>2, NoTokenAssumption DEF IInv, TypeOK, InHand, At
  <2> QED
    BY <1>1, <1>2, <2>1 DEF IInv, NoDeadCurrentToken
<1> QED
  BY <1>4, <1>5, <1>6, <1>7, <1>8 DEF IInv

(* After a request died the two exempted properties promise nothing. *)
LEMMA AbortInvariant ==
  ASSUME IInv, NEW r \in Requests, Abort(r)
  PROVE  IInv'
<1>1. /\ req' \in [Requests -> Request]
      /\ req'[r] = Idle
      /\ \A q \in Requests : q # r => req'[q] = req[q]
  BY FinishWrites DEF IInv, Abort
<1>2. /\ aborts < MaxAborts /\ aborts' = aborts + 1
      /\ UNCHANGED <<pwd, minted, parent, black, expired, delivered, sess, runtime, ended>>
  BY DEF Abort, tokenVars
<1>3. aborts' \in 0..MaxAborts /\ aborts' # 0
  BY <1>2, BoundsAssumption DEF IInv, TypeOK
<1>4. TypeOK'
  BY <1>1, <1>2, <1>3 DEF IInv, TypeOK
<1>5. FreshIsNew' /\ InHand'
  BY <1>1, <1>2, IdleFields DEF IInv, FreshIsNew, InHand, At
<1>6. TokensAreUnique' /\ SpentWereDelivered' /\ LogoutEndsSession'
  BY <1>2 DEF IInv, TokensAreUnique, SpentWereDelivered, Exists, LogoutEndsSession, ActiveWith
<1>7. OldSessionsEnd' /\ NoDeadCurrentToken'
  BY <1>3 DEF OldSessionsEnd, NoDeadCurrentToken
<1> QED
  BY <1>4, <1>5, <1>6, <1>7 DEF IInv

LEMMA ExpireInvariant ==
  ASSUME IInv, NEW t \in Tokens, Expire(t)
  PROVE  IInv'
<1>1. /\ expired' = expired \cup {t} /\ t \in minted
      /\ UNCHANGED <<pwd, minted, parent, black, delivered, sess, runtime, req, ended, aborts>>
  BY DEF Expire
<1>2. TypeOK'
  BY <1>1 DEF IInv, TypeOK
<1>3. FreshIsNew' /\ InHand' /\ TokensAreUnique' /\ SpentWereDelivered'
  BY <1>1 DEF IInv, FreshIsNew, InHand, TokensAreUnique, SpentWereDelivered, Exists, At
<1>4. OldSessionsEnd' /\ NoDeadCurrentToken' /\ LogoutEndsSession'
  BY <1>1 DEF IInv, OldSessionsEnd, NoDeadCurrentToken, LogoutEndsSession, ActiveWith, At
<1> QED
  BY <1>2, <1>3, <1>4 DEF IInv

LEMMA NextInvariant == IInv /\ [Next]_vars => IInv'
<1> SUFFICES ASSUME IInv, [Next]_vars PROVE IInv'
  OBVIOUS
<1>1. ASSUME NEW r \in Requests, Step(r) PROVE IInv'
  <2>1. CASE LoginAuthenticates(r) \/ LoginOpensSession(r) \/ LoginAnswers(r)
    BY <2>1, LoginAuthenticatesInvariant, LoginOpensSessionInvariant, LoginAnswersInvariant
  <2>2. CASE \E t \in Tokens : PresentToken(r, "refresh", t) \/ PresentToken(r, "logout", t)
    BY <2>2, PresentTokenInvariant
  <2>3. CASE RefreshRotates(r) \/ RefreshLooksUp(r) \/ RefreshStores(r)
    BY <2>3, RefreshRotatesInvariant, RefreshLooksUpInvariant, RefreshStoresInvariant
  <2>4. CASE LogoutBlacklists(r) \/ LogoutLooksUp(r) \/ RevokesFound(r)
    BY <2>4, LogoutBlacklistsInvariant, LogoutLooksUpInvariant, RevokesFoundInvariant
  <2>5. CASE PasswordSaves(r) \/ PasswordRevokesDevices(r) \/ PasswordRevokesRuntime(r)
    BY <2>5, PasswordSavesInvariant, PasswordRevokesDevicesInvariant,
       PasswordRevokesRuntimeInvariant
  <2>6. CASE Abort(r)
    BY <2>6, AbortInvariant
  <2> QED
    BY <1>1, <2>1, <2>2, <2>3, <2>4, <2>5, <2>6 DEF Step
<1>2. ASSUME NEW s \in Sessions, RevokeSession(s) PROVE IInv'
  BY <1>2, RevokeSessionInvariant
<1>3. ASSUME NEW t \in Tokens, Expire(t) PROVE IInv'
  BY <1>3, ExpireInvariant
<1>4. CASE UNCHANGED vars
  BY <1>4 DEF vars, tokenVars, IInv, TypeOK, FreshIsNew, InHand, TokensAreUnique,
     SpentWereDelivered, Exists, OldSessionsEnd, NoDeadCurrentToken, LogoutEndsSession,
     ActiveWith, At
<1> QED
  BY <1>1, <1>2, <1>3, <1>4 DEF Next

(* Requests, sessions and the sets of tokens agree in every reachable      *)
(* state, however the statements of the requests interleave.               *)
THEOREM InductiveInvariant == Spec => []IInv
BY InitInvariant, NextInvariant, PTL DEF Spec

(* Every reachable state is well-typed. *)
THEOREM TypeCorrect == Spec => []TypeOK
<1>1. IInv => TypeOK
  BY DEF IInv
<1> QED
  BY <1>1, InductiveInvariant, PTL

(* A password change ends the sessions opened before it, in both tables.   *)
THEOREM PasswordChangeEndsSessions == Spec => []OldSessionsEnd
<1>1. IInv => OldSessionsEnd
  BY DEF IInv
<1> QED
  BY <1>1, InductiveInvariant, PTL

(* A session in force rests on a token that can be refreshed and logged    *)
(* out, as long as no request dies.                                        *)
THEOREM CurrentTokensAreUsable == Spec => []NoDeadCurrentToken
<1>1. IInv => NoDeadCurrentToken
  BY DEF IInv
<1> QED
  BY <1>1, InductiveInvariant, PTL

(* A logout that was answered leaves no active session with its token,     *)
(* whichever refreshes and logins run beside it.                           *)
THEOREM LogoutIsFinal == Spec => []LogoutEndsSession
<1>1. IInv => LogoutEndsSession
  BY DEF IInv
<1> QED
  BY <1>1, InductiveInvariant, PTL

(* No step makes a revoked session active again. *)
LEMMA RevokedStep ==
  ASSUME IInv, [Next]_vars, NEW s \in Sessions, Exists(s), ~sess[s].active
  PROVE  ~sess'[s].active
<1>1. sess[s] \in SessionRow /\ sess \in [Sessions -> SessionRow]
  BY DEF IInv, TypeOK
<1>2. ASSUME NEW r \in Requests, LoginOpensSession(r) PROVE ~sess'[s].active
  BY <1>1, <1>2 DEF LoginOpensSession, PutSession
<1>3. ASSUME NEW r \in Requests, RefreshStores(r) PROVE ~sess'[s].active
  <2>1. req[r].session \in Sessions
    BY <1>3 DEF IInv, InHand, RefreshStores, At
  <2> DEFINE record == [sess[req[r].session] EXCEPT !.token = req[r].fresh]
  <2>2. sess' = [sess EXCEPT ![req[r].session] = record]
    BY <1>3 DEF RefreshStores, PutSession
  <2>3. record.active = sess[req[r].session].active
    BY <1>1, <2>1 DEF SessionRow
  <2> HIDE DEF record
  <2> QED
    BY <1>1, <2>1, <2>2, <2>3
<1>4. ASSUME NEW r \in Requests, RevokesFound(r) PROVE ~sess'[s].active
  BY <1>1, <1>4 DEF RevokesFound, PutSession, Revoked
<1>5. ASSUME NEW r \in Requests, PasswordRevokesDevices(r) PROVE ~sess'[s].active
  BY <1>1, <1>5 DEF PasswordRevokesDevices, DevicesRevoked, SessionRow
<1>6. ASSUME NEW u \in Sessions, RevokeSession(u) PROVE ~sess'[s].active
  BY <1>1, <1>6 DEF RevokeSession, PutSession, Revoked
<1>7. ASSUME sess' = sess PROVE ~sess'[s].active
  BY <1>7
<1>8. ASSUME NEW r \in Requests, Step(r),
             ~LoginOpensSession(r), ~RefreshStores(r), ~RevokesFound(r),
             ~PasswordRevokesDevices(r)
      PROVE  sess' = sess
  BY <1>8 DEF Step, LoginAuthenticates, LoginAnswers, PresentToken, RefreshRotates,
     RefreshLooksUp, LogoutBlacklists, LogoutLooksUp, PasswordSaves,
     PasswordRevokesRuntime, Abort
<1>9. ASSUME NEW t \in Tokens, Expire(t) PROVE sess' = sess
  BY <1>9 DEF Expire
<1>10. CASE UNCHANGED vars
  BY <1>7, <1>10 DEF vars
<1> QED
  BY <1>2, <1>3, <1>4, <1>5, <1>6, <1>7, <1>8, <1>9, <1>10 DEF Next

(* A session revoked by a logout, its owner or a password change stays     *)
(* revoked, although a refresh may save it after reading it as active.     *)
THEOREM RevocationIsFinal == Spec => RevokedStaysRevoked
<1>1. IInv /\ [Next]_vars =>
        [\A s \in Sessions : Exists(s) /\ ~sess[s].active => ~sess'[s].active]_vars
  BY RevokedStep
<1> QED
  BY <1>1, InductiveInvariant, PTL DEF Spec, RevokedStaysRevoked
-----------------------------------------------------------------------------
(* Orphans.                                                                *)

(* What the requests that will store or deliver a token know of it: a      *)
(* refresh descends from the token it presented, and if the session it     *)
(* found has another by now, there are twins on both sides.                *)
Rotations ==
  /\ \A t \in Tokens : parent[t] # NoToken => t \in minted
  /\ \A r \in Requests : At(r, "refresh", "rotated") \/ At(r, "refresh", "found") =>
       parent[req[r].fresh] = req[r].token /\ req[r].token \in black

Opening ==
  \A r \in Requests : At(r, "login", "opened") => sess[req[r].session].token = req[r].fresh

StoresOver(r) ==
  LET t == sess[req[r].session].token
  IN  /\ t \in delivered
      /\ t = req[r].token \/ (Twinned(t) /\ Twinned(req[r].fresh))
Storing == \A r \in Requests : At(r, "refresh", "found") => StoresOver(r)

OrphanInv == IInv /\ Rotations /\ Opening /\ Storing /\ OrphansAreTwins

(* A token is of its own lineage, which holds that of its parent.          *)
LEMMA LineageOf ==
  ASSUME NEW t \in Tokens
  PROVE  /\ t \in Lineage(t)
         /\ parent[t] \in Tokens => Lineage(parent[t]) \subseteq Lineage(t)
<1>1. t \in Lineage(t)
  BY DEF Lineage
<1>2. ASSUME parent[t] \in Tokens, NEW u \in Lineage(parent[t])
      PROVE  u \in Lineage(t)
  <2>1. u \in Tokens /\ \A S \in SUBSET Tokens : parent[t] \in S /\ HoldsParents(S) => u \in S
    BY <1>2 DEF Lineage
  <2>2. ASSUME NEW S \in SUBSET Tokens, t \in S, HoldsParents(S)
        PROVE  u \in S
    <3>1. parent[t] \in S
      BY <1>2, <2>2, NoTokenAssumption DEF HoldsParents
    <3>2. QED
      BY <2>1, <2>2, <3>1
  <2>3. QED
    BY <2>1, <2>2 DEF Lineage
<1>3. QED
  BY <1>1, <1>2

(* A child of a twinned token is twinned, and so are two of one parent.    *)
LEMMA ChildIsTwinned ==
  ASSUME NEW t \in Tokens, parent[t] \in Tokens, Twinned(parent[t])
  PROVE  Twinned(t)
BY LineageOf DEF Twinned

LEMMA SiblingsAreTwinned ==
  ASSUME NEW t \in Tokens, NEW u \in minted, t # u, parent[t] = parent[u], parent[t] # NoToken
  PROVE  Twinned(t)
BY LineageOf DEF Twinned

(* Tokens that are minted, with or without a parent, end nobody's lineage. *)
LEMMA LineageStays ==
  ASSUME NEW t \in Tokens, NEW n \in Tokens, parent[n] = NoToken,
         \A x \in Tokens \ {n} : parent'[x] = parent[x]
  PROVE  Lineage(t) \subseteq Lineage(t)'
<1>1. SUFFICES ASSUME NEW u \in Lineage(t), NEW S \in SUBSET Tokens, t \in S, HoldsParents(S)'
               PROVE  u \in S
  BY DEF Lineage
<1>2. \A x \in S : parent'[x] = NoToken \/ parent'[x] \in S
  BY <1>1 DEF HoldsParents
<1>3. HoldsParents(S)
  <2>1. SUFFICES ASSUME NEW x \in S
                 PROVE  parent[x] = NoToken \/ parent[x] \in S
    BY DEF HoldsParents
  <2>2. CASE x = n
    BY <2>2
  <2>3. CASE x # n
    BY <1>1, <1>2, <2>1, <2>3
  <2>4. QED
    BY <2>2, <2>3
<1>4. QED
  BY <1>1, <1>3 DEF Lineage

LEMMA TwinnedStays ==
  ASSUME NEW t \in Tokens, NEW n \in Tokens, parent[n] = NoToken, minted \subseteq minted',
         \A x \in Tokens \ {n} : parent'[x] = parent[x], minted \subseteq Tokens, Twinned(t)
  PROVE  Twinned(t)'
<1>1. PICK u \in Lineage(t), v \in minted : u # v /\ parent[u] = parent[v] /\ parent[u] # NoToken
  BY DEF Twinned
<1>2. u \in Lineage(t)'
  BY <1>1, LineageStays
<1>3. u \in Tokens \ {n} /\ v \in Tokens \ {n} /\ v \in minted'
  BY <1>1 DEF Lineage
<1>4. QED
  BY <1>1, <1>2, <1>3 DEF Twinned

LEMMA TwinnedSame ==
  ASSUME NEW t \in Tokens, parent' = parent, minted \subseteq minted', Twinned(t)
  PROVE  Twinned(t)'
<1>1. Lineage(t)' = Lineage(t)
  BY DEF Lineage, HoldsParents
<1>2. QED
  BY <1>1 DEF Twinned

(* A request that holds no token it will store or hand out. *)
Keeping(q) ==
  ~(At(q, "login", "opened") \/ At(q, "refresh", "rotated") \/ At(q, "refresh", "found"))

(* A step that hands no token out and changes none of a session's, and of  *)
(* a request at most what it does next.                                    *)
LEMMA NothingHandedOut ==
  ASSUME OrphanInv, IInv', UNCHANGED <<parent, delivered>>,
         minted \subseteq minted', black \subseteq black',
         \A s \in Sessions : sess'[s].token = sess[s].token,
         \A q \in Requests : req'[q] = req[q] \/ Keeping(q)'
  PROVE  OrphanInv'
<1>0. /\ \A r \in Requests : At(r, "refresh", "found") \/ At(r, "login", "opened") => req[r].session \in Sessions
      /\ \A r \in Requests : At(r, "refresh", "found") => req[r].fresh \in Tokens
      /\ delivered \subseteq Tokens
  BY DEF OrphanInv, IInv, InHand, FreshIsNew, At, TypeOK
<1>1. \A t \in Tokens : Twinned(t) => Twinned(t)'
  BY TwinnedSame
<1>2. Rotations'
  BY DEF OrphanInv, Rotations, At, Keeping
<1>3. Opening'
  BY <1>0 DEF OrphanInv, Opening, At, Keeping
<1>4. Storing'
  <2>1. SUFFICES ASSUME NEW r \in Requests, At(r, "refresh", "found")'
                 PROVE  StoresOver(r)'
    BY DEF Storing
  <2>2. req'[r] = req[r] /\ At(r, "refresh", "found")
    BY <2>1 DEF At, Keeping
  <2>3. PICK t \in Tokens : t = sess[req[r].session].token
    BY <1>0, <2>2 DEF OrphanInv, Storing, StoresOver
  <2>4. sess'[req'[r].session].token = t /\ req'[r].fresh = req[r].fresh /\ req'[r].token = req[r].token
    BY <1>0, <2>2, <2>3
  <2>5. t \in delivered' /\ (t = req[r].token \/ (Twinned(t)' /\ Twinned(req[r].fresh)'))
    BY <1>0, <1>1, <2>2, <2>3 DEF OrphanInv, Storing, StoresOver
  <2>6. QED
    BY <2>4, <2>5 DEF StoresOver, Twinned, Lineage, HoldsParents
<1>5. OrphansAreTwins'
  BY <1>0, <1>1 DEF OrphanInv, OrphansAreTwins
<1>6. QED
  BY <1>2, <1>3, <1>4, <1>5 DEF OrphanInv

LEMMA OrphansInitially == Init => OrphanInv
<1>1. SUFFICES ASSUME Init
               PROVE  OrphanInv
  OBVIOUS
<1>2. IInv
  BY <1>1, InitInvariant
<1>3. (\A t \in Tokens : parent[t] = NoToken) /\ delivered = {} /\ \A r \in Requests : req[r].at = "free"
  BY <1>1, IdleFields DEF Init
<1>4. QED
  BY <1>2, <1>3 DEF OrphanInv, Rotations, Opening, Storing, OrphansAreTwins, At

LEMMA OrphansQuietStep ==
  ASSUME OrphanInv, NEW r \in Requests,
         \/ LoginAuthenticates(r)
         \/ \E t \in Tokens : PresentToken(r, "refresh", t) \/ PresentToken(r, "logout", t)
         \/ LogoutBlacklists(r) \/ LogoutLooksUp(r) \/ RevokesFound(r)
         \/ PasswordSaves(r) \/ PasswordRevokesDevices(r) \/ PasswordRevokesRuntime(r)
         \/ Abort(r)
  PROVE  OrphanInv'
<1>1. IInv /\ TypeOK /\ IInv'
  <2>1. IInv /\ Step(r)
    BY DEF OrphanInv, Step
  <2>2. QED
    BY <2>1, NextInvariant DEF Next, IInv
<1>2. req' \in [Requests -> Request] /\ \A s \in Sessions : sess[s] \in SessionRow
  BY <1>1 DEF TypeOK, IInv
<1>3. ASSUME NEW new, Put(r, new), new.op # "login" \/ new.at # "opened",
             new.op # "refresh" \/ new.at \notin {"rotated", "found"}
      PROVE  \A q \in Requests : req'[q] = req[q] \/ Keeping(q)'
  BY <1>1, <1>3 DEF Put, TypeOK, Keeping, At
<1>4. ASSUME Finish(r)
      PROVE  \A q \in Requests : req'[q] = req[q] \/ Keeping(q)'
  BY <1>3, <1>4, IdleFields DEF Finish
<1>5. ASSUME NEW op, NEW at, NEW t, NEW f, NEW s, Put(r, Doing(op, at, t, f, s)),
             op # "login" \/ at # "opened", op # "refresh" \/ at \notin {"rotated", "found"}
      PROVE  \A q \in Requests : req'[q] = req[q] \/ Keeping(q)'
  <2>1. Doing(op, at, t, f, s).op = op /\ Doing(op, at, t, f, s).at = at
    BY DEF Doing
  <2>2. QED
    BY <1>3, <1>5, <2>1
<1>6. CASE LoginAuthenticates(r)
  <2>1. PICK t \in Tokens \ minted :
          minted' = minted \cup {t} /\ Put(r, Doing("login", "authenticated", NoToken, t, NoSession))
    BY <1>6 DEF LoginAuthenticates
  <2>2. UNCHANGED <<parent, delivered, black, sess>>
    BY <1>6 DEF LoginAuthenticates
  <2>3. \A q \in Requests : req'[q] = req[q] \/ Keeping(q)'
    BY <1>5, <2>1
  <2>4. QED
    BY <1>1, <2>1, <2>2, <2>3, NothingHandedOut
<1>7. ASSUME NEW t \in Tokens, NEW op \in {"refresh", "logout"}, PresentToken(r, op, t)
      PROVE  OrphanInv'
  <2>1. UNCHANGED <<parent, delivered, black, minted, sess>> /\ Put(r, Doing(op, "checked", t, NoToken, NoSession))
    BY <1>7 DEF PresentToken, tokenVars
  <2>2. \A q \in Requests : req'[q] = req[q] \/ Keeping(q)'
    BY <1>5, <2>1
  <2>3. QED
    BY <1>1, <2>1, <2>2, NothingHandedOut
<1>8. CASE LogoutBlacklists(r)
  <2>1. UNCHANGED <<parent, delivered, minted, sess>> /\ black \subseteq black'
        /\ Put(r, Doing("logout", "blacklisted", req[r].token, NoToken, NoSession))
    BY <1>8 DEF LogoutBlacklists
  <2>2. \A q \in Requests : req'[q] = req[q] \/ Keeping(q)'
    BY <1>5, <2>1
  <2>3. QED
    BY <1>1, <2>1, <2>2, NothingHandedOut
<1>9. CASE LogoutLooksUp(r)
  <2>1. UNCHANGED <<parent, delivered, black, minted, sess>>
    BY <1>9 DEF LogoutLooksUp, tokenVars
  <2>2. CASE Finish(r)
    BY <1>1, <1>4, <2>1, <2>2, NothingHandedOut
  <2>3. CASE \E s \in Sessions : Put(r, Doing("logout", "revoking", req[r].token, NoToken, s))
    <3>1. \A q \in Requests : req'[q] = req[q] \/ Keeping(q)'
      BY <1>5, <2>3
    <3>2. QED
      BY <1>1, <2>1, <3>1, NothingHandedOut
  <2>4. QED
    BY <1>9, <2>2, <2>3 DEF LogoutLooksUp, ActiveWith
<1>10. CASE RevokesFound(r)
  <2>1. UNCHANGED <<parent, delivered, black, minted>> /\ Finish(r)
        /\ sess' = [sess EXCEPT ![req[r].session] = Revoked(sess[req[r].session])]
    BY <1>10 DEF RevokesFound, tokenVars, PutSession
  <2>2. \A s \in Sessions : sess'[s].token = sess[s].token
    BY <1>1, <2>1 DEF TypeOK, Revoked
  <2>3. \A q \in Requests : req'[q] = req[q] \/ Keeping(q)'
    BY <1>4, <2>1
  <2>4. QED
    BY <1>1, <2>1, <2>2, <2>3, NothingHandedOut
<1>11. CASE PasswordSaves(r) \/ PasswordRevokesDevices(r)
  <2>1. UNCHANGED <<parent, delivered, black, minted>>
    BY <1>11 DEF PasswordSaves, PasswordRevokesDevices, tokenVars
  <2>2. PICK at \in {"saved", "devicesRevoked"} :
          Put(r, Doing("password", at, NoToken, NoToken, NoSession))
    BY <1>11 DEF PasswordSaves, PasswordRevokesDevices
  <2>3. sess' = sess \/ sess' = DevicesRevoked
    BY <1>11 DEF PasswordSaves, PasswordRevokesDevices
  <2>4. \A s \in Sessions : sess'[s].token = sess[s].token
    BY <1>2, <2>3 DEF DevicesRevoked, SessionRow
  <2>5. \A q \in Requests : req'[q] = req[q] \/ Keeping(q)'
    BY <1>5, <2>2
  <2>6. QED
    BY <1>1, <2>1, <2>4, <2>5, NothingHandedOut
<1>12. CASE PasswordRevokesRuntime(r) \/ Abort(r)
  <2>1. UNCHANGED <<parent, delivered, black, minted, sess>> /\ Finish(r)
    BY <1>12 DEF PasswordRevokesRuntime, Abort, tokenVars
  <2>2. \A q \in Requests : req'[q] = req[q] \/ Keeping(q)'
    BY <1>4, <2>1
  <2>3. QED
    BY <1>1, <2>1, <2>2, NothingHandedOut
<1>13. QED
  BY <1>6, <1>7, <1>8, <1>9, <1>10, <1>11, <1>12

(* The session a login opens is nobody's, and stays the login's until it   *)
(* is answered.                                                            *)
LEMMA OrphansLoginOpens ==
  ASSUME OrphanInv, NEW r \in Requests, LoginOpensSession(r)
  PROVE  OrphanInv'
<1>1. IInv /\ TypeOK /\ IInv' /\ TypeOK'
  BY LoginOpensSessionInvariant DEF OrphanInv, IInv
<1>2. PICK s \in Sessions :
        /\ ~Exists(s)
        /\ PutSession(s, [token |-> req[r].fresh, active |-> TRUE, revokedAt |-> FALSE, opened |-> pwd])
        /\ Put(r, Doing("login", "opened", NoToken, req[r].fresh, s))
  BY DEF LoginOpensSession
<1>3. UNCHANGED <<minted, parent, black, delivered>>
  BY DEF LoginOpensSession, tokenVars
<1>4. /\ \A q \in Requests \ {r} : req'[q] = req[q]
      /\ req'[r].op = "login" /\ req'[r].at = "opened" /\ req'[r].fresh = req[r].fresh /\ req'[r].session = s
  BY <1>1, <1>2 DEF Put, TypeOK, Doing
<1>5. /\ \A u \in Sessions \ {s} : sess'[u] = sess[u]
      /\ sess'[s].token = req[r].fresh /\ sess[s].token = NoToken
  BY <1>1, <1>2 DEF PutSession, TypeOK, Exists
<1>6. /\ delivered \subseteq Tokens /\ NoToken \notin delivered
      /\ \A q \in Requests : req[q].op = "login" => req[q].fresh # NoToken
      /\ \A q \in Requests : At(q, "refresh", "found") \/ At(q, "login", "opened") => req[q].session \in Sessions
      /\ \A q \in Requests : At(q, "refresh", "found") => req[q].fresh \in Tokens
  BY <1>1, NoTokenAssumption DEF IInv, InHand, FreshIsNew, TypeOK, At
<1>7. \A t \in Tokens : Twinned(t) => Twinned(t)'
  BY <1>3, TwinnedSame
<1>8. Rotations'
  BY <1>3, <1>4 DEF OrphanInv, Rotations, At
<1>9. Opening'
  <2>1. ASSUME NEW q \in Requests, At(q, "login", "opened")', q # r
        PROVE  sess'[req'[q].session].token = req'[q].fresh
    <3>1. At(q, "login", "opened") /\ req'[q] = req[q] /\ sess[req[q].session].token = req[q].fresh
      BY <1>4, <2>1 DEF OrphanInv, Opening, At
    <3>2. req[q].session \in Sessions \ {s}
      BY <1>5, <1>6, <3>1 DEF At
    <3>3. QED
      BY <1>5, <3>1, <3>2
  <2>2. QED
    BY <1>4, <1>5, <2>1 DEF Opening
<1>10. Storing'
  <2>1. SUFFICES ASSUME NEW q \in Requests, At(q, "refresh", "found")'
                 PROVE  StoresOver(q)'
    BY DEF Storing
  <2>2. q # r /\ req'[q] = req[q] /\ At(q, "refresh", "found") /\ StoresOver(q)
    BY <1>4, <2>1 DEF At, OrphanInv, Storing
  <2>3. PICK t \in delivered : t = sess[req[q].session].token
    BY <2>2 DEF StoresOver
  <2>4. req[q].session \in Sessions \ {s}
    BY <1>5, <1>6, <2>2, <2>3
  <2>5. sess'[req'[q].session].token = t /\ req'[q].fresh = req[q].fresh /\ req'[q].token = req[q].token
    BY <1>5, <2>2, <2>3, <2>4
  <2>6. t \in delivered' /\ (t = req[q].token \/ (Twinned(t)' /\ Twinned(req[q].fresh)'))
    BY <1>3, <1>6, <1>7, <2>2, <2>3 DEF StoresOver
  <2>7. QED
    BY <2>5, <2>6 DEF StoresOver, Twinned, Lineage, HoldsParents
<1>11. OrphansAreTwins'
  <2>1. SUFFICES ASSUME NEW t \in delivered \ black, \A u \in Sessions : sess'[u].token # t
                 PROVE  Twinned(t)'
    BY <1>3 DEF OrphansAreTwins
  <2>2. \A u \in Sessions : sess[u].token # t
    BY <1>5, <1>6, <2>1
  <2>3. QED
    BY <1>6, <1>7, <2>1, <2>2 DEF OrphanInv, OrphansAreTwins
<1>12. QED
  BY <1>1, <1>8, <1>9, <1>10, <1>11 DEF OrphanInv

(* A login hands out the token its session has. *)
LEMMA OrphansLoginAnswers ==
  ASSUME OrphanInv, NEW r \in Requests, LoginAnswers(r)
  PROVE  OrphanInv'
<1>1. IInv /\ TypeOK /\ IInv'
  BY LoginAnswersInvariant DEF OrphanInv, IInv
<1>2. /\ At(r, "login", "opened") /\ delivered' = delivered \cup {req[r].fresh}
      /\ Finish(r) /\ UNCHANGED <<minted, parent, black, sess>>
  BY DEF LoginAnswers
<1>3. (\A q \in Requests \ {r} : req'[q] = req[q]) /\ req'[r].op = "none"
  BY <1>1, <1>2, FinishWrites, IdleFields
<1>4. req[r].session \in Sessions /\ sess[req[r].session].token = req[r].fresh
  BY <1>1, <1>2 DEF IInv, InHand, OrphanInv, Opening, At
<1>5. /\ delivered \subseteq Tokens
      /\ \A q \in Requests : At(q, "refresh", "found") => req[q].fresh \in Tokens
  BY <1>1 DEF IInv, InHand, FreshIsNew, TypeOK, At
<1>6. \A t \in Tokens : Twinned(t) => Twinned(t)'
  BY <1>2, TwinnedSame
<1>7. Rotations' /\ Opening'
  BY <1>2, <1>3 DEF OrphanInv, Rotations, Opening, At
<1>8. Storing'
  <2>1. SUFFICES ASSUME NEW q \in Requests, At(q, "refresh", "found")'
                 PROVE  StoresOver(q)'
    BY DEF Storing
  <2>2. q # r /\ req'[q] = req[q] /\ At(q, "refresh", "found") /\ StoresOver(q)
    BY <1>3, <2>1 DEF At, OrphanInv, Storing
  <2>3. PICK t \in delivered : t = sess[req[q].session].token
    BY <2>2 DEF StoresOver
  <2>4. t \in delivered' /\ (t = req[q].token \/ (Twinned(t)' /\ Twinned(req[q].fresh)'))
    BY <1>2, <1>5, <1>6, <2>2, <2>3 DEF StoresOver
  <2>5. sess'[req'[q].session].token = t /\ req'[q].fresh = req[q].fresh /\ req'[q].token = req[q].token
    BY <1>2, <2>2, <2>3
  <2>6. QED
    BY <2>4, <2>5 DEF StoresOver, Twinned, Lineage, HoldsParents
<1>9. OrphansAreTwins'
  BY <1>2, <1>4, <1>5, <1>6 DEF OrphanInv, OrphansAreTwins
<1>10. QED
  BY <1>1, <1>7, <1>8, <1>9 DEF OrphanInv

(* A token that is minted by a rotation descends from the one presented.   *)
LEMMA OrphansRotates ==
  ASSUME OrphanInv, NEW r \in Requests, RefreshRotates(r)
  PROVE  OrphanInv'
<1>1. IInv /\ TypeOK /\ IInv'
  BY RefreshRotatesInvariant DEF OrphanInv, IInv
<1>2. PICK t \in Tokens \ minted :
        /\ minted' = minted \cup {t} /\ parent' = [parent EXCEPT ![t] = req[r].token]
        /\ Put(r, Doing("refresh", "rotated", req[r].token, t, NoSession))
  BY DEF RefreshRotates
<1>3. /\ black' = black \cup {req[r].token} /\ UNCHANGED <<delivered, sess>>
      /\ At(r, "refresh", "checked")
  BY DEF RefreshRotates
<1>4. /\ \A q \in Requests \ {r} : req'[q] = req[q]
      /\ req'[r].op = "refresh" /\ req'[r].at = "rotated" /\ req'[r].fresh = t /\ req'[r].token = req[r].token
  BY <1>1, <1>2 DEF Put, TypeOK, Doing
<1>5. /\ parent'[t] = req[r].token /\ \A x \in Tokens \ {t} : parent'[x] = parent[x]
      /\ parent[t] = NoToken /\ minted \subseteq minted' /\ minted \subseteq Tokens
  BY <1>1, <1>2 DEF TypeOK, OrphanInv, Rotations
<1>6. /\ delivered \subseteq Tokens
      /\ \A q \in Requests : At(q, "refresh", "found") \/ At(q, "refresh", "rotated") => req[q].fresh \in minted
  BY <1>1 DEF IInv, InHand, FreshIsNew, TypeOK, At
<1>7. \A x \in Tokens : Twinned(x) => Twinned(x)'
  BY <1>5, TwinnedStays
<1>8. Rotations'
  <2>1. \A x \in Tokens : parent'[x] # NoToken => x \in minted'
    BY <1>2, <1>5 DEF OrphanInv, Rotations
  <2>2. ASSUME NEW q \in Requests, At(q, "refresh", "rotated")' \/ At(q, "refresh", "found")'
        PROVE  parent'[req'[q].fresh] = req'[q].token /\ req'[q].token \in black'
    <3>1. CASE q = r
      BY <1>3, <1>4, <1>5, <3>1
    <3>2. CASE q # r
      <4>1. /\ req'[q] = req[q] /\ req[q].fresh \in Tokens \ {t}
            /\ parent[req[q].fresh] = req[q].token /\ req[q].token \in black
        BY <1>2, <1>4, <1>5, <1>6, <2>2, <3>2 DEF OrphanInv, Rotations, At
      <4>2. QED
        BY <1>3, <1>5, <4>1
    <3>3. QED
      BY <3>1, <3>2
  <2>3. QED
    BY <2>1, <2>2 DEF Rotations
<1>9. Opening'
  BY <1>3, <1>4 DEF OrphanInv, Opening, At
<1>10. Storing'
  <2>1. SUFFICES ASSUME NEW q \in Requests, At(q, "refresh", "found")'
                 PROVE  StoresOver(q)'
    BY DEF Storing
  <2>2. q # r /\ req'[q] = req[q] /\ At(q, "refresh", "found") /\ StoresOver(q)
    BY <1>4, <2>1 DEF At, OrphanInv, Storing
  <2>3. PICK x \in delivered : x = sess[req[q].session].token
    BY <2>2 DEF StoresOver
  <2>4. x \in delivered' /\ (x = req[q].token \/ (Twinned(x)' /\ Twinned(req[q].fresh)'))
    BY <1>3, <1>5, <1>6, <1>7, <2>2, <2>3 DEF StoresOver
  <2>5. sess'[req'[q].session].token = x /\ req'[q].fresh = req[q].fresh /\ req'[q].token = req[q].token
    BY <1>3, <2>2, <2>3
  <2>6. QED
    BY <2>4, <2>5 DEF StoresOver, Twinned, Lineage, HoldsParents
<1>11. OrphansAreTwins'
  BY <1>3, <1>6, <1>7 DEF OrphanInv, OrphansAreTwins
<1>12. QED
  BY <1>1, <1>8, <1>9, <1>10, <1>11 DEF OrphanInv

(* The session that is found has the token presented. *)
LEMMA OrphansLooksUp ==
  ASSUME OrphanInv, NEW r \in Requests, RefreshLooksUp(r)
  PROVE  OrphanInv'
<1>1. IInv /\ TypeOK /\ IInv'
  BY RefreshLooksUpInvariant DEF OrphanInv, IInv
<1>2. At(r, "refresh", "rotated") /\ UNCHANGED <<minted, parent, black, delivered, sess>>
  BY DEF RefreshLooksUp, tokenVars
<1>3. CASE Finish(r)
  <2>1. \A q \in Requests : req'[q] = req[q] \/ Keeping(q)'
    BY <1>1, <1>3, FinishWrites, IdleFields DEF Keeping, At
  <2>2. QED
    BY <1>1, <1>2, <2>1, NothingHandedOut
<1>4. ASSUME ~Finish(r)
      PROVE  OrphanInv'
  <2>1. PICK s \in ActiveWith(req[r].token), at \in {"revoking", "found"} :
          Put(r, Doing("refresh", at, req[r].token, req[r].fresh, s))
    BY <1>4 DEF RefreshLooksUp
  <2>2. /\ \A q \in Requests \ {r} : req'[q] = req[q]
        /\ req'[r].op = "refresh" /\ req'[r].at = at /\ req'[r].fresh = req[r].fresh
        /\ req'[r].token = req[r].token /\ req'[r].session = s
    BY <1>1, <2>1 DEF Put, TypeOK, Doing
  <2>3. CASE at = "revoking"
    <3>1. \A q \in Requests : req'[q] = req[q] \/ Keeping(q)'
      BY <2>2, <2>3 DEF Keeping, At
    <3>2. QED
      BY <1>1, <1>2, <3>1, NothingHandedOut
  <2>4. CASE at = "found"
    <3>1. s \in Sessions /\ sess[s].token = req[r].token /\ req[r].token \in delivered
      BY <1>1, <1>2, <2>1 DEF ActiveWith, IInv, InHand, At
    <3>2. /\ delivered \subseteq Tokens
          /\ \A q \in Requests : At(q, "refresh", "found") => req[q].fresh \in Tokens
      BY <1>1 DEF IInv, InHand, FreshIsNew, TypeOK, At
    <3>3. \A t \in Tokens : Twinned(t) => Twinned(t)'
      BY <1>2, TwinnedSame
    <3>4. Rotations' /\ Opening'
      BY <1>2, <2>2 DEF OrphanInv, Rotations, Opening, At
    <3>5. OrphansAreTwins'
      BY <1>2, <3>2, <3>3 DEF OrphanInv, OrphansAreTwins
    <3>6. Storing'
      <4>1. SUFFICES ASSUME NEW q \in Requests, At(q, "refresh", "found")'
                     PROVE  StoresOver(q)'
        BY DEF Storing
      <4>2. CASE q = r
        BY <1>2, <2>2, <3>1, <4>2 DEF StoresOver
      <4>3. CASE q # r
        <5>1. req'[q] = req[q] /\ At(q, "refresh", "found") /\ StoresOver(q)
          BY <2>2, <4>1, <4>3 DEF At, OrphanInv, Storing
        <5>2. PICK t \in delivered : t = sess[req[q].session].token
          BY <5>1 DEF StoresOver
        <5>3. t \in delivered' /\ (t = req[q].token \/ (Twinned(t)' /\ Twinned(req[q].fresh)'))
          BY <1>2, <3>2, <3>3, <5>1, <5>2 DEF StoresOver
        <5>4. sess'[req'[q].session].token = t /\ req'[q].fresh = req[q].fresh /\ req'[q].token = req[q].token
          BY <1>2, <5>1, <5>2
        <5>5. QED
          BY <5>3, <5>4 DEF StoresOver, Twinned, Lineage, HoldsParents
      <4>4. QED
        BY <4>2, <4>3
    <3>7. QED
      BY <1>1, <3>4, <3>5, <3>6 DEF OrphanInv
  <2>5. QED
    BY <2>3, <2>4
<1>5. QED
  BY <1>3, <1>4

(* A refresh takes a token from a session only if it was presented, and so *)
(* is spent, or has a twin; and who has found the session is then itself   *)
(* storing a twin.                                                         *)
LEMMA OrphansStores ==
  ASSUME OrphanInv, NEW r \in Requests, RefreshStores(r)
  PROVE  OrphanInv'
<1> DEFINE f == req[r].fresh
           p == req[r].token
           s == req[r].session
           x == sess[s].token
<1>1. IInv /\ TypeOK /\ IInv' /\ Rotations /\ Opening /\ Storing
  BY RefreshStoresInvariant DEF OrphanInv, IInv
<1>2. /\ At(r, "refresh", "found") /\ delivered' = delivered \cup {f} /\ Finish(r)
      /\ sess' = [sess EXCEPT ![s] = [sess[s] EXCEPT !.token = f]]
      /\ UNCHANGED <<minted, parent, black>>
  BY DEF RefreshStores, PutSession
<1>3. (\A q \in Requests \ {r} : req'[q] = req[q]) /\ req'[r].op = "none"
  BY <1>1, <1>2, FinishWrites, IdleFields
<1>4. /\ s \in Sessions /\ f \in minted /\ f \notin delivered /\ f \in Tokens
      /\ p \in delivered /\ p \in Tokens /\ p # NoToken /\ delivered \subseteq Tokens
  BY <1>1, <1>2, NoTokenAssumption DEF IInv, InHand, FreshIsNew, TypeOK, At
<1>5. sess'[s].token = f /\ \A u \in Sessions \ {s} : sess'[u] = sess[u]
  BY <1>1, <1>2, <1>4 DEF TypeOK, SessionRow
<1>6. parent[f] = p /\ p \in black /\ x \in delivered /\ (x = p \/ (Twinned(x) /\ Twinned(f)))
  BY <1>1, <1>2 DEF Rotations, Storing, StoresOver
<1>7. \A q \in Requests : At(q, "refresh", "found") =>
        /\ req[q].session \in Sessions /\ req[q].fresh \in minted /\ req[q].fresh \in Tokens
        /\ parent[req[q].fresh] = req[q].token /\ req[q].token \in Tokens /\ req[q].token # NoToken
        /\ q # r => req[q].fresh # f
  BY <1>1, <1>2, NoTokenAssumption DEF IInv, InHand, FreshIsNew, TypeOK, At, Rotations
<1>8. \A t \in Tokens : Twinned(t) => Twinned(t)'
  BY <1>2, TwinnedSame
<1> HIDE DEF f, p, s, x
<1>9. Rotations'
  BY <1>1, <1>2, <1>3 DEF Rotations, At
<1>10. Opening'
  <2>1. SUFFICES ASSUME NEW q \in Requests, At(q, "login", "opened")'
                 PROVE  sess'[req'[q].session].token = req'[q].fresh
    BY DEF Opening
  <2>2. q # r /\ req'[q] = req[q] /\ At(q, "login", "opened")
    BY <1>3, <2>1 DEF At
  <2>3. /\ sess[req[q].session].token = req[q].fresh /\ req[q].fresh \notin delivered
        /\ req[q].session \in Sessions
    BY <1>1, <2>2 DEF Opening, IInv, InHand, FreshIsNew, At
  <2>4. req[q].session # s
    BY <1>6, <2>3 DEF x
  <2>5. QED
    BY <1>5, <2>2, <2>3, <2>4
<1>11. ASSUME NEW q \in Requests \ {r}, At(q, "refresh", "found"), req[q].session = s
       PROVE  Twinned(f) /\ Twinned(req[q].fresh)
  <2>1. /\ req[q].fresh \in minted /\ req[q].fresh \in Tokens /\ req[q].fresh # f
        /\ parent[req[q].fresh] = req[q].token /\ req[q].token \in Tokens /\ req[q].token # NoToken
    BY <1>7, <1>11
  <2>2. x = req[q].token \/ (Twinned(x) /\ Twinned(req[q].fresh))
    BY <1>1, <1>11 DEF Storing, StoresOver, x
  <2>3. CASE x = p /\ x = req[q].token
    BY <1>4, <1>6, <2>1, <2>3, SiblingsAreTwinned
  <2>4. CASE x = p /\ x # req[q].token
    <3>1. Twinned(parent[f]) /\ parent[f] \in Tokens
      BY <1>4, <1>6, <2>2, <2>4
    <3>2. QED
      BY <1>4, <2>2, <2>4, <3>1, ChildIsTwinned
  <2>5. CASE x # p /\ x = req[q].token
    <3>1. Twinned(parent[req[q].fresh]) /\ parent[req[q].fresh] \in Tokens
      BY <1>6, <2>1, <2>5
    <3>2. QED
      BY <1>6, <2>1, <2>5, <3>1, ChildIsTwinned
  <2>6. CASE x # p /\ x # req[q].token
    BY <1>6, <2>2, <2>6
  <2>7. QED
    BY <2>3, <2>4, <2>5, <2>6
<1>12. Storing'
  <2>1. SUFFICES ASSUME NEW q \in Requests, At(q, "refresh", "found")'
                 PROVE  StoresOver(q)'
    BY DEF Storing
  <2>2. q # r /\ req'[q] = req[q] /\ At(q, "refresh", "found") /\ StoresOver(q)
    BY <1>1, <1>3, <2>1 DEF At, Storing
  <2>3. req'[q].fresh = req[q].fresh /\ req'[q].token = req[q].token /\ req[q].fresh \in Tokens
        /\ req[q].session \in Sessions
    BY <1>7, <2>2
  <2>4. CASE req[q].session = s
    <3>1. sess'[req'[q].session].token = f
      BY <1>5, <2>2, <2>4
    <3>2. PICK g \in Tokens, h \in Tokens : g = f /\ h = req[q].fresh
      BY <1>4, <2>3
    <3>3. Twinned(g) /\ Twinned(h)
      BY <1>11, <2>2, <2>4, <3>2
    <3>4. g \in delivered' /\ Twinned(g)' /\ Twinned(h)'
      BY <1>2, <1>8, <3>2, <3>3
    <3>5. sess'[req'[q].session].token = g /\ req'[q].fresh = h
      BY <2>3, <3>1, <3>2
    <3>6. QED
      BY <3>4, <3>5 DEF StoresOver, Twinned, Lineage, HoldsParents
  <2>5. CASE req[q].session # s
    <3>1. PICK t \in delivered : t = sess[req[q].session].token
      BY <2>2 DEF StoresOver
    <3>2. t \in delivered' /\ (t = req[q].token \/ (Twinned(t)' /\ Twinned(req[q].fresh)'))
      BY <1>2, <1>4, <1>8, <2>2, <2>3, <3>1 DEF StoresOver
    <3>3. sess'[req'[q].session].token = t
      BY <1>5, <2>2, <2>3, <2>5, <3>1
    <3>4. QED
      BY <2>3, <3>2, <3>3 DEF StoresOver, Twinned, Lineage, HoldsParents
  <2>6. QED
    BY <2>4, <2>5
<1>13. OrphansAreTwins'
  <2>1. SUFFICES ASSUME NEW t \in delivered' \ black, \A u \in Sessions : sess'[u].token # t
                 PROVE  Twinned(t)'
    BY <1>2 DEF OrphansAreTwins
  <2>2. t \in delivered /\ t \in Tokens
    BY <1>2, <1>4, <1>5, <2>1
  <2>3. CASE t = x
    BY <1>6, <1>8, <2>1, <2>2, <2>3
  <2>4. CASE t # x
    <3>1. \A u \in Sessions : sess[u].token # t
      BY <1>5, <2>1, <2>4 DEF x
    <3>2. QED
      BY <1>8, <2>1, <2>2, <3>1 DEF OrphanInv, OrphansAreTwins
  <2>5. QED
    BY <2>3, <2>4
<1>14. QED
  BY <1>1, <1>9, <1>10, <1>12, <1>13 DEF OrphanInv

LEMMA OrphansNext == OrphanInv /\ [Next]_vars => OrphanInv'
<1>1. SUFFICES ASSUME OrphanInv, [Next]_vars
               PROVE  OrphanInv'
  OBVIOUS
<1>2. IInv /\ TypeOK /\ IInv'
  BY <1>1, NextInvariant DEF OrphanInv, IInv
<1>3. ASSUME NEW r \in Requests, Step(r)
      PROVE  OrphanInv'
  BY <1>1, <1>3, OrphansQuietStep, OrphansLoginOpens, OrphansLoginAnswers, OrphansRotates,
     OrphansLooksUp, OrphansStores DEF Step
<1>4. ASSUME NEW s \in Sessions, RevokeSession(s)
      PROVE  OrphanInv'
  <2>1. UNCHANGED <<parent, delivered, minted, black, req>> /\ sess' = [sess EXCEPT ![s] = Revoked(sess[s])]
    BY <1>4 DEF RevokeSession, tokenVars, PutSession
  <2>2. \A u \in Sessions : sess'[u].token = sess[u].token
    BY <1>2, <2>1 DEF TypeOK, Revoked
  <2>3. \A q \in Requests : req'[q] = req[q] \/ Keeping(q)'
    BY <2>1
  <2>4. QED
    BY <1>1, <1>2, <2>1, <2>2, <2>3, NothingHandedOut
<1>5. CASE (\E t \in Tokens : Expire(t)) \/ UNCHANGED vars
  <2>1. UNCHANGED <<parent, delivered, minted, black, req, sess>>
    BY <1>5 DEF Expire, vars, tokenVars
  <2>2. \A q \in Requests : req'[q] = req[q] \/ Keeping(q)'
    BY <2>1
  <2>3. QED
    BY <1>1, <1>2, <2>1, <2>2, NothingHandedOut
<1>6. QED
  BY <1>1, <1>3, <1>4, <1>5 DEF Next

(* What the proof of the orphans rests on. *)
THEOREM OrphansInductive == Spec => []OrphanInv
BY OrphansInitially, OrphansNext, PTL DEF Spec

(* A client holds a valid token of no session only if two refreshes of one *)
(* token, from which it descends, were at work at once: for any number of  *)
(* requests, tokens and sessions.                                          *)
THEOREM OrphansHaveTwins == Spec => []OrphansAreTwins
<1>1. OrphanInv => OrphansAreTwins
  BY DEF OrphanInv
<1> QED
  BY <1>1, OrphansInductive, PTL
-----------------------------------------------------------------------------
(* The browser. *)

(* Of the requests: an active session has a token, and what was rotated is *)
(* blacklisted.                                                            *)
Spent ==
  /\ \A s \in Sessions : sess[s].active => Exists(s)
  /\ \A t \in Tokens : parent[t] # NoToken => parent[t] \in black
  /\ \A r \in Requests : req[r].op = "refresh" /\ req[r].at # "checked" => req[r].token \in black

BrowserTypes ==
  /\ reply \in [Requests -> [sets : BOOLEAN, token : Cookie]]
  /\ jar \in Cookie /\ sent \subseteq Requests

(* A request is at work, or answered, only for the browser that sent it. *)
UnderWay ==
  /\ \A r \in Requests : r \notin sent => Free(r)
  /\ \A r \in Requests : r \notin sent \/ ~Free(r) => reply[r] = NoReply
  /\ ~lost => aborts = 0

(* Nobody has the token of a reply under way yet. *)
Unseen ==
  \A r \in Requests : reply[r].token \in Tokens =>
    /\ reply[r].sets
    /\ reply[r].token \in delivered /\ reply[r].token \notin black /\ reply[r].token # jar
    /\ \A q \in Requests : /\ req[q].token # reply[r].token
                           /\ reply[q].token = reply[r].token => q = r

(* A spent cookie will be written over or deleted. *)
InJar ==
  /\ jar \in Tokens => jar \in delivered
  /\ ~lost /\ jar \in black => \E r \in sent : ~Free(r) \/ reply[r].sets

(* One request at a time works on the cookie there is, and has it deleted  *)
(* only when it can be presented no more.                                  *)
Alone ==
  ~crossed =>
    /\ \A r \in sent : \A q \in sent : r = q
    /\ \A r \in Requests : req[r].op \in {"refresh", "logout"} => req[r].token = jar
    /\ \A r \in Requests : reply[r] = Clears => jar \in expired \cup black \cup {Unbound}

(* The token of a session is in the cookie, or about to come there. *)
Comes(s) ==
  \E r \in sent : \/ At(r, "login", "opened") /\ req[r].session = s
                  \/ reply[r].token = sess[s].token
NoneLeft ==
  ~lost /\ ~crossed =>
    \A s \in Sessions : sess[s].active =>
      sess[s].token \in {jar} \cup expired \/ s \in left \/ Comes(s)

JarInv == BrowserTypes /\ UnderWay /\ Unseen /\ InJar /\ Alone /\ NoneLeft
BrowserInv == OrphanInv /\ Spent /\ JarInv

(* A step of the browser is one of the server, or leaves the server alone. *)
LEMMA BrowserStepsServe == BrowserNext => [Next]_vars
<1>1. ASSUME NEW r \in Requests, SendLogin(r) \/ ObtainPair(r)
      PROVE  Next \/ UNCHANGED vars
  BY <1>1 DEF SendLogin, ObtainPair, Next, Step
<1>2. ASSUME NEW r \in Requests, NEW op \in {"refresh", "logout"},
             SendCookie(r, op) \/ SendDeadCookie(r, op)
      PROVE  Next \/ UNCHANGED vars
  BY <1>2 DEF SendCookie, SendDeadCookie, Next, Step
<1>3. ASSUME NEW r \in Requests, Serve(r)
      PROVE  Next
  BY <1>3 DEF Serve, Next, Step
<1>4. ASSUME NEW r \in Requests, Receive(r) \/ LoseReply(r) \/ Dies(r)
      PROVE  Next \/ UNCHANGED vars
  BY <1>4 DEF Receive, LoseReply, Dies, Next, Step
<1>5. ServeOthers => Next
  BY DEF ServeOthers, Next
<1>6. QED
  BY <1>1, <1>2, <1>3, <1>4, <1>5 DEF BrowserNext

(* The session row of a step is kept, revoked, new or given a fresh token. *)
LEMMA SpentNext == OrphanInv /\ Spent /\ [Next]_vars => Spent'
<1>1. SUFFICES ASSUME OrphanInv, Spent, [Next]_vars
               PROVE  Spent'
  OBVIOUS
<1>2. IInv /\ TypeOK
  BY <1>1 DEF OrphanInv, IInv
<1>3. ASSUME NEW r \in Requests, NEW new, Put(r, new),
             black \subseteq black', new.op = "refresh" /\ new.at # "checked" => new.token \in black'
      PROVE  \A q \in Requests : req'[q].op = "refresh" /\ req'[q].at # "checked" => req'[q].token \in black'
  BY <1>1, <1>2, <1>3 DEF Put, TypeOK, Spent
<1>4. ASSUME NEW r \in Requests, Finish(r), black \subseteq black'
      PROVE  \A q \in Requests : req'[q].op = "refresh" /\ req'[q].at # "checked" => req'[q].token \in black'
  BY <1>3, <1>4, IdleFields DEF Finish
<1>5. ASSUME NEW r \in Requests, NEW op, NEW at, NEW t, NEW f, NEW s, Put(r, Doing(op, at, t, f, s)),
             black \subseteq black', op = "refresh" /\ at # "checked" => t \in black'
      PROVE  \A q \in Requests : req'[q].op = "refresh" /\ req'[q].at # "checked" => req'[q].token \in black'
  <2>1. Doing(op, at, t, f, s).op = op /\ Doing(op, at, t, f, s).at = at /\ Doing(op, at, t, f, s).token = t
    BY DEF Doing
  <2>2. QED
    BY <1>3, <1>5, <2>1
<1>6. ASSUME UNCHANGED <<sess, parent, black>>,
             \A q \in Requests : req'[q].op = "refresh" /\ req'[q].at # "checked" => req'[q].token \in black'
      PROVE  Spent'
  BY <1>1, <1>6 DEF Spent, Exists
<1>7. \A s \in Sessions : sess[s] \in SessionRow
  BY <1>2 DEF TypeOK
<1>8. ASSUME NEW s \in Sessions, NEW row, sess' = [sess EXCEPT ![s] = row],
             row.active => row.token # NoToken
      PROVE  \A u \in Sessions : sess'[u].active => sess'[u].token # NoToken
  BY <1>1, <1>2, <1>8 DEF TypeOK, Spent, Exists
<1>9. ASSUME UNCHANGED <<parent, black>>,
             \A u \in Sessions : sess'[u].active => sess'[u].token # NoToken,
             \A q \in Requests : req'[q].op = "refresh" /\ req'[q].at # "checked" => req'[q].token \in black'
      PROVE  Spent'
  BY <1>1, <1>9 DEF Spent, Exists
<1>10. ASSUME NEW r \in Requests, LoginAuthenticates(r) \/ LoginAnswers(r)
       PROVE  Spent'
  <2>1. CASE LoginAuthenticates(r)
    <3>1. PICK t \in Tokens : Put(r, Doing("login", "authenticated", NoToken, t, NoSession))
      BY <2>1 DEF LoginAuthenticates
    <3>2. UNCHANGED <<sess, parent, black>>
      BY <2>1 DEF LoginAuthenticates
    <3>3. QED
      BY <1>5, <1>6, <3>1, <3>2
  <2>2. CASE LoginAnswers(r)
    BY <1>4, <1>6, <2>2 DEF LoginAnswers
  <2>3. QED
    BY <1>10, <2>1, <2>2
<1>11. ASSUME NEW r \in Requests, LoginOpensSession(r)
       PROVE  Spent'
  <2>1. PICK s \in Sessions :
          /\ sess' = [sess EXCEPT ![s] = [token |-> req[r].fresh, active |-> TRUE, revokedAt |-> FALSE, opened |-> pwd]]
          /\ Put(r, Doing("login", "opened", NoToken, req[r].fresh, s))
    BY <1>11 DEF LoginOpensSession, PutSession
  <2>2. UNCHANGED <<parent, black>> /\ req[r].fresh # NoToken
    BY <1>2, <1>11 DEF LoginOpensSession, tokenVars, IInv, InHand, At
  <2>3. \A u \in Sessions : sess'[u].active => sess'[u].token # NoToken
    BY <1>8, <2>1, <2>2
  <2>4. \A q \in Requests : req'[q].op = "refresh" /\ req'[q].at # "checked" => req'[q].token \in black'
    BY <1>5, <2>1, <2>2
  <2>5. QED
    BY <1>9, <2>2, <2>3, <2>4
<1>12. ASSUME NEW r \in Requests, NEW t \in Tokens, NEW op \in {"refresh", "logout"}, PresentToken(r, op, t)
       PROVE  Spent'
  <2>1. Put(r, Doing(op, "checked", t, NoToken, NoSession)) /\ UNCHANGED <<sess, parent, black>>
    BY <1>12 DEF PresentToken, tokenVars
  <2>2. QED
    BY <1>5, <1>6, <2>1
<1>13. ASSUME NEW r \in Requests, RefreshRotates(r)
       PROVE  Spent'
  <2>1. PICK t \in Tokens : /\ parent' = [parent EXCEPT ![t] = req[r].token]
                            /\ Put(r, Doing("refresh", "rotated", req[r].token, t, NoSession))
    BY <1>13 DEF RefreshRotates
  <2>2. UNCHANGED sess /\ black' = black \cup {req[r].token}
    BY <1>13 DEF RefreshRotates
  <2>3. \A u \in Tokens : parent'[u] # NoToken => parent'[u] \in black'
    BY <1>1, <1>2, <2>1, <2>2 DEF Spent, TypeOK
  <2>4. \A q \in Requests : req'[q].op = "refresh" /\ req'[q].at # "checked" => req'[q].token \in black'
    BY <1>5, <2>1, <2>2
  <2>5. QED
    BY <1>1, <2>2, <2>3, <2>4 DEF Spent, Exists
<1>14. ASSUME NEW r \in Requests, RefreshLooksUp(r)
       PROVE  Spent'
  <2>1. UNCHANGED <<sess, parent, black>> /\ req[r].op = "refresh" /\ req[r].at = "rotated"
    BY <1>14 DEF RefreshLooksUp, tokenVars, At
  <2>2. CASE Finish(r)
    BY <1>4, <1>6, <2>1, <2>2
  <2>3. CASE ~Finish(r)
    <3>1. PICK s \in Sessions, at \in {"revoking", "found"} :
            Put(r, Doing("refresh", at, req[r].token, req[r].fresh, s))
      BY <1>14, <2>3 DEF RefreshLooksUp, ActiveWith
    <3>2. req[r].token \in black'
      BY <1>1, <2>1 DEF Spent
    <3>3. QED
      BY <1>5, <1>6, <2>1, <3>1, <3>2
  <2>4. QED
    BY <2>2, <2>3
<1>15. ASSUME NEW r \in Requests, RefreshStores(r)
       PROVE  Spent'
  <2>1. /\ sess' = [sess EXCEPT ![req[r].session] = [sess[req[r].session] EXCEPT !.token = req[r].fresh]]
        /\ Finish(r) /\ UNCHANGED <<parent, black>>
    BY <1>15 DEF RefreshStores, PutSession
  <2>2. req[r].fresh # NoToken /\ req[r].session \in Sessions
    BY <1>2, <1>15 DEF RefreshStores, IInv, InHand, At
  <2>3. [sess[req[r].session] EXCEPT !.token = req[r].fresh].token = req[r].fresh
    BY <1>7, <2>2 DEF SessionRow
  <2>4. \A u \in Sessions : sess'[u].active => sess'[u].token # NoToken
    BY <1>8, <2>1, <2>2, <2>3
  <2>5. QED
    BY <1>4, <1>9, <2>1, <2>4
<1>16. ASSUME NEW r \in Requests, LogoutBlacklists(r)
       PROVE  Spent'
  <2>1. /\ Put(r, Doing("logout", "blacklisted", req[r].token, NoToken, NoSession))
        /\ black \subseteq black' /\ UNCHANGED <<sess, parent>>
    BY <1>16 DEF LogoutBlacklists
  <2>2. \A q \in Requests : req'[q].op = "refresh" /\ req'[q].at # "checked" => req'[q].token \in black'
    BY <1>5, <2>1
  <2>3. QED
    BY <1>1, <2>1, <2>2 DEF Spent, Exists
<1>17. ASSUME NEW r \in Requests, LogoutLooksUp(r)
       PROVE  Spent'
  <2>1. UNCHANGED <<sess, parent, black>>
    BY <1>17 DEF LogoutLooksUp, tokenVars
  <2>2. CASE Finish(r)
    BY <1>4, <1>6, <2>1, <2>2
  <2>3. CASE \E s \in Sessions : Put(r, Doing("logout", "revoking", req[r].token, NoToken, s))
    BY <1>5, <1>6, <2>1, <2>3
  <2>4. QED
    BY <1>17, <2>2, <2>3 DEF LogoutLooksUp, ActiveWith
<1>18. ASSUME NEW s \in Sessions, PutSession(s, Revoked(sess[s])), UNCHANGED <<parent, black>>,
              \A q \in Requests : req'[q].op = "refresh" /\ req'[q].at # "checked" => req'[q].token \in black'
       PROVE  Spent'
  <2>1. Revoked(sess[s]).active = FALSE
    BY DEF Revoked
  <2>2. \A u \in Sessions : sess'[u].active => sess'[u].token # NoToken
    BY <1>8, <1>18, <2>1 DEF PutSession
  <2>3. QED
    BY <1>9, <1>18, <2>2
<1>19. ASSUME NEW r \in Requests, RevokesFound(r)
       PROVE  Spent'
  <2>1. req[r].session \in Sessions /\ UNCHANGED <<parent, black>> /\ Finish(r)
        /\ PutSession(req[r].session, Revoked(sess[req[r].session]))
    BY <1>2, <1>19 DEF RevokesFound, tokenVars, IInv, InHand
  <2>2. QED
    BY <1>4, <1>18, <2>1
<1>20. ASSUME NEW r \in Requests, PasswordSaves(r) \/ PasswordRevokesDevices(r)
       PROVE  Spent'
  <2>1. UNCHANGED <<parent, black>> /\ (sess' = sess \/ sess' = DevicesRevoked)
    BY <1>20 DEF PasswordSaves, PasswordRevokesDevices, tokenVars
  <2>2. PICK at \in {"saved", "devicesRevoked"} :
          Put(r, Doing("password", at, NoToken, NoToken, NoSession))
    BY <1>20 DEF PasswordSaves, PasswordRevokesDevices
  <2>3. \A u \in Sessions : sess'[u].active => sess'[u].token # NoToken
    BY <1>1, <1>7, <2>1 DEF DevicesRevoked, SessionRow, Spent, Exists
  <2>4. QED
    BY <1>5, <1>9, <2>1, <2>2, <2>3
<1>21. ASSUME NEW r \in Requests, PasswordRevokesRuntime(r) \/ Abort(r)
       PROVE  Spent'
  BY <1>4, <1>6, <1>21 DEF PasswordRevokesRuntime, Abort, tokenVars
<1>22. ASSUME NEW s \in Sessions, RevokeSession(s)
       PROVE  Spent'
  BY <1>1, <1>18, <1>22 DEF RevokeSession, tokenVars, Spent
<1>23. CASE (\E t \in Tokens : Expire(t)) \/ UNCHANGED vars
  BY <1>1, <1>23 DEF Expire, vars, tokenVars, Spent, Exists
<1>24. QED
  BY <1>1, <1>10, <1>11, <1>12, <1>13, <1>14, <1>15, <1>16, <1>17, <1>19, <1>20, <1>21, <1>22, <1>23
  DEF Next, Step

LEMMA JarInitially == BrowserInit => BrowserInv
<1>1. SUFFICES ASSUME BrowserInit
               PROVE  BrowserInv
  OBVIOUS
<1>2. OrphanInv
  BY <1>1, OrphansInitially DEF BrowserInit, BrowserStarts
<1>3. /\ \A r \in Requests : req[r].op = "none" /\ req[r].at = "free" /\ req[r].token = NoToken
      /\ \A s \in Sessions : ~sess[s].active
      /\ \A t \in Tokens : parent[t] = NoToken
      /\ black = {} /\ aborts = 0
  BY <1>1, IdleFields DEF BrowserInit, BrowserStarts, Init, Absent
<1>4. /\ jar = NoToken /\ sent = {} /\ ~crossed /\ ~lost
      /\ reply = [r \in Requests |-> NoReply]
  BY <1>1 DEF BrowserInit, BrowserStarts
<1>5. NoReply \in [sets : BOOLEAN, token : Cookie] /\ NoReply.token = NoToken /\ NoReply.sets = FALSE
      /\ NoReply # Clears
  BY DEF NoReply, Cookie, Clears, Sets
<1>6. Spent
  BY <1>3 DEF Spent
<1>7. BrowserTypes /\ UnderWay
  BY <1>3, <1>4, <1>5 DEF BrowserTypes, UnderWay, Cookie, Free, At
<1>8. Unseen /\ InJar
  BY <1>3, <1>4, <1>5, NoTokenAssumption DEF Unseen, InJar
<1>9. Alone /\ NoneLeft
  BY <1>3, <1>4, <1>5 DEF Alone, NoneLeft
<1>10. QED
  BY <1>2, <1>6, <1>7, <1>8, <1>9 DEF BrowserInv, JarInv

(* The three answers a browser can get. *)
LEMMA Replies ==
  /\ NoReply \in [sets : BOOLEAN, token : Cookie] /\ NoReply.token = NoToken /\ NoReply.sets = FALSE
  /\ Clears \in [sets : BOOLEAN, token : Cookie] /\ Clears.token = NoToken /\ Clears.sets = TRUE
  /\ Sets(Unbound) \in [sets : BOOLEAN, token : Cookie] /\ Sets(Unbound).token = Unbound
  /\ Sets(Unbound).sets = TRUE
  /\ \A t \in Tokens : /\ Sets(t) \in [sets : BOOLEAN, token : Cookie]
                       /\ Sets(t).token = t /\ Sets(t).sets = TRUE
  /\ NoToken \notin Tokens /\ Unbound \notin Tokens /\ Unbound # NoToken
BY NoTokenAssumption, UnboundAssumption DEF NoReply, Clears, Sets, Cookie

(* A request is sent: by a login, or with the cookie, which is valid.      *)
LEMMA JarSends ==
  ASSUME BrowserInv, IInv', NEW r \in Requests, Sends(r), UNCHANGED reply,
         NEW new, Put(r, new), new.op # "none",
         new.op \in {"refresh", "logout"} => new.token = jar /\ jar \in Tokens,
         new.op \notin {"refresh", "logout"} => new.token = NoToken,
         ~(new.op = "login" /\ new.at = "opened"),
         UNCHANGED <<black, expired, delivered, sess, aborts>>
  PROVE  JarInv'
<1>1. IInv /\ TypeOK /\ BrowserTypes /\ UnderWay /\ Unseen /\ InJar /\ Alone /\ NoneLeft
  BY DEF BrowserInv, JarInv, OrphanInv, IInv
<1>2. /\ r \notin sent /\ sent' = sent \cup {r} /\ UNCHANGED <<jar, lost, left>>
      /\ ~crossed' => ~crossed /\ sent = {}
  BY DEF Sends
<1>3. req'[r] = new /\ \A q \in Requests \ {r} : req'[q] = req[q]
  BY <1>1 DEF Put, TypeOK
<1>4. Free(r) /\ reply[r] = NoReply
  BY <1>1, <1>2 DEF UnderWay
<1>5. BrowserTypes'
  BY <1>1, <1>2 DEF BrowserTypes
<1>6. UnderWay'
  BY <1>1, <1>2, <1>3, <1>4 DEF UnderWay, Free, At
<1>7. Unseen'
  BY <1>1, <1>2, <1>3, Replies DEF Unseen
<1>8. InJar'
  <2>1. ASSUME NEW q \in sent, ~Free(q) \/ reply[q].sets
        PROVE  q \in sent' /\ (~Free(q)' \/ reply'[q].sets)
    BY <1>1, <1>2, <1>3, <2>1 DEF Free, At, BrowserTypes
  <2>2. QED
    BY <1>1, <1>2, <2>1 DEF InJar
<1>9. Alone'
  <2>1. SUFFICES ASSUME ~crossed'
                 PROVE  /\ \A p \in sent' : \A q \in sent' : p = q
                        /\ \A q \in Requests : req'[q].op \in {"refresh", "logout"} => req'[q].token = jar'
                        /\ \A q \in Requests : reply'[q] = Clears => jar' \in expired' \cup black' \cup {Unbound}
    BY DEF Alone
  <2>2. \A q \in Requests \ {r} : req'[q].op = "none"
    BY <1>1, <1>2, <1>3, <2>1 DEF UnderWay, Free, At
  <2>3. QED
    BY <1>1, <1>2, <1>3, <2>1, <2>2 DEF Alone
<1>10. NoneLeft'
  <2>1. SUFFICES ASSUME ~lost', ~crossed', NEW s \in Sessions, sess'[s].active
                 PROVE  sess'[s].token \in {jar'} \cup expired' \/ s \in left' \/ Comes(s)'
    BY DEF NoneLeft
  <2>2. sess[s].token \in {jar} \cup expired \/ s \in left \/ Comes(s)
    BY <1>1, <1>2, <2>1 DEF NoneLeft
  <2>3. ~Comes(s)
    BY <1>2, <2>1 DEF Comes
  <2>4. QED
    BY <1>2, <2>2, <2>3
<1>11. QED
  BY <1>5, <1>6, <1>7, <1>8, <1>9, <1>10 DEF JarInv

(* A request is sent that is answered at once, with no token of a session, *)
(* and deletes the cookie only when that can be presented no more.         *)
LEMMA JarSendsDead ==
  ASSUME BrowserInv, NEW r \in Requests, Sends(r), UNCHANGED vars,
         NEW answer \in {NoReply, Clears, Sets(Unbound)}, Answered(r, answer),
         answer = Clears => jar \in expired \cup black \cup {Unbound}
  PROVE  JarInv'
<1>1. IInv /\ TypeOK /\ BrowserTypes /\ UnderWay /\ Unseen /\ InJar /\ Alone /\ NoneLeft
  BY DEF BrowserInv, JarInv, OrphanInv, IInv
<1>2. /\ r \notin sent /\ sent' = sent \cup {r} /\ UNCHANGED <<jar, lost, left>>
      /\ ~crossed' => ~crossed /\ sent = {}
  BY DEF Sends
<1>3. /\ answer \in [sets : BOOLEAN, token : Cookie] /\ answer.token \notin Tokens
      /\ reply'[r] = answer /\ \A q \in Requests \ {r} : reply'[q] = reply[q]
      /\ reply' \in [Requests -> [sets : BOOLEAN, token : Cookie]]
  BY <1>1, Replies DEF Answered, BrowserTypes
<1>4. UNCHANGED <<req, black, expired, delivered, sess, aborts>>
  BY DEF vars, tokenVars
<1>5. Free(r) /\ reply[r] = NoReply
  BY <1>1, <1>2 DEF UnderWay
<1>6. BrowserTypes'
  BY <1>1, <1>2, <1>3 DEF BrowserTypes
<1>7. UnderWay'
  BY <1>1, <1>2, <1>3, <1>4, <1>5 DEF UnderWay, Free, At
<1>8. Unseen'
  BY <1>1, <1>2, <1>3, <1>4 DEF Unseen
<1>9. InJar'
  <2>1. ASSUME NEW q \in sent, ~Free(q) \/ reply[q].sets
        PROVE  q \in sent' /\ (~Free(q)' \/ reply'[q].sets)
    BY <1>1, <1>2, <1>3, <1>4, <2>1 DEF Free, At, BrowserTypes
  <2>2. QED
    BY <1>1, <1>2, <1>4, <2>1 DEF InJar
<1>10. Alone'
  <2>1. SUFFICES ASSUME ~crossed'
                 PROVE  /\ \A p \in sent' : \A q \in sent' : p = q
                        /\ \A q \in Requests : req'[q].op \in {"refresh", "logout"} => req'[q].token = jar'
                        /\ \A q \in Requests : reply'[q] = Clears => jar' \in expired' \cup black' \cup {Unbound}
    BY DEF Alone
  <2>2. QED
    BY <1>1, <1>2, <1>3, <1>4, <2>1 DEF Alone
<1>11. NoneLeft'
  <2>1. SUFFICES ASSUME ~lost', ~crossed', NEW s \in Sessions, sess'[s].active
                 PROVE  sess'[s].token \in {jar'} \cup expired' \/ s \in left' \/ Comes(s)'
    BY DEF NoneLeft
  <2>2. sess[s].token \in {jar} \cup expired \/ s \in left \/ Comes(s)
    BY <1>1, <1>2, <1>4, <2>1 DEF NoneLeft
  <2>3. ~Comes(s)
    BY <1>2, <2>1 DEF Comes
  <2>4. QED
    BY <1>2, <1>4, <2>2, <2>3
<1>12. QED
  BY <1>6, <1>7, <1>8, <1>9, <1>10, <1>11 DEF JarInv

(* The browser takes a reply, or learns that there will be none.           *)
LEMMA JarReceives ==
  ASSUME BrowserInv, NEW r \in Requests, Receive(r)
  PROVE  JarInv'
<1> DEFINE u == reply[r].token
<1>1. IInv /\ TypeOK /\ Spent /\ BrowserTypes /\ UnderWay /\ Unseen /\ InJar /\ Alone /\ NoneLeft
  BY DEF BrowserInv, JarInv, OrphanInv, IInv
<1>2. /\ r \in sent /\ Free(r) /\ sent' = sent \ {r} /\ UNCHANGED <<crossed, lost>>
      /\ UNCHANGED <<req, parent, black, expired, delivered, sess, aborts>>
      /\ jar' = IF reply[r].sets THEN u ELSE jar
      /\ left' = IF reply[r].sets /\ u # NoToken /\ ~RotatedFrom(u, jar)
                 THEN left \cup {s \in Sessions : sess[s].token = jar /\ Exists(s)} ELSE left
  BY DEF Receive, Waiting, vars, tokenVars
<1>3. /\ reply'[r] = NoReply /\ \A q \in Requests \ {r} : reply'[q] = reply[q]
      /\ reply' \in [Requests -> [sets : BOOLEAN, token : Cookie]]
  BY <1>1, Replies DEF Receive, Answered, BrowserTypes
<1>4. u \in Cookie /\ reply[r].sets \in BOOLEAN
  BY <1>1 DEF BrowserTypes
<1>5. u \in Tokens => u \in delivered /\ u \notin black
  BY <1>1 DEF Unseen
<1> HIDE DEF u
<1>6. BrowserTypes'
  BY <1>1, <1>2, <1>3, <1>4 DEF BrowserTypes
<1>7. UnderWay'
  BY <1>1, <1>2, <1>3 DEF UnderWay, Free, At
<1>8. Unseen'
  BY <1>1, <1>2, <1>3, <1>4, Replies DEF Unseen, u
<1>9. InJar'
  <2>1. CASE reply[r].sets
    <3>1. jar' = u /\ black' = black /\ delivered' = delivered /\ black \subseteq Tokens
      BY <1>1, <1>2, <2>1 DEF TypeOK
    <3>2. QED
      BY <1>5, <3>1 DEF InJar
  <2>2. CASE ~reply[r].sets
    <3>1. ASSUME NEW q \in sent, ~Free(q) \/ reply[q].sets
          PROVE  q \in sent' /\ (~Free(q)' \/ reply'[q].sets)
      BY <1>1, <1>2, <1>3, <2>2, <3>1 DEF Free, At, BrowserTypes
    <3>2. QED
      BY <1>1, <1>2, <2>2, <3>1 DEF InJar
  <2>3. QED
    BY <2>1, <2>2
<1>10. ASSUME ~crossed
       PROVE  /\ sent = {r} /\ \A q \in Requests : Free(q)
              /\ \A q \in Requests : req[q].token = NoToken
              /\ \A q \in Requests \ {r} : reply[q] = NoReply
  <2>1. sent = {r}
    BY <1>1, <1>2, <1>10 DEF Alone
  <2>2. \A q \in Requests : Free(q)
    BY <1>1, <1>2, <2>1 DEF UnderWay
  <2>3. QED
    BY <1>1, <2>1, <2>2 DEF UnderWay, IInv, InHand, Free, At
<1>11. Alone'
  <2>1. SUFFICES ASSUME ~crossed
                 PROVE  /\ \A p \in sent' : \A q \in sent' : p = q
                        /\ \A q \in Requests : req'[q].op \in {"refresh", "logout"} => req'[q].token = jar'
                        /\ \A q \in Requests : reply'[q] # Clears
    BY <1>2 DEF Alone
  <2>2. QED
    BY <1>2, <1>3, <1>10, <2>1, Replies DEF Free, At
<1>12. NoneLeft'
  <2>1. SUFFICES ASSUME ~lost, ~crossed, NEW s \in Sessions, sess[s].active
                 PROVE  sess[s].token \in {jar'} \cup expired \/ s \in left'
    BY <1>2 DEF NoneLeft
  <2>2. aborts = 0 /\ sess[s].token \notin black /\ sess[s].token # NoToken
    <3>1. aborts = 0
      BY <1>1, <2>1 DEF UnderWay
    <3>2. sess[s].token # NoToken
      BY <1>1, <2>1 DEF Spent, Exists
    <3>3. QED
      BY <1>1, <1>10, <2>1, <3>1, <3>2 DEF IInv, NoDeadCurrentToken
  <2>3. sess[s].token \in {jar} \cup expired \/ s \in left \/ sess[s].token = u
    <3>1. ~(\E q \in sent : At(q, "login", "opened"))
      BY <1>2, <1>10, <2>1 DEF Free, At
    <3>2. QED
      BY <1>1, <1>10, <2>1, <3>1 DEF NoneLeft, Comes, u
  <2>4. sess[s].token = u => reply[r].sets
    BY <1>1, <2>2 DEF Unseen, u, TypeOK, SessionRow, AnyToken
  <2>5. CASE sess[s].token = jar /\ reply[r].sets
    <3>1. CASE u = NoToken
      <4>1. reply[r] = Clears
        BY <1>1, <2>5, <3>1 DEF BrowserTypes, Clears, Sets, u
      <4>2. jar \in expired \cup black \cup {Unbound}
        BY <1>1, <2>1, <4>1 DEF Alone
      <4>3. sess[s].token \in Tokens
        BY <1>1, <2>2 DEF TypeOK, SessionRow, AnyToken
      <4>4. QED
        BY <2>2, <2>5, <4>2, <4>3, Replies
    <3>2. CASE u # NoToken /\ RotatedFrom(u, jar)
      <4>1. jar \in black
        BY <1>1, <2>2, <2>5, <3>2 DEF RotatedFrom, Spent
      <4>2. QED
        BY <2>2, <2>5, <4>1
    <3>3. CASE u # NoToken /\ ~RotatedFrom(u, jar)
      BY <1>2, <2>2, <2>5, <3>3 DEF Exists
    <3>4. QED
      BY <3>1, <3>2, <3>3
  <2>6. left \subseteq left'
    BY <1>2
  <2>7. QED
    BY <1>2, <2>3, <2>4, <2>5, <2>6
<1>13. QED
  BY <1>6, <1>7, <1>8, <1>9, <1>11, <1>12 DEF JarInv

(* A reply that is lost, a request that dies. *)
LEMMA JarLoses ==
  ASSUME BrowserInv, NEW r \in Requests, LoseReply(r) \/ Dies(r)
  PROVE  JarInv'
<1>1. IInv /\ TypeOK /\ BrowserTypes /\ UnderWay /\ Unseen /\ InJar /\ Alone /\ NoneLeft
  BY DEF BrowserInv, JarInv, OrphanInv, IInv
<1>2. /\ lost' = TRUE /\ sent' = sent \ {r} /\ UNCHANGED <<jar, crossed, left>>
      /\ UNCHANGED <<black, expired, delivered>>
  BY DEF LoseReply, Dies, Abort, vars, tokenVars
<1>3. /\ reply'[r] = NoReply /\ \A q \in Requests \ {r} : reply'[q] = reply[q]
      /\ reply' \in [Requests -> [sets : BOOLEAN, token : Cookie]]
  <2>1. CASE LoseReply(r)
    BY <1>1, <2>1, Replies DEF LoseReply, Answered, BrowserTypes
  <2>2. CASE Dies(r)
    BY <1>1, <2>2 DEF Dies, Abort, UnderWay, BrowserTypes
  <2>3. QED
    BY <2>1, <2>2
<1>4. Free(r)' /\ \A q \in Requests : /\ q # r => req'[q] = req[q]
                                      /\ req'[q] = req[q] \/ (req'[q].op = "none" /\ req'[q].token = NoToken)
  <2>1. CASE LoseReply(r)
    BY <2>1 DEF LoseReply, Waiting, vars, Free, At
  <2>2. CASE Dies(r)
    BY <1>1, <2>2, FinishWrites, IdleFields DEF Dies, Abort, Free, At
  <2>3. QED
    BY <2>1, <2>2
<1>5. BrowserTypes' /\ InJar' /\ NoneLeft'
  BY <1>1, <1>2, <1>3 DEF BrowserTypes, InJar, NoneLeft
<1>6. UnderWay'
  BY <1>1, <1>2, <1>3, <1>4 DEF UnderWay, Free, At
<1>7. Unseen'
  BY <1>1, <1>2, <1>3, <1>4, Replies DEF Unseen
<1>8. Alone'
  BY <1>1, <1>2, <1>3, <1>4, Replies DEF Alone
<1>9. QED
  BY <1>5, <1>6, <1>7, <1>8 DEF JarInv

(* Other devices, and the time. *)
LEMMA JarOthers ==
  ASSUME BrowserInv, UNCHANGED <<jar, reply, sent, crossed, lost, left>>,
         UNCHANGED <<black, delivered, req, aborts>>, expired \subseteq expired',
         \A s \in Sessions : sess'[s].active => sess[s].active /\ sess'[s].token = sess[s].token
  PROVE  JarInv'
<1>1. IInv /\ TypeOK /\ BrowserTypes /\ UnderWay /\ Unseen /\ InJar /\ Alone /\ NoneLeft
  BY DEF BrowserInv, JarInv, OrphanInv, IInv
<1>2. BrowserTypes' /\ UnderWay' /\ Unseen' /\ InJar' /\ Alone'
  BY <1>1 DEF BrowserTypes, UnderWay, Unseen, InJar, Alone, Free, At
<1>3. NoneLeft'
  <2>1. SUFFICES ASSUME ~lost, ~crossed, NEW s \in Sessions, sess'[s].active
                 PROVE  sess'[s].token \in {jar} \cup expired' \/ s \in left \/ Comes(s)'
    BY DEF NoneLeft
  <2>2. sess[s].token \in {jar} \cup expired \/ s \in left \/ Comes(s)
    BY <1>1, <2>1 DEF NoneLeft
  <2>3. Comes(s) => Comes(s)'
    BY <2>1 DEF Comes, At
  <2>4. QED
    BY <2>1, <2>2, <2>3
<1>4. QED
  BY <1>2, <1>3 DEF JarInv

(* What the server does for a request: it goes on with it, or answers it,  *)
(* to delete the cookies or with a token nobody has seen.                  *)
GoesOn(r) ==
  /\ ~Free(r)' /\ req'[r].op = req[r].op /\ req'[r].token = req[r].token
  /\ UNCHANGED <<reply, delivered>>
EndsCleared(r) ==
  /\ req'[r] = Idle /\ reply' = [reply EXCEPT ![r] = Clears]
  /\ req[r].op \in {"refresh", "logout"} /\ req[r].token \in black
  /\ UNCHANGED <<black, delivered>>
EndsWith(r, f) ==
  /\ req'[r] = Idle /\ reply' = [reply EXCEPT ![r] = Sets(f)]
  /\ f = req[r].fresh /\ f \notin delivered /\ f \notin black
  /\ delivered' = delivered \cup {f} /\ UNCHANGED black

LEMMA Served ==
  ASSUME BrowserInv, NEW r \in Requests, Serve(r)
  PROVE  /\ ~Free(r) /\ \A q \in Requests \ {r} : req'[q] = req[q]
         /\ UNCHANGED <<expired, aborts>>
         /\ black \subseteq black' /\ black' \subseteq black \cup {req[r].token}
         /\ GoesOn(r) \/ EndsCleared(r) \/ \E f \in Tokens : EndsWith(r, f)
<1>1. IInv /\ TypeOK /\ Spent
  BY DEF BrowserInv, OrphanInv, IInv
<1>2. reply' = IF req'[r] = Idle THEN [reply EXCEPT ![r] = AnswerTo(r)] ELSE reply
  BY DEF Serve
<1>3. ASSUME NEW op, NEW at, NEW t, NEW f, NEW s, Put(r, Doing(op, at, t, f, s)), op # "none"
      PROVE  /\ req'[r].op = op /\ req'[r].token = t /\ ~Free(r)' /\ req'[r] # Idle
             /\ \A q \in Requests \ {r} : req'[q] = req[q]
  <2>1. req'[r] = Doing(op, at, t, f, s) /\ \A q \in Requests \ {r} : req'[q] = req[q]
    BY <1>1, <1>3 DEF Put, TypeOK
  <2>2. Doing(op, at, t, f, s).op = op /\ Doing(op, at, t, f, s).token = t
    BY DEF Doing
  <2>3. QED
    BY <1>3, <2>1, <2>2, IdleFields DEF Free, At
<1>4. ASSUME Finish(r)
      PROVE  /\ req'[r] = Idle /\ reply' = [reply EXCEPT ![r] = AnswerTo(r)]
             /\ \A q \in Requests \ {r} : req'[q] = req[q]
  BY <1>1, <1>2, <1>4, FinishWrites
<1>5. req[r].op # "none" => ~Free(r)
  BY DEF Free, At
<1>6. CASE LoginOpensSession(r)
  <2>1. PICK s \in Sessions : Put(r, Doing("login", "opened", NoToken, req[r].fresh, s))
    BY <1>6 DEF LoginOpensSession
  <2>2. req[r].op = "login" /\ req[r].token = NoToken /\ UNCHANGED <<black, expired, delivered, aborts>>
    BY <1>1, <1>6 DEF LoginOpensSession, tokenVars, At, IInv, InHand
  <2>3. QED
    BY <1>2, <1>3, <1>5, <2>1, <2>2 DEF GoesOn
<1>7. ASSUME LoginAnswers(r) \/ RefreshStores(r)
      PROVE  /\ ~Free(r) /\ \A q \in Requests \ {r} : req'[q] = req[q]
             /\ UNCHANGED <<expired, aborts, black>>
             /\ \E f \in Tokens : EndsWith(r, f)
  <2>1. /\ req[r].op = "login" \/ (req[r].op = "refresh" /\ req[r].at = "found")
        /\ Finish(r) /\ delivered' = delivered \cup {req[r].fresh}
        /\ UNCHANGED <<black, expired, aborts>>
    BY <1>7 DEF LoginAnswers, RefreshStores, At
  <2>2. /\ req[r].fresh \in Tokens /\ req[r].fresh \notin delivered /\ req[r].fresh \notin black
    BY <1>1, <2>1 DEF IInv, InHand, FreshIsNew, TypeOK, SpentWereDelivered
  <2>3. AnswerTo(r) = Sets(req[r].fresh)
    BY <2>1 DEF AnswerTo
  <2>4. EndsWith(r, req[r].fresh)
    BY <1>4, <2>1, <2>2, <2>3 DEF EndsWith
  <2>5. QED
    BY <1>4, <1>5, <2>1, <2>2, <2>4
<1>8. CASE RefreshRotates(r)
  <2>1. PICK t \in Tokens : Put(r, Doing("refresh", "rotated", req[r].token, t, NoSession))
    BY <1>8 DEF RefreshRotates
  <2>2. req[r].op = "refresh" /\ UNCHANGED <<expired, delivered, aborts>> /\ black' = black \cup {req[r].token}
    BY <1>8 DEF RefreshRotates, At
  <2>3. QED
    BY <1>2, <1>3, <1>5, <2>1, <2>2 DEF GoesOn
<1>9. ASSUME Finish(r), req[r].op \in {"refresh", "logout"}, req[r].at # "found", req[r].token \in black,
             UNCHANGED <<black, delivered>>
      PROVE  EndsCleared(r)
  <2>1. AnswerTo(r) = Clears
    BY <1>9 DEF AnswerTo
  <2>2. QED
    BY <1>4, <1>9, <2>1 DEF EndsCleared
<1>10. CASE RefreshLooksUp(r)
  <2>1. req[r].op = "refresh" /\ req[r].at = "rotated" /\ UNCHANGED <<black, expired, delivered, aborts>>
    BY <1>10 DEF RefreshLooksUp, At, tokenVars
  <2>2. req[r].token \in black
    BY <1>1, <2>1 DEF Spent
  <2>3. CASE Finish(r)
    BY <1>4, <1>5, <1>9, <2>1, <2>2, <2>3
  <2>4. CASE ~Finish(r)
    <3>1. PICK s \in Sessions, at \in {"revoking", "found"} :
            Put(r, Doing("refresh", at, req[r].token, req[r].fresh, s))
      BY <1>10, <2>4 DEF RefreshLooksUp, ActiveWith
    <3>2. QED
      BY <1>2, <1>3, <1>5, <2>1, <3>1 DEF GoesOn
  <2>5. QED
    BY <2>3, <2>4
<1>11. CASE LogoutBlacklists(r)
  <2>1. /\ Put(r, Doing("logout", "blacklisted", req[r].token, NoToken, NoSession))
        /\ req[r].op = "logout" /\ UNCHANGED <<expired, delivered, aborts>> /\ black' = black \cup {req[r].token}
    BY <1>11 DEF LogoutBlacklists, At
  <2>2. QED
    BY <1>2, <1>3, <1>5, <2>1 DEF GoesOn
<1>12. CASE LogoutLooksUp(r)
  <2>1. req[r].op = "logout" /\ req[r].at = "blacklisted" /\ UNCHANGED <<black, expired, delivered, aborts>>
    BY <1>12 DEF LogoutLooksUp, At, tokenVars
  <2>2. req[r].token \in black
    BY <1>1, <2>1 DEF IInv, InHand
  <2>3. CASE Finish(r)
    BY <1>4, <1>5, <1>9, <2>1, <2>2, <2>3
  <2>4. CASE \E s \in Sessions : Put(r, Doing("logout", "revoking", req[r].token, NoToken, s))
    BY <1>2, <1>3, <1>5, <2>1, <2>4 DEF GoesOn
  <2>5. QED
    BY <1>12, <2>3, <2>4 DEF LogoutLooksUp, ActiveWith
<1>13. CASE RevokesFound(r)
  <2>1. req[r].at = "revoking" /\ Finish(r) /\ UNCHANGED <<black, expired, delivered, aborts>>
    BY <1>13 DEF RevokesFound, tokenVars
  <2>2. req[r].op \in {"refresh", "logout"} /\ req[r].token \in black
    BY <1>1, <2>1 DEF IInv, InHand, Spent
  <2>3. QED
    BY <1>4, <1>5, <1>9, <2>1, <2>2
<1>14. QED
  BY <1>6, <1>7, <1>8, <1>10, <1>11, <1>12, <1>13 DEF Serve

(* What it does to the sessions: one keeps its token, is opened, or has    *)
(* the token of the answer.                                                *)
LEMMA ServedSessions ==
  ASSUME BrowserInv, NEW r \in Requests, Serve(r), NEW s \in Sessions, sess'[s].active
  PROVE  \/ /\ sess[s].active /\ sess'[s].token = sess[s].token
            /\ At(r, "login", "opened") /\ req[r].session = s => reply'[r].token = sess'[s].token
         \/ At(r, "login", "opened")' /\ req'[r].session = s
         \/ reply'[r].token = sess'[s].token
<1>1. IInv /\ TypeOK /\ Opening /\ BrowserTypes
  BY DEF BrowserInv, OrphanInv, IInv, JarInv
<1>2. reply' = IF req'[r] = Idle THEN [reply EXCEPT ![r] = AnswerTo(r)] ELSE reply
  BY DEF Serve
<1>3. sess[s] \in SessionRow /\ NoToken \notin Tokens
  BY <1>1, NoTokenAssumption DEF TypeOK
<1>4. CASE LoginOpensSession(r)
  <2>1. PICK u \in Sessions :
          /\ sess' = [sess EXCEPT ![u] = [token |-> req[r].fresh, active |-> TRUE, revokedAt |-> FALSE, opened |-> pwd]]
          /\ Put(r, Doing("login", "opened", NoToken, req[r].fresh, u))
    BY <1>4 DEF LoginOpensSession, PutSession
  <2>2. At(r, "login", "authenticated")
    BY <1>4 DEF LoginOpensSession
  <2>3. req'[r].op = "login" /\ req'[r].at = "opened" /\ req'[r].session = u
    BY <1>1, <2>1 DEF Put, TypeOK, Doing
  <2>4. s # u => sess'[s] = sess[s]
    BY <1>1, <2>1 DEF TypeOK
  <2>5. QED
    BY <2>2, <2>3, <2>4 DEF At
<1>5. CASE LoginAnswers(r)
  <2>1. At(r, "login", "opened") /\ UNCHANGED sess /\ Finish(r)
    BY <1>5 DEF LoginAnswers
  <2>2. reply'[r] = AnswerTo(r) /\ AnswerTo(r) = Sets(req[r].fresh) /\ req[r].fresh \in Tokens
    BY <1>1, <1>2, <2>1, FinishWrites DEF AnswerTo, At, BrowserTypes, IInv, InHand, FreshIsNew, TypeOK
  <2>3. req[r].session = s => sess[s].token = req[r].fresh
    BY <1>1, <2>1 DEF Opening
  <2>4. QED
    BY <2>1, <2>2, <2>3, Replies
<1>6. CASE RefreshStores(r)
  <2>1. /\ At(r, "refresh", "found") /\ Finish(r)
        /\ sess' = [sess EXCEPT ![req[r].session] = [sess[req[r].session] EXCEPT !.token = req[r].fresh]]
    BY <1>6 DEF RefreshStores, PutSession
  <2>2. reply'[r] = AnswerTo(r) /\ AnswerTo(r) = Sets(req[r].fresh) /\ req[r].fresh \in Tokens
    BY <1>1, <1>2, <2>1, FinishWrites DEF AnswerTo, At, BrowserTypes, IInv, InHand, FreshIsNew, TypeOK
  <2>3. CASE s = req[r].session
    <3>1. sess'[s].token = req[r].fresh
      BY <1>1, <1>3, <2>1, <2>3 DEF TypeOK, SessionRow
    <3>2. QED
      BY <2>2, <3>1, Replies
  <2>4. CASE s # req[r].session
    BY <1>1, <2>1, <2>4 DEF TypeOK, At
  <2>5. QED
    BY <2>3, <2>4
<1>7. CASE RefreshRotates(r) \/ RefreshLooksUp(r) \/ LogoutBlacklists(r) \/ LogoutLooksUp(r)
  <2>1. UNCHANGED sess /\ ~At(r, "login", "opened")
    BY <1>7 DEF RefreshRotates, RefreshLooksUp, LogoutBlacklists, LogoutLooksUp, At
  <2>2. QED
    BY <2>1
<1>8. CASE RevokesFound(r)
  <2>1. req[r].at = "revoking" /\ sess' = [sess EXCEPT ![req[r].session] = Revoked(sess[req[r].session])]
    BY <1>8 DEF RevokesFound, PutSession
  <2>2. ~At(r, "login", "opened") /\ Revoked(sess[req[r].session]).active = FALSE
    BY <2>1 DEF At, Revoked
  <2>3. s # req[r].session /\ sess'[s] = sess[s]
    BY <1>1, <2>1, <2>2 DEF TypeOK
  <2>4. QED
    BY <2>2, <2>3
<1>9. QED
  BY <1>4, <1>5, <1>6, <1>7, <1>8 DEF Serve

LEMMA JarServes ==
  ASSUME BrowserInv, IInv', NEW r \in Requests, Serve(r)
  PROVE  JarInv'
<1>1. IInv /\ TypeOK /\ Spent /\ BrowserTypes /\ UnderWay /\ Unseen /\ InJar /\ Alone /\ NoneLeft
  BY DEF BrowserInv, JarInv, OrphanInv, IInv
<1>2. /\ ~Free(r) /\ \A q \in Requests \ {r} : req'[q] = req[q]
      /\ UNCHANGED <<expired, aborts>>
      /\ black \subseteq black' /\ black' \subseteq black \cup {req[r].token}
      /\ GoesOn(r) \/ EndsCleared(r) \/ \E f \in Tokens : EndsWith(r, f)
  BY Served
<1>3. UNCHANGED <<jar, sent, crossed, lost, left>>
  BY DEF Serve
<1>4. r \in sent /\ reply[r] = NoReply
  BY <1>1, <1>2 DEF UnderWay
<1>5. /\ \A q \in Requests \ {r} : reply'[q] = reply[q]
      /\ reply' \in [Requests -> [sets : BOOLEAN, token : Cookie]]
      /\ Free(r)' => reply'[r].sets
      /\ ~Free(r)' => reply'[r] = NoReply
      /\ delivered \subseteq delivered'
      /\ req'[r].op \in {"refresh", "logout"} => req'[r].op = req[r].op /\ req'[r].token = req[r].token
      /\ req'[r].token \in {req[r].token, NoToken}
  <2>1. CASE GoesOn(r)
    BY <1>1, <1>4, <2>1 DEF GoesOn, BrowserTypes
  <2>2. CASE EndsCleared(r)
    BY <1>1, <2>2, Replies, IdleFields DEF EndsCleared, BrowserTypes, Free, At
  <2>3. CASE \E f \in Tokens : EndsWith(r, f)
    BY <1>1, <2>3, Replies, IdleFields DEF EndsWith, BrowserTypes, Free, At
  <2>4. QED
    BY <1>2, <2>1, <2>2, <2>3
<1>6. BrowserTypes'
  BY <1>1, <1>3, <1>5 DEF BrowserTypes
<1>7. UnderWay'
  BY <1>1, <1>2, <1>3, <1>4, <1>5 DEF UnderWay, Free, At
<1>8. Unseen'
  <2>1. ASSUME NEW q \in Requests, reply[q].token \in Tokens
        PROVE  /\ reply[q].token \in delivered' /\ reply[q].token \notin black' /\ reply[q].token # jar
               /\ \A p \in Requests : req'[p].token # reply[q].token
    BY <1>1, <1>2, <1>5, <2>1, Replies DEF Unseen
  <2>2. CASE GoesOn(r) \/ EndsCleared(r)
    <3>1. reply'[r].token \notin Tokens
      BY <1>1, <1>4, <2>2, Replies DEF GoesOn, EndsCleared, BrowserTypes
    <3>2. QED
      BY <1>1, <1>3, <1>5, <2>1, <3>1 DEF Unseen
  <2>3. ASSUME NEW f \in Tokens, EndsWith(r, f)
        PROVE  Unseen'
    <3>1. reply'[r].token = f /\ reply'[r].sets
      BY <1>1, <2>3, Replies DEF EndsWith, BrowserTypes
    <3>2. f \in delivered' /\ f \notin black' /\ f # jar /\ f \notin delivered
      BY <1>1, <2>3 DEF EndsWith, InJar
    <3>3. \A q \in Requests : req[q].token # f
      BY <1>1, <2>3, <3>2, Replies DEF IInv, InHand
    <3>4. \A q \in Requests : req'[q].token # f
      BY <1>2, <1>5, <3>3, Replies
    <3>5. \A q \in Requests : reply[q].token # f
      BY <1>1, <2>3, <3>2 DEF Unseen
    <3>6. QED
      BY <1>1, <1>3, <1>5, <2>1, <3>1, <3>2, <3>4, <3>5 DEF Unseen
  <2>4. QED
    BY <1>2, <2>2, <2>3
<1>9. InJar'
  <2>1. ~Free(r)' \/ reply'[r].sets
    BY <1>5
  <2>2. QED
    BY <1>1, <1>3, <1>4, <1>5, <2>1 DEF InJar
<1>10. Alone'
  <2>1. SUFFICES ASSUME ~crossed
                 PROVE  /\ \A p \in sent : \A q \in sent : p = q
                        /\ \A q \in Requests : req'[q].op \in {"refresh", "logout"} => req'[q].token = jar
                        /\ \A q \in Requests : reply'[q] = Clears => jar \in expired \cup black' \cup {Unbound}
    BY <1>2, <1>3 DEF Alone
  <2>2. \A q \in Requests : req'[q].op \in {"refresh", "logout"} => req'[q].token = jar
    BY <1>1, <1>2, <1>5, <2>1 DEF Alone
  <2>3. reply'[r] = Clears => jar \in black'
    <3>1. CASE GoesOn(r)
      BY <1>4, <3>1, Replies DEF GoesOn
    <3>2. CASE EndsCleared(r)
      BY <1>1, <2>1, <3>2 DEF EndsCleared, Alone
    <3>3. ASSUME NEW f \in Tokens, EndsWith(r, f)
          PROVE  reply'[r] # Clears
      BY <1>1, <3>3, Replies DEF EndsWith, BrowserTypes
    <3>4. QED
      BY <1>2, <3>1, <3>2, <3>3
  <2>4. QED
    BY <1>1, <1>2, <1>5, <2>1, <2>2, <2>3 DEF Alone
<1>11. NoneLeft'
  <2>1. SUFFICES ASSUME ~lost, ~crossed, NEW s \in Sessions, sess'[s].active
                 PROVE  sess'[s].token \in {jar} \cup expired \/ s \in left \/ Comes(s)'
    BY <1>2, <1>3 DEF NoneLeft
  <2>2. (At(r, "login", "opened")' /\ req'[r].session = s) \/ reply'[r].token = sess'[s].token => Comes(s)'
    BY <1>3, <1>4 DEF Comes
  <2>3. CASE /\ sess[s].active /\ sess'[s].token = sess[s].token
             /\ At(r, "login", "opened") /\ req[r].session = s => reply'[r].token = sess'[s].token
    <3>1. sess[s].token \in {jar} \cup expired \/ s \in left \/ Comes(s)
      BY <1>1, <2>1, <2>3 DEF NoneLeft
    <3>2. CASE Comes(s)
      <4>1. PICK q \in sent : \/ At(q, "login", "opened") /\ req[q].session = s
                              \/ reply[q].token = sess[s].token
        BY <3>2 DEF Comes
      <4>2. CASE q = r
        <5>1. reply[r].token # sess[s].token
          BY <1>1, <1>4, <2>3, Replies DEF Spent, Exists
        <5>2. QED
          BY <2>2, <2>3, <4>1, <4>2, <5>1
      <4>3. CASE q # r
        <5>1. q \in Requests \ {r}
          BY <1>1, <4>3 DEF BrowserTypes
        <5>2. req'[q] = req[q] /\ reply'[q] = reply[q]
          BY <1>2, <1>5, <5>1
        <5>3. QED
          BY <1>3, <2>3, <4>1, <5>2 DEF Comes, At
      <4>4. QED
        BY <4>2, <4>3
    <3>3. QED
      BY <2>3, <3>1, <3>2
  <2>4. QED
    BY <2>1, <2>2, <2>3, ServedSessions
<1>12. QED
  BY <1>6, <1>7, <1>8, <1>9, <1>10, <1>11 DEF JarInv

LEMMA BrowserStep == BrowserInv /\ [BrowserNext]_<<vars, browserVars>> => BrowserInv'
<1>1. SUFFICES ASSUME BrowserInv, [BrowserNext]_<<vars, browserVars>>
               PROVE  BrowserInv'
  OBVIOUS
<1>2. OrphanInv' /\ Spent' /\ IInv' /\ IInv /\ TypeOK
  <2>1. [Next]_vars
    BY <1>1, BrowserStepsServe DEF vars
  <2>2. OrphanInv /\ Spent
    BY <1>1 DEF BrowserInv
  <2>3. QED
    BY <2>1, <2>2, OrphansNext, SpentNext DEF OrphanInv, IInv
<1>3. ASSUME NEW r \in Requests, SendLogin(r)
      PROVE  JarInv'
  <2>1. PICK t \in Tokens : Put(r, Doing("login", "authenticated", NoToken, t, NoSession))
    BY <1>3 DEF SendLogin, LoginAuthenticates
  <2>2. Sends(r) /\ UNCHANGED reply /\ UNCHANGED <<black, expired, delivered, sess, aborts>>
    BY <1>3 DEF SendLogin, LoginAuthenticates
  <2>3. PICK new : new = Doing("login", "authenticated", NoToken, t, NoSession)
    OBVIOUS
  <2>4. Put(r, new) /\ new.op = "login" /\ new.at = "authenticated" /\ new.token = NoToken
    BY <2>1, <2>3 DEF Doing
  <2>5. QED
    BY <1>1, <1>2, <2>2, <2>4, JarSends
<1>4. ASSUME NEW r \in Requests, NEW op \in {"refresh", "logout"}, SendCookie(r, op)
      PROVE  JarInv'
  <2>1. /\ Sends(r) /\ UNCHANGED reply /\ UNCHANGED <<black, expired, delivered, sess, aborts>>
        /\ jar \in Tokens /\ Put(r, Doing(op, "checked", jar, NoToken, NoSession))
    BY <1>4 DEF SendCookie, PresentToken, tokenVars
  <2>2. PICK new : new = Doing(op, "checked", jar, NoToken, NoSession)
    OBVIOUS
  <2>3. Put(r, new) /\ new.op = op /\ new.at = "checked" /\ new.token = jar
    BY <2>1, <2>2 DEF Doing
  <2>4. QED
    BY <1>1, <1>2, <2>1, <2>3, JarSends
<1>5. ASSUME NEW r \in Requests, NEW op \in {"refresh", "logout"}, SendDeadCookie(r, op)
      PROVE  JarInv'
  <2>1. Sends(r) /\ UNCHANGED vars /\ jar \in expired \cup black \cup {Unbound}
    BY <1>5 DEF SendDeadCookie
  <2>2. PICK answer \in {NoReply, Clears, Sets(Unbound)} : Answered(r, answer)
    BY <1>5 DEF SendDeadCookie
  <2>3. QED
    BY <1>1, <2>1, <2>2, JarSendsDead
<1>6. ASSUME NEW r \in Requests, ObtainPair(r)
      PROVE  JarInv'
  <2>1. Sends(r) /\ UNCHANGED vars /\ Answered(r, Sets(Unbound)) /\ Sets(Unbound) # Clears
    BY <1>6, Replies DEF ObtainPair
  <2>2. QED
    BY <1>1, <2>1, JarSendsDead
<1>7. ASSUME NEW r \in Requests, Serve(r) \/ Receive(r) \/ LoseReply(r) \/ Dies(r)
      PROVE  JarInv'
  BY <1>1, <1>2, <1>7, JarServes, JarReceives, JarLoses
<1>8. ASSUME ServeOthers
      PROVE  JarInv'
  <2>1. UNCHANGED <<jar, reply, sent, crossed, lost, left>>
    BY <1>8 DEF ServeOthers, browserVars
  <2>2. ASSUME NEW s \in Sessions, RevokeSession(s)
        PROVE  JarInv'
    <3>1. UNCHANGED <<black, delivered, req, aborts, expired>> /\ sess' = [sess EXCEPT ![s] = Revoked(sess[s])]
      BY <2>2 DEF RevokeSession, tokenVars, PutSession
    <3>2. \A u \in Sessions : sess'[u].active => sess[u].active /\ sess'[u].token = sess[u].token
      BY <1>2, <3>1 DEF TypeOK, Revoked
    <3>3. QED
      BY <1>1, <2>1, <3>1, <3>2, JarOthers
  <2>3. ASSUME NEW t \in Tokens, Expire(t)
        PROVE  JarInv'
    BY <1>1, <2>1, <2>3, JarOthers DEF Expire
  <2>4. QED
    BY <1>8, <2>2, <2>3 DEF ServeOthers
<1>9. ASSUME UNCHANGED <<vars, browserVars>>
      PROVE  JarInv'
  BY <1>1, <1>9, JarOthers DEF vars, tokenVars, browserVars
<1>10. JarInv'
  BY <1>1, <1>3, <1>4, <1>5, <1>6, <1>7, <1>8, <1>9 DEF BrowserNext
<1>11. QED
  BY <1>2, <1>10 DEF BrowserInv

(* What the proof of the cookie rests on. *)
THEOREM BrowserInductive == BrowserSpec => []BrowserInv
BY JarInitially, BrowserStep, PTL DEF BrowserSpec

(* When the replies of a browser have arrived, its cookie is the token of  *)
(* its session and can be refreshed, and a browser that sends one request  *)
(* at a time leaves no session in force behind; with the exceptions the    *)
(* property names, for any number of tabs, tokens and sessions.            *)
THEOREM BrowserAgrees == BrowserSpec => []CookiesAgree
<1>1. BrowserInv => CookiesAgree
  <2>1. SUFFICES ASSUME BrowserInv
                 PROVE  CookieInStep /\ NothingLeftBehind
    BY DEF CookiesAgree
  <2>2. OrphansAreTwins /\ InJar /\ NoneLeft
    BY <2>1 DEF BrowserInv, OrphanInv, JarInv
  <2>3. CookieInStep
    BY <2>2 DEF CookieInStep, Quiet, InJar, OrphansAreTwins
  <2>4. NothingLeftBehind
    BY <2>2 DEF NothingLeftBehind, Quiet, NoneLeft, Comes
  <2>5. QED
    BY <2>3, <2>4
<1>2. QED
  BY <1>1, BrowserInductive, PTL
=============================================================================
