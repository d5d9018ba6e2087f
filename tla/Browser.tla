-------------------------------- MODULE Browser --------------------------------
(***************************************************************************)
(* A browser that keeps its refresh token in a cookie (the cookie helpers  *)
(* and the login, refresh and logout views of users/api/v1/auth_views.py), *)
(* on top of DeviceSessions.  Its tabs send requests at the same time; the *)
(* replies, which set or delete the cookies, arrive in any order or never. *)
(***************************************************************************)
EXTENDS DeviceSessions

CONSTANT Unbound  \* tokens of the token endpoint, which opens no session

ASSUME UnboundAssumption == Unbound \notin Tokens \cup {NoToken}

VARIABLES
  jar,      \* the refresh_token cookie
  reply,    \* reply[r]: the answer to the request in slot r, under way
  sent,     \* slots with a request of the browser that is not answered
  crossed,  \* history: two of its requests were under way at once
  lost,     \* history: a reply was lost, or a request answered with an error
  left      \* history: sessions whose token the browser wrote over

browserVars == <<jar, reply, sent, crossed, lost, left>>

Cookie == Tokens \cup {NoToken, Unbound}
NoReply == [sets |-> FALSE, token |-> NoToken]
Sets(t) == [sets |-> TRUE, token |-> t]     \* _set_auth_cookies
Clears == Sets(NoToken)                     \* _clear_auth_cookies

\* The slot is taken by a request that finds `sent` other requests under way.
Sends(r) ==
  /\ r \notin sent
  /\ sent' = sent \cup {r} /\ crossed' = (crossed \/ sent # {})
  /\ UNCHANGED <<jar, lost, left>>

Answered(r, answer) == reply' = [reply EXCEPT ![r] = answer]

-----------------------------------------------------------------------------
(* The browser sends. *)

\* LoginView, Verify2FALoginView: also when there are cookies.
SendLogin(r) == Sends(r) /\ LoginAuthenticates(r) /\ UNCHANGED reply

\* CustomTokenRefreshView and LogoutView take the token from the cookie.
SendCookie(r, op) == Sends(r) /\ jar \in Tokens /\ PresentToken(r, op, jar) /\ UNCHANGED reply

\* The token is expired or blacklisted: the refresh is refused by an exception
\* and leaves the cookies; the logout deletes them whatever it answers.  One of
\* no session is rotated and then not recognised, or logged out.
SendDeadCookie(r, op) ==
  /\ Sends(r) /\ Free(r)
  /\ jar \in expired \cup black \cup {Unbound}
  /\ Answered(r, IF op = "refresh" /\ jar # Unbound THEN NoReply ELSE Clears)
  /\ UNCHANGED vars

\* CustomTokenObtainPairView answers with tokens and opens no session.
ObtainPair(r) ==
  /\ Sends(r) /\ Free(r)
  /\ Answered(r, Sets(Unbound))
  /\ UNCHANGED vars

-----------------------------------------------------------------------------
(* The server works, and answers when it is done. *)

(* Mutant of AnswerTo: the presented token is set again. *)
Mut_AnswerTo_Presented(r) ==
  IF req[r].op = "login" THEN Sets(req[r].fresh)
  ELSE IF req[r].at = "found" THEN Sets(req[r].token) ELSE Clears

\* A login or a refresh that succeeds sets its new token; a refresh that finds
\* no session, and every logout, deletes the cookies.
AnswerTo(r) ==
  IF req[r].op = "login" \/ req[r].at = "found" THEN Sets(req[r].fresh) ELSE Clears

Serve(r) ==
  /\ \/ LoginOpensSession(r) \/ LoginAnswers(r)
     \/ RefreshRotates(r) \/ RefreshLooksUp(r) \/ RefreshStores(r)
     \/ LogoutBlacklists(r) \/ LogoutLooksUp(r) \/ RevokesFound(r)
  /\ reply' = IF req'[r] = Idle THEN [reply EXCEPT ![r] = AnswerTo(r)] ELSE reply
  /\ UNCHANGED <<jar, sent, crossed, lost, left>>

\* Another device revokes the session, as a password change revokes them all;
\* neither sets a cookie here.
ServeOthers ==
  /\ \/ \E s \in Sessions : RevokeSession(s)
     \/ \E t \in Tokens : Expire(t)
  /\ UNCHANGED browserVars

-----------------------------------------------------------------------------
(* The browser receives. *)

RotatedFrom(t, u) == t \in Tokens /\ parent[t] = u

Waiting(r) == r \in sent /\ Free(r)

Receive(r) ==
  /\ Waiting(r)
  /\ jar' = IF reply[r].sets THEN reply[r].token ELSE jar
  /\ left' = IF reply[r].sets /\ reply[r].token # NoToken /\ ~RotatedFrom(reply[r].token, jar)
             THEN left \cup {s \in Sessions : sess[s].token = jar /\ Exists(s)} ELSE left
  /\ sent' = sent \ {r} /\ Answered(r, NoReply)
  /\ UNCHANGED <<vars, crossed, lost>>

\* The connection breaks, or the process serving the request dies.
LoseReply(r) ==
  /\ Waiting(r) /\ reply[r].sets
  /\ lost' = TRUE /\ sent' = sent \ {r} /\ Answered(r, NoReply)
  /\ UNCHANGED <<vars, jar, crossed, left>>

Dies(r) ==
  /\ r \in sent /\ Abort(r)
  /\ lost' = TRUE /\ sent' = sent \ {r}
  /\ UNCHANGED <<jar, reply, crossed, left>>

BrowserStarts(behind) ==
  /\ Init
  /\ jar = NoToken /\ reply = [r \in Requests |-> NoReply] /\ sent = {}
  /\ crossed = FALSE /\ lost = behind /\ left = {}

BrowserInit == BrowserStarts(FALSE)

BrowserNext ==
  \/ \E r \in Requests :
       \/ SendLogin(r) \/ ObtainPair(r)
       \/ \E op \in {"refresh", "logout"} : SendCookie(r, op) \/ SendDeadCookie(r, op)
       \/ Serve(r) \/ Receive(r) \/ LoseReply(r) \/ Dies(r)
  \/ ServeOthers

BrowserSpec == BrowserInit /\ [][BrowserNext]_<<vars, browserVars>>

-----------------------------------------------------------------------------
(* Properties. *)

Quiet == sent = {}

\* When every reply has arrived, the cookie is the current token of its session
\* and, if that is in force, can be refreshed; unless a reply was lost, the
\* tokens came from the token endpoint, or two tabs refreshed the same token.
CookieInStep ==
  Quiet /\ ~lost /\ jar \in Tokens =>
    \/ \E s \in Sessions : sess[s].token = jar /\ (sess[s].active => jar \notin black)
    \/ Twinned(jar)

\* A browser that sends one request at a time leaves no session in force behind:
\* each one's token is in its cookie, except those it logged in over and those
\* whose token is expired, which a logout cannot present any more.
NothingLeftBehind ==
  Quiet /\ ~lost /\ ~crossed =>
    \A s \in Sessions : sess[s].active => sess[s].token \in {jar} \cup expired \/ s \in left

\* The browser holds the token of the session it has, and of no other.
CookiesAgree == CookieInStep /\ NothingLeftBehind
=============================================================================
