---------------------------- MODULE SecurityAlerts ----------------------------
(***************************************************************************)
(* The alerts one user gets (apps/security/utils.py).                      *)
(*                                                                         *)
(* A login opens a session and publishes user.login_succeeded; the handler *)
(* queues a background task, and a worker examines the login: how many     *)
(* sessions are recent, whether the device is known, whether its address   *)
(* is.  Each statement commits by itself.  A run that fails is retried     *)
(* from its start (TaskQueue); one that dies, or whose completion cannot   *)
(* be saved, is never run again.  Password-reset requests are logged and   *)
(* alerted on when there were many.                                        *)
(***************************************************************************)
EXTENDS Naturals, FiniteSets

CONSTANTS
    Logins,        \* bound: the logins of a behaviour
    Devices, Addresses,
    Requests,      \* bound: the password-reset requests
    MaxTries,      \* TaskJob.max_attempts
    ManySessions,  \* recent sessions that are not yet too many
    SessionWindow, \* the five minutes
    Threshold, EventWindow, \* of alert_on_repeated_security_events
    Retention,     \* SECURITY_EVENT_RETENTION_DAYS
    MaxTime        \* bound: the last value of the clock

ASSUME AlertsAssumption ==
    /\ "noRow" \notin Addresses /\ IsFiniteSet(Requests)
    /\ Threshold \in Nat \ {0} /\ EventWindow \in Nat

VARIABLES
    time,    \* the clock
    login,   \* per login: its device and address, when it opened its session
             \* (0: not yet) and how far its examination is
    known,   \* KnownDevice: per device its address, if there is a row
    request, \* per reset request: how far it is and when it was logged
    alerts,  \* SecurityAlert rows
    \* history, read by no action
    purged,  \* alerts deleted after the user had resolved them
    cut      \* <<device, address>> stored by a run that ended before its alert

alertVars == <<time, login, known, request, alerts, purged, cut>>

\* SecurityAlert: its kind, what it is about, who made it and whether the user
\* resolved it.  run tells the retries of one login apart.
SecurityAlert ==
    [kind : {"sessions", "device", "address", "events"},
     about : (Devices \X Addresses) \cup {<<>>},
     by : Logins \cup Requests, run : 0..MaxTries, at : 1..MaxTime, resolved : BOOLEAN]

CreateAlert(kind, about, by, run) ==
    alerts' = alerts \cup
        {[kind |-> kind, about |-> about, by |-> by, run |-> run, at |-> time, resolved |-> FALSE]}

-----------------------------------------------------------------------------
(* Logging in. *)

Reaches(k, stage) == login' = [login EXCEPT ![k].at = stage]

\* _finalize_login opens the session, then publishes the event.
OpenSession(k, d, a) ==
    /\ login[k].at = "none"
    /\ login' = [login EXCEPT ![k] = [device |-> d, address |-> a, opened |-> time,
                                      at |-> "publish", tries |-> 0]]
    /\ UNCHANGED <<time, known, request, alerts, purged, cut>>

\* publish_event: no transaction is open, the handler runs at once.  If it
\* raises, the login fails, and its session stays unexamined.
Publish(k) ==
    /\ login[k].at = "publish"
    /\ Reaches(k, "queued") \/ Reaches(k, "unheard")
    /\ UNCHANGED <<time, known, request, alerts, purged, cut>>

-----------------------------------------------------------------------------
(* process_successful_login, by a worker that claimed the job. *)

RecentSessions ==
    {k \in Logins : login[k].opened # 0 /\ login[k].opened + SessionWindow >= time}

Claim(k) ==
    /\ login[k].at = "queued"
    /\ login' = [login EXCEPT ![k].at = "count", ![k].tries = @ + 1]
    /\ UNCHANGED <<time, known, request, alerts, purged, cut>>

CountSessions(k) ==
    /\ login[k].at = "count"
    /\ IF Cardinality(RecentSessions) > ManySessions
       THEN CreateAlert("sessions", <<>>, k, login[k].tries)
       ELSE UNCHANGED alerts
    /\ Reaches(k, "device")
    /\ UNCHANGED <<time, known, request, purged, cut>>

\* get_or_create, by (user, device), which is unique.
Unknown(d, a) == known[d] = "noRow"

(* Mutant of FindDevice: the address of a known device is not compared. *)
Mut_FindDevice_AnyAddress(k) ==
    LET d == login[k].device  a == login[k].address IN
    /\ login[k].at = "device"
    /\ IF Unknown(d, a) THEN Reaches(k, "tellDevice") /\ known' = [known EXCEPT ![d] = a]
       ELSE Reaches(k, "done") /\ UNCHANGED known
    /\ UNCHANGED <<time, request, alerts, purged, cut>>

FindDevice(k) ==
    LET d == login[k].device  a == login[k].address IN
    /\ login[k].at = "device"
    /\ IF Unknown(d, a)
       THEN Reaches(k, "tellDevice") /\ known' = [known EXCEPT ![d] = a]
       ELSE Reaches(k, IF known[d] # a THEN "saveAddress" ELSE "done") /\ UNCHANGED known
    /\ UNCHANGED <<time, request, alerts, purged, cut>>

SaveAddress(k) ==
    /\ login[k].at = "saveAddress"
    /\ known' = [known EXCEPT ![login[k].device] = login[k].address]
    /\ Reaches(k, "tellAddress")
    /\ UNCHANGED <<time, request, alerts, purged, cut>>

\* The alert, the last statement of a run.
Tell(k) ==
    /\ login[k].at \in {"tellDevice", "tellAddress"}
    /\ CreateAlert(IF login[k].at = "tellDevice" THEN "device" ELSE "address",
                   <<login[k].device, login[k].address>>, k, login[k].tries)
    /\ Reaches(k, "done")
    /\ UNCHANGED <<time, known, request, purged, cut>>

\* A statement of the run raises, and fail_task queues it again or gives up;
\* or the worker dies.
Fail(k) ==
    /\ login[k].at \in {"count", "device", "saveAddress", "tellDevice", "tellAddress"}
    /\ \/ Reaches(k, IF login[k].tries >= MaxTries THEN "givenUp" ELSE "queued")
       \/ Reaches(k, "dead")
    /\ cut' = IF login[k].at \in {"tellDevice", "tellAddress"}
              THEN cut \cup {<<login[k].device, login[k].address>>} ELSE cut
    /\ UNCHANGED <<time, known, request, alerts, purged>>

-----------------------------------------------------------------------------
(* request_password_reset. *)

LogEvent(q) ==
    /\ request[q].at = "none"
    /\ request' = [request EXCEPT ![q] = [at |-> "count", logged |-> time]]
    /\ UNCHANGED <<time, login, known, alerts, purged, cut>>

RecentEvents ==
    {q \in Requests : request[q].logged # 0 /\ request[q].logged + EventWindow >= time}

(* Mutant of Repeated: one request too late. *)
Mut_Repeated_More == Cardinality(RecentEvents) > Threshold

Repeated == Cardinality(RecentEvents) >= Threshold

CountEvents(q) ==
    /\ request[q].at = "count"
    /\ request' = [request EXCEPT ![q].at = IF Repeated THEN "alert" ELSE "done"]
    /\ UNCHANGED <<time, login, known, alerts, purged, cut>>

AlertRepeated(q) ==
    /\ request[q].at = "alert"
    /\ CreateAlert("events", <<>>, q, 0)
    /\ request' = [request EXCEPT ![q].at = "done"]
    /\ UNCHANGED <<time, login, known, purged, cut>>

-----------------------------------------------------------------------------
\* ResolveAlertView.post, by the alert's user.
ResolveAlert(alert) ==
    /\ ~alert.resolved
    /\ alerts' = (alerts \ {alert}) \cup {[alert EXCEPT !.resolved = TRUE]}
    /\ UNCHANGED <<time, login, known, request, purged, cut>>

\* What the retention command deletes.
Expired == {alert \in alerts : alert.resolved /\ alert.at + Retention < time}

PurgeAlerts ==
    /\ Expired # {}
    /\ alerts' = alerts \ Expired
    /\ purged' = purged \cup {alert \in Expired : alert.resolved}
    /\ UNCHANGED <<time, login, known, request, cut>>

Passes ==
    /\ time < MaxTime
    /\ time' = time + 1
    /\ UNCHANGED <<login, known, request, alerts, purged, cut>>

AlertsInit ==
    /\ time = 1
    /\ login \in [Logins -> {[device |-> d, address |-> a, opened |-> 0, at |-> "none", tries |-> 0] :
                                d \in {CHOOSE d \in Devices : TRUE},
                                a \in {CHOOSE a \in Addresses : TRUE}}]
    /\ known = [d \in Devices |-> "noRow"]
    /\ request = [q \in Requests |-> [at |-> "none", logged |-> 0]]
    /\ alerts = {} /\ purged = {} /\ cut = {}

Examine(k) ==
    Claim(k) \/ CountSessions(k) \/ FindDevice(k) \/ SaveAddress(k) \/ Tell(k)

LoginStep ==
    \E k \in Logins :
      \/ \E d \in Devices, a \in Addresses : OpenSession(k, d, a)
      \/ Publish(k) \/ Examine(k) \/ Fail(k)

RequestStep == \E q \in Requests : LogEvent(q) \/ CountEvents(q) \/ AlertRepeated(q)

AnyTime == (\E alert \in alerts : ResolveAlert(alert)) \/ PurgeAlerts \/ Passes

AlertsNext == LoginStep \/ RequestStep \/ AnyTime

AlertsSpec == AlertsInit /\ [][AlertsNext]_alertVars

-----------------------------------------------------------------------------
\* Every alert that was made and that the user did not resolve is still there.
Told == alerts \cup purged

\* A login whose examination is done came from a device and an address the
\* user was told of, or is being told of; unless the run that first stored them
\* ended before it told: then the retry finds them stored and stays silent.
\* And no device is announced as new twice, whatever is retried or overlaps.
NewDevicesAreTold ==
    /\ \A k \in Logins :
         LET where == <<login[k].device, login[k].address>> IN
         login[k].at = "done" =>
            \/ \E alert \in Told : alert.kind \in {"device", "address"} /\ alert.about = where
            \/ where \in cut
            \/ \E j \in Logins : /\ login[j].at \in {"tellDevice", "tellAddress"}
                                 /\ <<login[j].device, login[j].address>> = where
    /\ \A d \in Devices :
         Cardinality({alert \in Told : alert.kind = "device" /\ alert.about[1] = d}) <= 1

\* Threshold reset requests within the window, all answered, have made an
\* alert within that window, however they overlapped.
RepeatedRequestsAreTold ==
    (Cardinality(RecentEvents) >= Threshold
        /\ \A q \in Requests : request[q].at \notin {"count", "alert"})
    => \E alert \in Told : alert.kind = "events" /\ alert.at + EventWindow >= time
=============================================================================
