------------------------------ MODULE MCSecurity ------------------------------
(* Accounts, the threat engine, the examination of logins and the reset        *)
(* requests share no state as they are modelled: a behaviour is one of these   *)
(* parts.                                                                      *)
EXTENDS Account, ThreatEngine, SecurityAlerts, TLC

VARIABLE part

AllInit ==
    /\ part \in {"accounts", "engine", "logins", "requests"}
    /\ Init /\ EngineInit /\ AlertsInit
    /\ part # "accounts" => mix = {"login"} /\ row.super /\ row.verified
    /\ part # "engine" => kind = "other"

AllNext ==
    /\ UNCHANGED part
    /\ \/ part = "accounts" /\ Next /\ UNCHANGED <<engineVars, alertVars>>
       \/ part = "engine" /\ EngineNext /\ UNCHANGED <<vars, alertVars>>
       \/ part = "logins" /\ (LoginStep \/ AnyTime) /\ UNCHANGED <<vars, engineVars>>
       \/ part = "requests" /\ (RequestStep \/ AnyTime) /\ UNCHANGED <<vars, engineVars>>

AllSpec == AllInit /\ [][AllNext]_<<part, vars, engineVars, alertVars>>

Symmetric == Permutations(Reqs) \cup Permutations(Servers) \cup Permutations(Logins)

AllOperations ==
    {"changePassword", "changeEmail", "editMe", "editProfile", "setupTwoFactor",
     "verifyTwoFactor", "verifyEmail", "resetPassword", "resend", "restore", "suspend",
     "toggleStaff", "unlock", "editUser", "editMember", "anonymize", "ensureSuperuser",
     "deleteAccount", "deleteUser", "register", "createSuperuser", "login", "forgot"}

\* Every kind of full save against every operation, and the operations that
\* name their columns against those that touch the same ones.
Overwriters == {"changePassword", "editUser", "anonymize", "ensureSuperuser"}
Pairs ==
    {{a, b} : a \in Overwriters, b \in AllOperations}
    \cup {{"editMe", "suspend"}, {"editProfile", "changeEmail"}, {"editMember", "restore"},
          {"resetPassword", "suspend"}, {"resetPassword", "forgot"}, {"setupTwoFactor", "verifyTwoFactor"},
          {"setupTwoFactor", "verifyTwoFactor", "anonymize"},
          {"changeEmail", "resend"}, {"changeEmail", "toggleStaff"},
          {"changeEmail", "verifyEmail"}, {"login"}, {"login", "unlock"},
          {"login", "setupTwoFactor"}, {"register", "deleteUser"}, {"register", "login"}}
===============================================================================
