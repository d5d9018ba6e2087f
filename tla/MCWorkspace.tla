----------------------------- MODULE MCWorkspace ------------------------------
(* Messages, files and records share no state: a behaviour is one of either.  *)
EXTENDS Messages, ProjectFiles, ClientRecords, TLC

VARIABLE part

AllInit ==
    /\ part \in {"messages", "files", "records"}
    /\ Init /\ FilesInit /\ RecordsInit
    /\ part # "messages" => thread.id = 0 /\ mixed = {"post"}
    /\ part # "records" => client.id = 0

AllNext ==
    /\ UNCHANGED part
    /\ \/ part = "messages" /\ Next /\ UNCHANGED <<fileVars, recordVars>>
       \/ part = "files" /\ FilesNext /\ UNCHANGED <<vars, recordVars>>
       \/ part = "records" /\ RecordsNext /\ UNCHANGED <<vars, fileVars>>

AllSpec == AllInit /\ [][AllNext]_<<part, vars, fileVars, recordVars>>

Symmetric == Permutations(Servers) \cup Permutations(Handlers) \cup Permutations(Workers)

\* Posting beside each of the other requests, and the notifications.
Mixes ==
    {{"post"}, {"post", "open"}, {"post", "mark"}, {"post", "patch"}, {"post", "delete"},
     {"patch", "delete", "post"}, {"post", "notes"}}
===============================================================================
