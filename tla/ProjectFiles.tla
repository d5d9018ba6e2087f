----------------------------- MODULE ProjectFiles -----------------------------
(***************************************************************************)
(* The files of a project: ProjectFile rows, and the objects in the        *)
(* storage that uploaded ones point to (apps/files).  Row and object are   *)
(* written one after the other, by requests that overlap and may die.      *)
(***************************************************************************)
EXTENDS Naturals, FiniteSets

CONSTANTS
    Handlers,   \* workers serving requests
    Reviewers,  \* users who can manage the staff workspace
    MaxOps      \* bound: requests begun in a behaviour

ASSUME FilesAssumption == MaxOps \in Nat /\ "nobody" \notin Reviewers

VARIABLES
    files,     \* ProjectFile rows
    objects,   \* objects in the storage
    task,      \* what each worker is doing
    opened,    \* requests begun so far
    \* history, read by no action
    reviewOf,  \* who made which review, by the number of the request
    lastReview, \* per file the last review saved
    overwritten, \* files whose last review was written over unread
    refused,   \* objects stored for a row the database refused
    cutShort,  \* files whose deletion ended after the object was deleted
    reborn     \* files a full save inserted again

fileVars == <<files, objects, task, opened, reviewOf, lastReview, overwritten, refused,
              cutShort, reborn>>

\* What a row holds: its object (0: an external URL), the version of its
\* description and of its review, and who reviewed.
ProjectFile ==
    [id : 1..MaxOps, object : 0..MaxOps, text : 0..MaxOps, review : 0..MaxOps,
     by : Reviewers \cup {"nobody"}]

NewFile(k, object) == [id |-> k, object |-> object, text |-> k, review |-> 0, by |-> "nobody"]
NoFile == NewFile(0, 0)

\* newer: the row was saved since it was copied (history).
Doing(at, copy) == [at |-> at, copy |-> copy, newer |-> FALSE]
Rest == Doing("rest", NoFile)

Opens(h) == task[h].at = "rest" /\ opened < MaxOps /\ opened' = opened + 1
Turns(h, next) == task' = [task EXCEPT ![h] = next]
SameFacts == UNCHANGED <<reviewOf, lastReview, overwritten, refused, cutShort, reborn>>

-----------------------------------------------------------------------------
\* What a client or the control center sends: an upload or an external URL,
\* each within the limits of the settings or not, and whether it names an order
\* or an inquiry the sender may add files to.
Submission ==
    [upload : {"none", "allowed", "barred"}, url : {"none", "allowed", "barred"}, linked : BOOLEAN]

Valid(r) == r.linked /\ {r.upload, r.url} = {"none", "allowed"}

Create(h) ==
    /\ Opens(h)
    /\ \E r \in Submission :
         LET object == IF r.upload = "none" THEN 0 ELSE opened + 1 IN
         /\ Valid(r)
         /\ Turns(h, Doing(IF object = 0 THEN "insert" ELSE "store", NewFile(opened + 1, object)))
    /\ UNCHANGED <<files, objects>> /\ SameFacts

\* Saving the row stores the file first (FileField.pre_save).
Store(h) ==
    /\ task[h].at = "store"
    /\ objects' = objects \cup {task[h].copy.object}
    /\ Turns(h, Doing("insert", task[h].copy))
    /\ UNCHANGED <<files, opened>> /\ SameFacts

\* Then inserts it, or fails: the order or inquiry was deleted meanwhile.
InsertFile(h) ==
    LET f == task[h].copy IN
    /\ task[h].at = "insert"
    /\ \/ files' = files \cup {f} /\ UNCHANGED refused
       \/ refused' = refused \cup {f.object} /\ UNCHANGED files
    /\ Turns(h, Rest)
    /\ UNCHANGED <<objects, opened, reviewOf, lastReview, overwritten, cutShort, reborn>>

-----------------------------------------------------------------------------
\* A client's PATCH sets the description.
Describe(h) ==
    /\ Opens(h)
    /\ \E f \in files :
         Turns(h, Doing("save", [f EXCEPT !.text = opened + 1]))
    /\ UNCHANGED <<files, objects>> /\ SameFacts

\* perform_update: a review carries who made it.
Reviewed(f, reviewer, k) ==
    [id |-> f.id, object |-> f.object, text |-> f.text, review |-> k, by |-> reviewer]

Review(h) ==
    /\ Opens(h)
    /\ \E f \in files, reviewer \in Reviewers :
         /\ Turns(h, Doing("save", Reviewed(f, reviewer, opened + 1)))
         /\ reviewOf' = [reviewOf EXCEPT ![opened + 1] = reviewer]
    /\ UNCHANGED <<files, objects, lastReview, overwritten, refused, cutShort, reborn>>

\* instance.save() writes every column as it was read or set; if the row is
\* gone it is inserted again.
SaveFile(h) ==
    LET f     == task[h].copy
        old   == {g \in files : g.id = f.id}
        fresh == reviewOf[f.review] # "nobody" /\ f.review > lastReview[f.id]
    IN  /\ task[h].at = "save"
        /\ files' = (files \ old) \cup {f}
        /\ reborn' = IF old = {} THEN reborn \cup {f.id} ELSE reborn
        /\ lastReview' = [lastReview EXCEPT ![f.id] = IF fresh THEN f.review ELSE @]
        /\ overwritten' = IF ~fresh /\ f.review # lastReview[f.id] /\ task[h].newer
                          THEN overwritten \cup {f.id} ELSE overwritten
        /\ task' = [g \in Handlers |->
                      IF g = h THEN Rest
                      ELSE IF task[g].at = "save" /\ task[g].copy.id = f.id
                      THEN [task[g] EXCEPT !.newer = TRUE] ELSE task[g]]
        /\ UNCHANGED <<objects, opened, reviewOf, refused, cutShort>>

-----------------------------------------------------------------------------
(* Mutant of Destroy: the object is left to the row's deletion. *)
Mut_Destroy_RowOnly(h) ==
    /\ Opens(h)
    /\ \E f \in files : Turns(h, Doing("delete row", f))
    /\ UNCHANGED <<files, objects>> /\ SameFacts

\* ProjectFileViewSet.destroy.
Destroy(h) ==
    /\ Opens(h)
    /\ \E f \in files :
         Turns(h, Doing(IF f.object = 0 THEN "delete row" ELSE "delete object", f))
    /\ UNCHANGED <<files, objects>> /\ SameFacts

\* The storage deletes the object, if it is still there.
DeleteObject(h) ==
    /\ task[h].at = "delete object"
    /\ objects' = objects \ {task[h].copy.object}
    /\ Turns(h, Doing("delete row", task[h].copy))
    /\ UNCHANGED <<files, opened>> /\ SameFacts

DeleteFile(h) ==
    /\ task[h].at = "delete row"
    /\ files' = {f \in files : f.id # task[h].copy.id}
    /\ Turns(h, Rest)
    /\ UNCHANGED <<objects, opened>> /\ SameFacts

\* The request dies between the two.
Dies(h) ==
    /\ task[h].at = "delete row"
    /\ cutShort' = cutShort \cup {task[h].copy.id}
    /\ Turns(h, Rest)
    /\ UNCHANGED <<files, objects, opened, reviewOf, lastReview, overwritten, refused, reborn>>

FilesInit ==
    /\ files = {} /\ objects = {} /\ opened = 0
    /\ task = [h \in Handlers |-> Rest]
    /\ reviewOf = [k \in 0..MaxOps |-> "nobody"] /\ lastReview = [k \in 1..MaxOps |-> 0]
    /\ overwritten = {} /\ refused = {} /\ cutShort = {} /\ reborn = {}

FilesNext ==
    \E h \in Handlers :
      \/ Create(h) \/ Store(h) \/ InsertFile(h) \/ Describe(h) \/ Review(h) \/ SaveFile(h)
      \/ Destroy(h) \/ DeleteObject(h) \/ DeleteFile(h) \/ Dies(h)

FilesSpec == FilesInit /\ [][FilesNext]_fileVars

-----------------------------------------------------------------------------
Task ==
    [at : {"rest", "store", "insert", "save", "delete object", "delete row"},
     copy : ProjectFile \cup {NoFile}, newer : BOOLEAN]

\* Every variable keeps its type.
FilesTypeOK ==
    /\ files \subseteq ProjectFile /\ objects \subseteq 1..MaxOps
    /\ task \in [Handlers -> Task] /\ opened \in 0..MaxOps
    /\ reviewOf \in [0..MaxOps -> Reviewers \cup {"nobody"}]
    /\ lastReview \in [1..MaxOps -> 0..MaxOps]
    /\ overwritten \subseteq 1..MaxOps /\ refused \subseteq 0..MaxOps
    /\ cutShort \subseteq 1..MaxOps /\ reborn \subseteq 1..MaxOps

\* The object of every row is in the storage, unless the row is being deleted,
\* its deletion died half-way, or a full save brought it back.
RowsHaveObjects ==
    \A f \in files :
      f.object \in objects \cup {0} \cup cutShort \cup reborn
        \/ \E h \in Handlers : task[h].at = "delete row" /\ task[h].copy.id = f.id

\* Every object in the storage has its row, unless the row is being inserted or
\* was refused.
ObjectsHaveRows ==
    \A o \in objects :
      \/ o \in refused \/ \E f \in files : f.object = o
      \/ \E h \in Handlers : task[h].at = "insert" /\ task[h].copy.object = o

\* A review names the user who made it, and is the last one saved unless a
\* save that had not read it came after.
ReviewsAreAttributed ==
    \A f \in files : /\ f.by = reviewOf[f.review]
                     /\ f.review = lastReview[f.id] \/ f.id \in overwritten \cup reborn

\* A file's row, its object and its review agree, whatever overlaps or dies,
\* but for the cases named above.
FilesAreSound == RowsHaveObjects /\ ObjectsHaveRows /\ ReviewsAreAttributed
=============================================================================
