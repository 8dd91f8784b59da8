----------------------------- MODULE Attachments ------------------------------
(***************************************************************************)
(* Attachments live in two places that no transaction spans: a row in      *)
(* PostgreSQL and a file on disk.  Upload writes the file first, delete    *)
(* removes the file first (app/services/attachment.py), and a periodic     *)
(* Celery task reclaims files no row points to                             *)
(* (app/tasks/maintenance_tasks.py).  Processes may die between any two    *)
(* steps.  A key is the random name of one upload, all to one task.        *)
(*                                                                         *)
(* Time is the age of a file since its last write, in ticks; nothing       *)
(* distinguishes ages beyond MinAge.  The files of the task are in one      *)
(* directory, which goes with the last of them.                            *)
(***************************************************************************)
EXTENDS Integers, FiniteSets

CONSTANTS
  Keys,
  Workers,          \* Celery workers that may run the cleanup
  MinAge,           \* attachment_orphan_min_age_seconds
  ScanTime,         \* a run lists the files at most this long after it read the rows
  UploadTime        \* an upload under way writes again, or commits, within this time

ASSUME TimesAssumption ==
  /\ MinAge \in Nat /\ ScanTime \in Nat /\ UploadTime \in Nat
  /\ UploadTime + ScanTime < MinAge

VARIABLES
  task,             \* TRUE as long as the task exists
  rows,             \* attachments.storage_path
  files,            \* the files under the storage root
  dir,              \* TRUE as long as the directory of the task exists
  age,              \* time since the mtime of each file
  upload,           \* progress of the upload of each key
  removal,          \* progress of the request that deletes each attachment
  opening,          \* keys whose row a download has read, and whose file it will open
  scan,             \* each worker's cleanup: what it read, and what it will delete
  unlinked,         \* history: keys whose file a delete request has removed
  stray,            \* history: keys whose upload died or whose task was deleted
  doubted           \* history: keys whose COMMIT was taken for a failure

requests == <<upload, removal, opening>>
history == <<unlinked, stray, doubted>>
vars == <<task, rows, files, dir, age, requests, scan, history>>

Idle == [step |-> "idle", known |-> {}, victims |-> {}, age |-> 0]

Init ==
  /\ task = TRUE /\ rows = {} /\ files = {} /\ dir = FALSE
  /\ age = [k \in Keys |-> 0]
  /\ upload = [k \in Keys |-> "new"]
  /\ removal = [k \in Keys |-> "none"]
  /\ opening = {}
  /\ scan = [w \in Workers |-> Idle]
  /\ unlinked = {} /\ stray = {} /\ doubted = {}

-----------------------------------------------------------------------------
\* LocalStorageBackend.delete: the file, and its directory if that is empty now.
Erase(k) == files' = files \ {k} /\ dir' = (dir /\ files \ {k} # {})

\* upload_attachment: the task is visible, name and type are accepted.
MakeDirectory(k) ==
  /\ upload[k] = "new" /\ task
  /\ upload' = [upload EXCEPT ![k] = "named"] /\ dir' = TRUE
  /\ UNCHANGED <<task, rows, files, age, removal, opening, scan, history>>

\* The file is opened for writing, unless the directory has just been removed.
StartSave(k) ==
  /\ upload[k] = "named"
  /\ upload' = [upload EXCEPT ![k] = IF dir THEN "saving" ELSE "over"]
  /\ files' = IF dir THEN files \cup {k} ELSE files
  /\ age' = [age EXCEPT ![k] = 0]
  /\ UNCHANGED <<task, rows, dir, removal, opening, scan, history>>

WriteChunk(k) ==
  /\ upload[k] = "saving" /\ age[k] <= UploadTime /\ age' = [age EXCEPT ![k] = 0]
  /\ UNCHANGED <<task, rows, files, dir, requests, scan, history>>

EndSave(k) ==
  /\ upload[k] = "saving" /\ upload' = [upload EXCEPT ![k] = "saved"]
  /\ UNCHANGED <<task, rows, files, dir, age, removal, opening, scan, history>>

\* Too large, or the disk refuses: save unlinks what it has written.
AbortSave(k) ==
  /\ upload[k] = "saving" /\ upload' = [upload EXCEPT ![k] = "over"]
  /\ files' = files \ {k}
  /\ UNCHANGED <<task, rows, dir, age, removal, opening, scan, history>>

\* Mutant: the file is not removed again.
GiveUpOnly(k) ==
  /\ upload[k] = "saved" /\ upload' = [upload EXCEPT ![k] = "over"]
  /\ UNCHANGED <<task, rows, files, dir, age, removal, opening, scan, history>>

\* Empty, or refused by the database: the file is removed again.
GiveUp(k) ==
  /\ upload[k] = "saved" /\ upload' = [upload EXCEPT ![k] = "over"]
  /\ Erase(k)
  /\ UNCHANGED <<task, rows, age, removal, opening, scan, history>>

\* INSERT and COMMIT; the foreign key needs the task.  A COMMIT whose answer is
\* lost is taken for a failure, and the file removed.
CommitUpload(k) ==
  /\ upload[k] = "saved" /\ task /\ age[k] <= UploadTime
  /\ upload' = [upload EXCEPT ![k] = "over"] /\ rows' = rows \cup {k}
  /\ \/ UNCHANGED <<files, dir, doubted>>
     \/ Erase(k) /\ doubted' = doubted \cup {k}
  /\ UNCHANGED <<task, age, removal, opening, scan, unlinked, stray>>

UploadDies(k) ==
  /\ upload[k] \in {"named", "saving", "saved"}
  /\ upload' = [upload EXCEPT ![k] = "over"] /\ stray' = stray \cup {k}
  /\ UNCHANGED <<task, rows, files, dir, age, removal, opening, scan, unlinked, doubted>>

-----------------------------------------------------------------------------
\* open_attachment reads the row and checks the chain to the caller ...
StartDownload(k) ==
  /\ k \in rows \ opening /\ opening' = opening \cup {k}
  /\ UNCHANGED <<task, rows, files, dir, age, upload, removal, scan, history>>

\* ... and opens the file: from then on nothing can take it from the reader.
OpenFile(k) ==
  /\ k \in opening /\ opening' = opening \ {k}
  /\ UNCHANGED <<task, rows, files, dir, age, upload, removal, scan, history>>

\* delete_attachment: the row is there and the caller may delete it.
StartRemoval(k) ==
  /\ removal[k] = "none" /\ k \in rows
  /\ removal' = [removal EXCEPT ![k] = "checked"]
  /\ UNCHANGED <<task, rows, files, dir, age, upload, opening, scan, history>>

Unlink(k) ==
  /\ removal[k] = "checked" /\ removal' = [removal EXCEPT ![k] = "unlinked"]
  /\ Erase(k) /\ unlinked' = unlinked \cup {k}
  /\ UNCHANGED <<task, rows, age, upload, opening, scan, stray, doubted>>

\* The row and its audit entry, one transaction.
CommitRemoval(k) ==
  /\ removal[k] = "unlinked" /\ removal' = [removal EXCEPT ![k] = "none"]
  /\ rows' = rows \ {k}
  /\ UNCHANGED <<task, files, dir, age, upload, opening, scan, history>>

\* The unlink fails, or the process dies: the row stays for another try.
RemovalFails(k) ==
  /\ removal[k] # "none" /\ removal' = [removal EXCEPT ![k] = "none"]
  /\ UNCHANGED <<task, rows, files, dir, age, upload, opening, scan, history>>

\* delete_task: the rows go with the task, the files do not.
DeleteTask ==
  /\ task /\ task' = FALSE /\ rows' = {} /\ stray' = stray \cup rows
  /\ UNCHANGED <<files, dir, age, requests, scan, unlinked, doubted>>

-----------------------------------------------------------------------------
\* cleanup_expired_attachments: first the rows are read ...
ReadRows(w) ==
  /\ scan[w].step = "idle"
  /\ scan' = [scan EXCEPT ![w] = [step |-> "read", known |-> rows, victims |-> {}, age |-> 0]]
  /\ UNCHANGED <<task, rows, files, dir, age, requests, history>>

\* Mutant: no age window.
ListFilesNoAge(w) ==
  /\ scan[w].step = "read" /\ scan[w].age <= ScanTime
  /\ scan' = [scan EXCEPT ![w].step = "delete", ![w].victims = files \ scan[w].known]
  /\ UNCHANGED <<task, rows, files, dir, age, requests, history>>

\* Mutant: a file that a row points to is not skipped.
ListFilesReferenced(w) ==
  /\ scan[w].step = "read" /\ scan[w].age <= ScanTime
  /\ scan' = [scan EXCEPT ![w].step = "delete",
                          ![w].victims = {k \in files : age[k] >= MinAge}]
  /\ UNCHANGED <<task, rows, files, dir, age, requests, history>>

\* Mutant: nothing is old enough.
ListFilesNone(w) ==
  /\ scan[w].step = "read" /\ scan[w].age <= ScanTime
  /\ scan' = [scan EXCEPT ![w].step = "delete",
                          ![w].victims = {k \in files \ scan[w].known : age[k] > MinAge}]
  /\ UNCHANGED <<task, rows, files, dir, age, requests, history>>

\* ... then the files and their ages are listed ...
ListFiles(w) ==
  /\ scan[w].step = "read" /\ scan[w].age <= ScanTime
  /\ scan' = [scan EXCEPT ![w].step = "delete",
                          ![w].victims = {k \in files \ scan[w].known : age[k] >= MinAge}]
  /\ UNCHANGED <<task, rows, files, dir, age, requests, history>>

\* ... and what no row had and is old enough is deleted, one by one.
Reclaim(w, k) ==
  /\ scan[w].step = "delete" /\ k \in scan[w].victims
  /\ Erase(k) /\ scan' = [scan EXCEPT ![w].victims = @ \ {k}]
  /\ UNCHANGED <<task, rows, age, requests, history>>

\* One file cannot be deleted: counted and left to the next run.
SkipVictim(w, k) ==
  /\ scan[w].step = "delete" /\ k \in scan[w].victims
  /\ scan' = [scan EXCEPT ![w].victims = @ \ {k}]
  /\ UNCHANGED <<task, rows, files, dir, age, requests, history>>

\* The run ends, fails, or is killed by its time limit.
EndRun(w) ==
  /\ scan[w].step # "idle" /\ scan' = [scan EXCEPT ![w] = Idle]
  /\ UNCHANGED <<task, rows, files, dir, age, requests, history>>

Older(a, most) == IF a < most THEN a + 1 ELSE a

Tick ==
  /\ age' = [k \in Keys |-> Older(age[k], MinAge)]
  /\ scan' = [w \in Workers |->
                IF scan[w].step = "read"
                THEN [scan[w] EXCEPT !.age = Older(@, ScanTime + 1)] ELSE scan[w]]
  /\ UNCHANGED <<task, rows, files, dir, requests, history>>

Next ==
  \/ \E k \in Keys :
       \/ MakeDirectory(k) \/ StartSave(k) \/ WriteChunk(k) \/ EndSave(k)
       \/ AbortSave(k) \/ GiveUp(k) \/ CommitUpload(k) \/ UploadDies(k)
       \/ StartDownload(k) \/ OpenFile(k)
       \/ StartRemoval(k) \/ Unlink(k) \/ CommitRemoval(k) \/ RemovalFails(k)
  \/ \E w \in Workers :
       \/ ReadRows(w) \/ ListFiles(w) \/ EndRun(w)
       \/ \E k \in Keys : Reclaim(w, k) \/ SkipVictim(w, k)
  \/ DeleteTask
  \/ Tick

Spec == Init /\ [][Next]_vars

\* Time passes and beat starts run after run; neither every run is killed nor
\* every deletion of a file fails.
Fairness ==
  /\ WF_vars(Tick)
  /\ \A w \in Workers : WF_vars(ReadRows(w)) /\ SF_vars(ListFiles(w)) /\ WF_vars(EndRun(w))
  /\ \A w \in Workers, k \in Keys : SF_vars(Reclaim(w, k))

FairSpec == Spec /\ Fairness

-----------------------------------------------------------------------------
Scan == [step: {"idle", "read", "delete"}, known: SUBSET Keys, victims: SUBSET Keys, age: Nat]

\* The variables have their types.
TypeOK ==
  /\ task \in BOOLEAN
  /\ rows \subseteq Keys /\ files \subseteq Keys /\ dir \in BOOLEAN
  /\ unlinked \subseteq Keys /\ stray \subseteq Keys /\ doubted \subseteq Keys
  /\ age \in [Keys -> 0 .. MinAge]
  /\ upload \in [Keys -> {"new", "named", "saving", "saved", "over"}]
  /\ removal \in [Keys -> {"none", "checked", "unlinked"}]
  /\ opening \subseteq Keys
  /\ scan \in [Workers -> Scan]
  /\ \A w \in Workers : scan[w].victims \cap scan[w].known = {}

\* An attachment that is listed can be downloaded: nothing but its own deletion, or
\* a COMMIT taken for a failure, takes the file from under a row, not a cleanup that
\* read the rows before the upload committed; and a download that has found the row
\* finds the file too, unless the attachment or its task is deleted meanwhile
\* (services/attachment.py:33-39, :373-412, tasks/maintenance_tasks.py:318-321).
FileBehindRow ==
  /\ rows \subseteq files \cup unlinked \cup doubted
  /\ opening \subseteq files \cup unlinked \cup doubted \cup stray

\* A file without a row belongs to an upload under way, or to one that died, or
\* to a deleted task: uploads that fail, at whatever step, and deletions leak
\* nothing (services/attachment.py:35-39, services/storage.py:192-195).
NoLeak ==
  \A k \in files \ rows : upload[k] \in {"saving", "saved"} \/ k \in stray

\* A file that nothing refers to any more is reclaimed in the end
\* (tasks/maintenance_tasks.py:314-316).
OrphansReclaimed ==
  \A k \in Keys : (k \in files \ rows /\ upload[k] = "over") ~> k \notin files
=============================================================================
