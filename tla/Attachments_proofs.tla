-------------------------- MODULE Attachments_proofs --------------------------
(***************************************************************************)
(* For any number of keys and workers, and any times with                  *)
(* UploadTime + ScanTime < MinAge: no attachment loses its file to the     *)
(* cleanup, and nothing leaks.                                             *)
(***************************************************************************)
EXTENDS Attachments, TLAPS

USE TimesAssumption

\* An upload that has not begun left no trace, a row comes from one that is over,
\* and as long as an upload is in time its file is there.
Uploads ==
  \A k \in Keys :
    /\ upload[k] \in {"new", "named"} => k \notin files /\ k \notin rows
    /\ k \in rows => upload[k] = "over"
    /\ upload[k] \in {"saving", "saved"} /\ age[k] <= UploadTime => k \in files

\* Only an attachment is removed, and its file goes first; what a download has
\* found is still there, or its removal or the end of the task is on record.
Removals ==
  \A k \in Keys :
    /\ removal[k] # "none" => upload[k] = "over"
    /\ k \in opening => k \in rows \cup unlinked \cup stray
    /\ removal[k] = "unlinked" => k \notin files /\ k \in unlinked

\* A row that a run has not read belongs to a file that is too young for it; what
\* it selected has no row and will not get one.
Scans ==
  \A w \in Workers, k \in Keys :
    /\ scan[w].step = "read" /\ scan[w].age <= ScanTime /\ k \in rows \ scan[w].known
         => age[k] <= UploadTime + scan[w].age
    /\ k \in scan[w].victims =>
         /\ k \notin rows /\ upload[k] \notin {"new", "named"}
         /\ upload[k] \in {"saving", "saved"} => age[k] > UploadTime

StoreInv == TypeOK /\ Uploads /\ Removals /\ Scans /\ FileBehindRow /\ NoLeak

LEMMA InitInv == Init => StoreInv
<1> SUFFICES ASSUME Init PROVE StoreInv OBVIOUS
<1> USE DEF Init
<1>1. TypeOK
  <2>1. task \in BOOLEAN /\ dir \in BOOLEAN OBVIOUS
  <2>2. age \in [Keys -> 0 .. MinAge] OBVIOUS
  <2>3. scan \in [Workers -> Scan] BY DEF Idle, Scan
  <2>4. \A w \in Workers : scan[w].victims \cap scan[w].known = {} BY DEF Idle
  <2> QED BY <2>1, <2>2, <2>3, <2>4 DEF TypeOK
<1>2. Uploads /\ Removals BY DEF Uploads, Removals
<1>3. Scans BY DEF Scans, Idle
<1>4. FileBehindRow /\ NoLeak BY DEF FileBehindRow, NoLeak
<1> QED BY <1>1, <1>2, <1>3, <1>4 DEF StoreInv

LEMMA TypeStep == TypeOK /\ [Next]_vars => TypeOK'
<1> SUFFICES ASSUME TypeOK, [Next]_vars PROVE TypeOK' OBVIOUS
<1> USE DEF TypeOK
<1>1. CASE UNCHANGED vars BY <1>1 DEF vars, requests, history
<1>2. ASSUME NEW k \in Keys,
             \/ MakeDirectory(k) \/ StartSave(k) \/ WriteChunk(k) \/ EndSave(k)
             \/ AbortSave(k) \/ GiveUp(k) \/ CommitUpload(k) \/ UploadDies(k)
      PROVE  TypeOK'
  <2>1. CASE MakeDirectory(k) BY <2>1 DEF MakeDirectory, history
  <2>2. CASE StartSave(k) BY <2>2 DEF StartSave, history
  <2>3. CASE WriteChunk(k) \/ EndSave(k) BY <2>3 DEF WriteChunk, EndSave, requests, history
  <2>4. CASE AbortSave(k) \/ UploadDies(k) BY <2>4 DEF AbortSave, UploadDies, history
  <2>5. CASE GiveUp(k) BY <2>5 DEF GiveUp, Erase, history
  <2>6. CASE CommitUpload(k) BY <2>6 DEF CommitUpload, Erase
  <2> QED BY <1>2, <2>1, <2>2, <2>3, <2>4, <2>5, <2>6
<1>3. ASSUME NEW k \in Keys,
             \/ StartDownload(k) \/ OpenFile(k)
             \/ StartRemoval(k) \/ Unlink(k) \/ CommitRemoval(k) \/ RemovalFails(k)
      PROVE  TypeOK'
  BY <1>3 DEF StartDownload, OpenFile, StartRemoval, Unlink, CommitRemoval, RemovalFails,
              Erase, requests, history
<1>4. ASSUME NEW w \in Workers, ReadRows(w) \/ ListFiles(w) \/ EndRun(w)
      PROVE  TypeOK'
  BY <1>4 DEF ReadRows, ListFiles, EndRun, Idle, Scan, requests, history
<1>5. ASSUME NEW w \in Workers, NEW k \in Keys, Reclaim(w, k) \/ SkipVictim(w, k)
      PROVE  TypeOK'
  <2>1. CASE SkipVictim(w, k) BY <2>1 DEF SkipVictim, Scan, requests, history
  <2>2. CASE Reclaim(w, k)
    <3>1. files' \subseteq Keys /\ dir' \in BOOLEAN BY <2>2 DEF Reclaim, Erase
    <3>2. /\ scan' \in [Workers -> Scan]
          /\ \A v \in Workers : scan'[v].victims \cap scan'[v].known = {}
      BY <2>2 DEF Reclaim, Scan
    <3> QED BY <2>2, <3>1, <3>2 DEF Reclaim, requests, history
  <2> QED BY <1>5, <2>1, <2>2
<1>6. CASE DeleteTask BY <1>6 DEF DeleteTask, requests
<1>7. CASE Tick BY <1>7 DEF Tick, Older, Scan, requests, history
<1> QED BY <1>1, <1>2, <1>3, <1>4, <1>5, <1>6, <1>7 DEF Next

-----------------------------------------------------------------------------
\* The steps of an upload.
LEMMA UploadSteps ==
  ASSUME StoreInv, TypeOK', NEW k \in Keys,
         \/ MakeDirectory(k) \/ StartSave(k) \/ WriteChunk(k) \/ EndSave(k)
         \/ AbortSave(k) \/ GiveUp(k) \/ CommitUpload(k) \/ UploadDies(k)
  PROVE  StoreInv'
<1> USE DEF StoreInv, TypeOK
<1>1. CASE MakeDirectory(k) \/ StartSave(k) \/ WriteChunk(k) \/ EndSave(k)
  BY <1>1 DEF MakeDirectory, StartSave, WriteChunk, EndSave, requests, history, Uploads, Removals, Scans, FileBehindRow, NoLeak
<1>2. CASE AbortSave(k) \/ GiveUp(k) \/ UploadDies(k)
  BY <1>2 DEF AbortSave, GiveUp, UploadDies, Erase, history, Uploads, Removals, Scans, FileBehindRow, NoLeak
<1>3. CASE CommitUpload(k)
  <2>1. k \in files /\ k \notin rows BY <1>3 DEF CommitUpload, Uploads
  <2>2. Uploads' /\ Removals' /\ FileBehindRow' /\ NoLeak'
    BY <1>3, <2>1 DEF CommitUpload, Erase, Uploads, Removals, FileBehindRow, NoLeak
  <2>3. Scans'
    <3> SUFFICES ASSUME NEW w \in Workers, NEW j \in Keys
                 PROVE  Scans!(w, j)'
      BY DEF Scans
    <3> QED BY <1>3 DEF CommitUpload, Scans, Uploads, Scan
  <2> QED BY <2>2, <2>3
<1> QED BY <1>1, <1>2, <1>3

\* The steps of a deletion.
LEMMA RemovalSteps ==
  ASSUME StoreInv, TypeOK', NEW k \in Keys,
         \/ StartDownload(k) \/ OpenFile(k)
         \/ StartRemoval(k) \/ Unlink(k) \/ CommitRemoval(k) \/ RemovalFails(k)
  PROVE  StoreInv'
<1> USE DEF StoreInv, TypeOK
<1>0. CASE StartDownload(k) \/ OpenFile(k)
  BY <1>0 DEF StartDownload, OpenFile, history, Uploads, Removals, Scans, FileBehindRow, NoLeak
<1>1. CASE StartRemoval(k) \/ RemovalFails(k)
  BY <1>1 DEF StartRemoval, RemovalFails, history, Uploads, Removals, Scans, FileBehindRow, NoLeak
<1>2. CASE Unlink(k)
  <2>1. Uploads' /\ Removals' BY <1>2 DEF Unlink, Erase, Uploads, Removals
  <2>2. FileBehindRow' /\ NoLeak' BY <1>2 DEF Unlink, Erase, FileBehindRow, NoLeak
  <2>3. Scans' BY <1>2 DEF Unlink, Scans
  <2> QED BY <2>1, <2>2, <2>3
<1>3. CASE CommitRemoval(k)
  <2>1. k \in unlinked BY <1>3 DEF CommitRemoval, Removals
  <2>2. Uploads' /\ Removals' BY <1>3, <2>1 DEF CommitRemoval, history, Uploads, Removals
  <2>3. Scans' BY <1>3 DEF CommitRemoval, Scans
  <2>4. FileBehindRow' /\ NoLeak'
    BY <1>3 DEF CommitRemoval, history, Removals, FileBehindRow, NoLeak
  <2> QED BY <2>2, <2>3, <2>4
<1> QED BY <1>0, <1>1, <1>2, <1>3

LEMMA DeleteTaskStep ==
  ASSUME StoreInv, TypeOK', DeleteTask
  PROVE  StoreInv'
BY DEF StoreInv, TypeOK, DeleteTask, requests, Uploads, Removals, Scans, FileBehindRow, NoLeak

\* The steps of a cleanup run.
LEMMA ScanSteps ==
  ASSUME StoreInv, TypeOK', NEW w \in Workers,
         \/ ReadRows(w) \/ ListFiles(w) \/ EndRun(w)
         \/ \E k \in Keys : Reclaim(w, k) \/ SkipVictim(w, k)
  PROVE  StoreInv'
<1> USE DEF StoreInv, TypeOK
<1>1. CASE ReadRows(w) \/ EndRun(w)
  BY <1>1 DEF ReadRows, EndRun, Idle, requests, history, Uploads, Removals, Scans, FileBehindRow, NoLeak
<1>2. CASE ListFiles(w)
  <2>1. Uploads' /\ Removals' /\ FileBehindRow' /\ NoLeak'
    BY <1>2 DEF ListFiles, requests, history, Uploads, Removals, FileBehindRow, NoLeak
  <2>2. \A k \in scan'[w].victims :
           k \in files /\ k \notin scan[w].known /\ age[k] >= MinAge
    BY <1>2 DEF ListFiles
  <2>3. scan[w].age \in Nat /\ scan[w].age <= ScanTime /\ scan[w].step = "read"
    BY <1>2 DEF ListFiles, Scan
  <2>4. ASSUME NEW k \in scan'[w].victims
        PROVE  k \notin rows /\ upload[k] \notin {"new", "named"} /\ age[k] > UploadTime
    <3>1. k \in Keys /\ age[k] \in Nat BY <2>2
    <3>2. k \notin rows BY <2>2, <2>3, <3>1 DEF Scans
    <3> QED BY <2>2, <3>1, <3>2 DEF Uploads
  <2>5. Scans' BY <1>2, <2>4 DEF ListFiles, requests, Scans
  <2> QED BY <2>1, <2>5
<1>3. ASSUME NEW k \in Keys, Reclaim(w, k) \/ SkipVictim(w, k) PROVE StoreInv'
  <2>1. /\ k \notin rows /\ upload[k] \notin {"new", "named"}
        /\ upload[k] \in {"saving", "saved"} => age[k] > UploadTime
    BY <1>3 DEF Reclaim, SkipVictim, Scans
  <2>2. Uploads' /\ Removals' /\ FileBehindRow' /\ NoLeak'
    BY <1>3, <2>1 DEF Reclaim, SkipVictim, Erase, requests, history, Uploads, Removals,
                    FileBehindRow, NoLeak
  <2>3. \A v \in Workers :
           /\ scan'[v].step = scan[v].step /\ scan'[v].age = scan[v].age
           /\ scan'[v].known = scan[v].known
           /\ scan'[v].victims \subseteq scan[v].victims
    BY <1>3 DEF Reclaim, SkipVictim, Scan
  <2>4. UNCHANGED <<rows, age, upload>> BY <1>3 DEF Reclaim, SkipVictim, requests
  <2>5. Scans' BY <2>3, <2>4 DEF Scans
  <2> QED BY <2>2, <2>5
<1> QED BY <1>1, <1>2, <1>3

LEMMA TickStep ==
  ASSUME StoreInv, TypeOK', Tick
  PROVE  StoreInv'
<1> USE DEF StoreInv, TypeOK
<1>1. \A k \in Keys : age[k] \in Nat /\ age'[k] \in Nat
                      /\ age[k] <= age'[k] /\ age'[k] <= age[k] + 1
  BY DEF Tick, Older
<1>2. Uploads' /\ Removals' /\ FileBehindRow' /\ NoLeak'
  BY <1>1 DEF Tick, requests, history, Uploads, Removals, FileBehindRow, NoLeak
<1>3. \A w \in Workers :
        /\ scan'[w].step = scan[w].step /\ scan'[w].known = scan[w].known
        /\ scan'[w].victims = scan[w].victims /\ scan[w].age \in Nat
        /\ scan[w].step = "read" /\ scan'[w].age <= ScanTime =>
             scan'[w].age = scan[w].age + 1
  BY DEF Tick, Older, Scan
<1>4. Scans' BY <1>1, <1>3 DEF Tick, requests, Scans
<1> QED BY <1>2, <1>4

LEMMA StoreHolds == Spec => []StoreInv
<1>1. StoreInv /\ [Next]_vars => StoreInv'
  <2> SUFFICES ASSUME StoreInv, [Next]_vars PROVE StoreInv' OBVIOUS
  <2>1. TypeOK' BY TypeStep DEF StoreInv
  <2>2. CASE UNCHANGED vars
    BY <2>2 DEF vars, requests, history, StoreInv, TypeOK, Uploads, Removals, Scans, FileBehindRow, NoLeak
  <2>3. CASE Next
    BY <2>1, <2>3, UploadSteps, RemovalSteps, ScanSteps, DeleteTaskStep, TickStep DEF Next
  <2> QED BY <2>2, <2>3
<1> QED BY <1>1, InitInv, PTL DEF Spec

\* Every reachable state of the store, its requests and its cleanup is well typed
\* (services/attachment.py, tasks/maintenance_tasks.py).
THEOREM TypeCorrect == Spec => []TypeOK
<1>1. StoreInv => TypeOK BY DEF StoreInv
<1> QED BY <1>1, StoreHolds, PTL

\* Every attachment, and every download that has found one, has its file, unless a
\* deletion or a COMMIT taken for a failure took it (services/attachment.py:33-39,
\* :373-412, tasks/maintenance_tasks.py:318-321).
THEOREM StoreCorrect == Spec => []FileBehindRow
<1>1. StoreInv => FileBehindRow BY DEF StoreInv
<1> QED BY <1>1, StoreHolds, PTL

\* Every file without a row is accounted for: a request or a run still has it in
\* hand, or something died over it (services/attachment.py:35-39,
\* services/storage.py:192-195).
THEOREM NoLeakCorrect == Spec => []NoLeak
<1>1. StoreInv => NoLeak BY DEF StoreInv
<1> QED BY <1>1, StoreHolds, PTL
=============================================================================
