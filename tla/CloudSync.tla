----------------------------- MODULE CloudSync -----------------------------
(***************************************************************************)
(* Devices that keep their connections (the database) and their skills (a  *)
(* directory) in step through three files on a WebDAV or S3 server: an     *)
(* upload writes the database, the skills and last the manifest with the   *)
(* hashes of both; a download reads the manifest first, takes only files   *)
(* that match it, and replaces first the skills and then the database.     *)
(* Uploads of two devices may overlap, requests may fail, and a process    *)
(* may be killed anywhere.  Another process may keep the database locked   *)
(* for longer than SQLite waits, and then nothing is copied into or out of *)
(* it.  A content is a number; that two files have the same hash is that   *)
(* they have the same content.                                             *)
(***************************************************************************)
EXTENDS Naturals

CONSTANTS
  Device, None,
  Reader,    \* the devices that download; all of them upload
  Half,      \* a skills directory that was being copied when something happened
  Blank,     \* the export of a database without a table
  First,     \* the content each device starts with, in 0 .. Known
  Known,
  MaxEdits,  \* bound on changes of a device's data, each to a content never seen before
  MaxFaults  \* bound on failures, crashes and locks held too long

ASSUME SyncConstants ==
  /\ None \notin Nat /\ Half \notin Nat /\ Half # None /\ Blank \notin Nat /\ Blank # None
  /\ Reader \subseteq Device /\ Known \in Nat /\ First \in [Device -> 0 .. Known]
  /\ MaxEdits \in Nat /\ MaxFaults \in Nat

VARIABLES
  db,      \* the synchronised tables of each device
  skills,  \* its skills directory
  rows,    \* how many rows its local-only tables have: drafts, heads of changes, usage
  remote,  \* the three files
  op,      \* the operation that holds the sync mutex of each device
  built,   \* every snapshot that was ever made
  alone,   \* the device whose upload began last, when none was under way then; else none
  edits, faults

local == <<db, skills, rows>>
vars == <<local, remote, op, built, alone, edits, faults>>

Content == 0 .. Known + MaxEdits
Skills == Content \cup {Half}
Exported == Content \cup {Blank}
Snapshot == [db : Exported, skills : Skills]
NoSnapshot == [db |-> 0, skills |-> 0]

Sending == {"zip", "put_db", "put_skills", "put_manifest"}
Fetching == {"get_manifest", "get_db", "get_skills"}
Applying == {"save", "extract", "copy", "snap", "import", "rollback", "restore"}
Ended == {"uploaded", "done", "failed", "broken"}
OpRec ==
  [pc : {"idle"} \cup Sending \cup Fetching \cup Applying \cup Ended,
   snap : Snapshot,       \* what is uploaded, or what the manifest says
   saved : Skills,        \* backup_current_skills
   was : Content,         \* the database before the import, for AllOrNothing
   bak : Skills,          \* the directory set aside while the new one is copied
   rows : Nat,            \* the local-only tables, as snapshot_to_memory read them
   touched : BOOLEAN,     \* somebody has edited the device while a snapshot is applied
   unwritten : BOOLEAN]   \* the import ended well without having written the database

NoOp == [pc |-> "idle", snap |-> NoSnapshot, saved |-> 0, was |-> 0, bak |-> 0, rows |-> 0,
         touched |-> FALSE, unwritten |-> FALSE]

TypeOK ==
  /\ db \in [Device -> Content] /\ skills \in [Device -> Skills]
  /\ rows \in [Device -> Nat]
  /\ remote \in [db : Exported \cup {None}, skills : Skills \cup {None},
                 manifest : Snapshot \cup {None}]
  /\ op \in [Device -> OpRec] /\ built \subseteq Snapshot /\ alone \subseteq Device
  /\ edits \in 0 .. MaxEdits /\ faults \in 0 .. MaxFaults

Init ==
  /\ db = First /\ skills = First /\ rows = [d \in Device |-> 0]
  /\ remote = [db |-> None, skills |-> None, manifest |-> None]
  /\ op = [d \in Device |-> NoOp] /\ built = {} /\ alone = {}
  /\ edits = 0 /\ faults = 0

At(d, pc) == op[d].pc = pc
Become(d, record) == op' = [op EXCEPT ![d] = record]
Goto(d, pc) == Become(d, [op[d] EXCEPT !.pc = pc])
Fault == faults < MaxFaults /\ faults' = faults + 1

-----------------------------------------------------------------------------
(* upload *)

Uploading(d) == op[d].pc \in Sending

\* export_sql_string_for_sync: one reading of the database.
Export(d, content) ==
  /\ At(d, "idle")
  /\ Become(d, [NoOp EXCEPT !.pc = "zip", !.snap = [NoSnapshot EXCEPT !.db = content]])
  /\ alone' = IF \E e \in Device : Uploading(e) THEN {} ELSE {d}
  /\ UNCHANGED <<local, remote, built, edits>>

StartUpload(d) == Export(d, db[d]) /\ UNCHANGED faults

\* snapshot_to_memory does not look at what Backup::step answers: of a locked database the
\* copy, and with it the export, is blank.
ExportLocked(d) == Fault /\ Export(d, Blank)

\* zip_skills_ssot, later and without a lock; then the manifest is made of both.
Zip(d) ==
  /\ At(d, "zip")
  /\ LET snapshot == [op[d].snap EXCEPT !.skills = skills[d]]
     IN /\ Become(d, [op[d] EXCEPT !.pc = "put_db", !.snap = snapshot])
        /\ built' = built \cup {snapshot}
  /\ UNCHANGED <<local, remote, alone, edits, faults>>

SendDb(d) == At(d, "put_db") /\ remote' = [remote EXCEPT !.db = op[d].snap.db]
SendSkills(d) == At(d, "put_skills") /\ remote' = [remote EXCEPT !.skills = op[d].snap.skills]
SendManifest(d) == At(d, "put_manifest") /\ remote' = [remote EXCEPT !.manifest = op[d].snap]
Send(d) == SendDb(d) \/ SendSkills(d) \/ SendManifest(d)

Put(d) ==
  /\ Send(d)
  /\ Goto(d, CASE At(d, "put_db") -> "put_skills"
               [] At(d, "put_skills") -> "put_manifest"
               [] At(d, "put_manifest") -> "uploaded")
  /\ UNCHANGED <<local, built, alone, edits, faults>>

\* A request fails, or its answer is lost: the server may have the file nevertheless.
PutFails(d) ==
  /\ Fault /\ Uploading(d) /\ Become(d, NoOp)
  /\ Send(d) \/ UNCHANGED remote
  /\ UNCHANGED <<local, built, alone, edits>>

-----------------------------------------------------------------------------
(* download *)

StartDownload(d) ==
  /\ d \in Reader /\ At(d, "idle") /\ Become(d, [NoOp EXCEPT !.pc = "get_manifest"])
  /\ UNCHANGED <<local, remote, built, alone, edits, faults>>

\* Mutant of GetManifest: a server without a manifest is not told from one with.
GetManifestAnyway(d) ==
  /\ At(d, "get_manifest")
  /\ Become(d, [op[d] EXCEPT !.pc = "get_db", !.snap = remote.manifest])
  /\ UNCHANGED <<local, remote, built, alone, edits, faults>>

GetManifest(d) ==
  /\ At(d, "get_manifest")
  /\ IF remote.manifest = None THEN Become(d, NoOp)
     ELSE Become(d, [op[d] EXCEPT !.pc = "get_db", !.snap = remote.manifest])
  /\ UNCHANGED <<local, remote, built, alone, edits, faults>>

\* Mutant of GetDb: the file is compared with the hash of the other one.
GetDbOther(d) ==
  /\ At(d, "get_db")
  /\ IF remote.db = op[d].snap.skills THEN Goto(d, "get_skills") ELSE Become(d, NoOp)
  /\ UNCHANGED <<local, remote, built, alone, edits, faults>>

\* download_and_verify: a file that is not the one the manifest names ends the download.
GetDb(d) ==
  /\ At(d, "get_db")
  /\ IF remote.db = op[d].snap.db THEN Goto(d, "get_skills") ELSE Become(d, NoOp)
  /\ UNCHANGED <<local, remote, built, alone, edits, faults>>

\* Mutant of GetSkills: the file is taken as it is.
GetSkillsUnverified(d) ==
  /\ At(d, "get_skills")
  /\ IF remote.skills # None
     THEN Become(d, [op[d] EXCEPT !.pc = "save", !.snap.skills = remote.skills])
     ELSE Become(d, NoOp)
  /\ UNCHANGED <<local, remote, built, alone, edits, faults>>

GetSkills(d) ==
  /\ At(d, "get_skills")
  /\ IF remote.skills = op[d].snap.skills THEN Goto(d, "save") ELSE Become(d, NoOp)
  /\ UNCHANGED <<local, remote, built, alone, edits, faults>>

\* A request fails, or the skills cannot be backed up: nothing has been changed yet.
GetFails(d) ==
  /\ Fault /\ op[d].pc \in Fetching \cup {"save"} /\ Become(d, NoOp)
  /\ UNCHANGED <<local, remote, built, alone, edits>>

-----------------------------------------------------------------------------
(* apply_snapshot *)

\* backup_current_skills
Save(d) ==
  /\ At(d, "save")
  /\ Become(d, [op[d] EXCEPT !.pc = "extract", !.saved = skills[d], !.was = db[d]])
  /\ UNCHANGED <<local, remote, built, alone, edits, faults>>

\* restore_skills_zip: the directory is set aside, and the new one copied in its place.
SetAside(d) ==
  /\ At(d, "extract")
  /\ Become(d, [op[d] EXCEPT !.pc = "copy", !.bak = skills[d]])
  /\ skills' = [skills EXCEPT ![d] = Half]
  /\ UNCHANGED <<db, rows, remote, built, alone, edits, faults>>

Copy(d) ==
  /\ At(d, "copy") /\ Become(d, [op[d] EXCEPT !.pc = "snap", !.bak = 0])
  /\ skills' = [skills EXCEPT ![d] = op[d].snap.skills]
  /\ UNCHANGED <<db, rows, remote, built, alone, edits, faults>>

\* Before that an archive that cannot be read changes nothing; after it a failed copy is
\* taken back.
CopyFails(d) ==
  /\ Fault /\ Become(d, [op[d] EXCEPT !.pc = "failed", !.bak = 0])
  /\ \/ At(d, "extract") /\ UNCHANGED skills
     \/ At(d, "copy") /\ skills' = [skills EXCEPT ![d] = op[d].bak]
  /\ UNCHANGED <<db, rows, remote, built, alone, edits>>

\* import_sql_string_inner: a copy of the local-only tables is read under the lock of the
\* connection, which is released while the new database is built beside the old one.
TakeRows(d, count) ==
  /\ At(d, "snap") /\ Become(d, [op[d] EXCEPT !.pc = "import", !.rows = count])
  /\ UNCHANGED <<local, remote, built, alone, edits>>

Snap(d) == TakeRows(d, rows[d]) /\ UNCHANGED faults

\* The same reading as for an export: of a locked database none of these rows are in the copy.
SnapLocked(d) == Fault /\ TakeRows(d, 0)

\* validate_basic_state refuses a database without a connection.
Refuse(d) ==
  /\ At(d, "import") /\ op[d].snap.db = Blank /\ Goto(d, "rollback")
  /\ UNCHANGED <<local, remote, built, alone, edits, faults>>

\* The new database, with the copy in it, is written over the old one.
Import(d) ==
  /\ At(d, "import") /\ op[d].snap.db # Blank
  /\ Become(d, [op[d] EXCEPT !.pc = "done", !.unwritten = FALSE])
  /\ db' = [db EXCEPT ![d] = op[d].snap.db]
  /\ rows' = [rows EXCEPT ![d] = op[d].rows]
  /\ UNCHANGED <<skills, remote, built, alone, edits, faults>>

\* Backup::step answers that the database is busy, and nobody looks: nothing is written,
\* and the download goes on as after an import.
ImportLocked(d) ==
  /\ Fault /\ At(d, "import") /\ op[d].snap.db # Blank
  /\ Become(d, [op[d] EXCEPT !.pc = "done", !.unwritten = TRUE])
  /\ UNCHANGED <<local, remote, built, alone, edits>>

\* Mutant of ImportFails: the skills stay replaced.
ImportFailsOnly(d) ==
  /\ Fault /\ op[d].pc \in {"snap", "import"} /\ Goto(d, "failed")
  /\ UNCHANGED <<local, remote, built, alone, edits>>

ImportFails(d) ==
  /\ Fault /\ op[d].pc \in {"snap", "import"} /\ Goto(d, "rollback")
  /\ UNCHANGED <<local, remote, built, alone, edits>>

\* restore_skills_from_backup: the directory is removed, and the copy written back.
Remove(d) ==
  /\ At(d, "rollback") /\ Goto(d, "restore")
  /\ skills' = [skills EXCEPT ![d] = Half]
  /\ UNCHANGED <<db, rows, remote, built, alone, edits, faults>>

Restore(d) ==
  /\ At(d, "restore") /\ Goto(d, "failed")
  /\ skills' = [skills EXCEPT ![d] = op[d].saved]
  /\ UNCHANGED <<db, rows, remote, built, alone, edits, faults>>

RestoreFails(d) ==
  /\ Fault /\ op[d].pc \in {"rollback", "restore"} /\ Goto(d, "broken")
  /\ UNCHANGED <<local, remote, built, alone, edits>>

\* The outcome is told, and the mutex released.
End(d) ==
  /\ op[d].pc \in Ended /\ Become(d, NoOp)
  /\ UNCHANGED <<local, remote, built, alone, edits, faults>>

-----------------------------------------------------------------------------
(* What else happens on a device *)

Touched(d) ==
  op' = IF op[d].pc \in Applying \cup Ended THEN [op EXCEPT ![d].touched = TRUE] ELSE op

EditDb(d) ==
  /\ edits < MaxEdits /\ edits' = edits + 1 /\ Touched(d)
  /\ db' = [db EXCEPT ![d] = Known + edits']
  /\ UNCHANGED <<skills, rows, remote, built, alone, faults>>

EditSkills(d) ==
  /\ edits < MaxEdits /\ edits' = edits + 1 /\ Touched(d)
  /\ skills' = [skills EXCEPT ![d] = Known + edits']
  /\ UNCHANGED <<db, rows, remote, built, alone, faults>>

\* A draft is saved, a change applied, a request of the gateway counted.
Record(d) ==
  /\ edits < MaxEdits /\ edits' = edits + 1
  /\ rows' = [rows EXCEPT ![d] = @ + 1]
  /\ UNCHANGED <<db, skills, remote, op, built, alone, faults>>

\* The process is killed: files and database stay as they are, and nobody looks for what
\* was set aside when it starts again.
Crash(d) ==
  /\ Fault /\ ~At(d, "idle") /\ Become(d, NoOp)
  /\ UNCHANGED <<local, remote, built, alone, edits>>

Step(d) ==
  \/ Zip(d) \/ Put(d)
  \/ GetManifest(d) \/ GetDb(d) \/ GetSkills(d)
  \/ Save(d) \/ SetAside(d) \/ Copy(d) \/ Snap(d) \/ Refuse(d) \/ Import(d)
  \/ Remove(d) \/ Restore(d)
  \/ End(d)
Locked(d) == ExportLocked(d) \/ SnapLocked(d) \/ ImportLocked(d)
Fails(d) == PutFails(d) \/ GetFails(d) \/ CopyFails(d) \/ ImportFails(d) \/ RestoreFails(d)
Next ==
  \E d \in Device :
    \/ StartUpload(d) \/ StartDownload(d) \/ Step(d) \/ Fails(d) \/ Locked(d) \/ Crash(d)
    \/ EditDb(d) \/ EditSkills(d) \/ Record(d)

Spec == Init /\ [][Next]_vars

\* Every request has a time limit, and the rest is computing.
Fairness == \A d \in Device : WF_vars(Step(d))
FairSpec == Spec /\ Fairness

-----------------------------------------------------------------------------
(* Properties *)

\* What a download applies is one snapshot that one device has made, however the files of
\* several uploads, whole or broken off, are mixed on the server (validate_manifest_compat
\* and verify_artifact in download, artifacts first and manifest last in upload).
NeverAMix ==
  \A d \in Device : op[d].pc \in Applying \cup {"done"} => op[d].snap \in built

\* A download that succeeds leaves database and skills of its snapshot, whatever an earlier
\* one that was killed left behind, unless the database was locked when it was written, and
\* then it is as it was; one that fails leaves both as they were, unless its rollback fails
\* too; unless somebody edits the device meanwhile (apply_snapshot).
AllOrNothing ==
  \A d \in Device :
    ~op[d].touched =>
      /\ At(d, "done") => /\ skills[d] = op[d].snap.skills
                         /\ db[d] = IF op[d].unwritten THEN op[d].was ELSE op[d].snap.db
      /\ At(d, "failed") => db[d] = op[d].was /\ skills[d] = op[d].saved

\* An upload that none has overlapped leaves three files that fit together, whatever was
\* on the server before.
AloneIsWhole ==
  \A d \in Device :
    At(d, "uploaded") /\ d \in alone =>
      remote = [db |-> op[d].snap.db, skills |-> op[d].snap.skills, manifest |-> op[d].snap]

\* A synchronisation that reports its end has moved a snapshot whole, to the server or to
\* the device, or has left the device alone (upload, apply_snapshot).
MovedWhole == AllOrNothing /\ AloneIsWhole

\* Once the files fit together and stay so, a device that keeps asking is served, database
\* and skills: nothing an earlier download, a crash, a failure or a lock left behind keeps it
\* from its snapshot.  A blank export fits, but is never applied.
Fits ==
  /\ remote.manifest # None /\ remote.db # Blank
  /\ remote.manifest = [db |-> remote.db, skills |-> remote.skills]
Served(d) == At(d, "done") /\ db[d] = remote.db /\ skills[d] = remote.skills
SettledIsServed ==
  \A d \in Reader : <>[]Fits /\ []<>At(d, "get_manifest") => []<>Served(d)

\* db/backup.rs: "Tables whose local data is preserved (restored from local snapshot)
\* during WebDAV import".
LocalRowsKept == [][\A d \in Device : rows'[d] >= rows[d]]_vars
=============================================================================
