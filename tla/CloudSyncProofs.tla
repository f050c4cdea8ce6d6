-------------------------- MODULE CloudSyncProofs --------------------------
(* Theorems about CloudSync, for any number of devices, edits and failures. *)
EXTENDS CloudSync, TLAPS

Carrying == {"put_db", "put_skills", "put_manifest", "uploaded"} \cup {"get_db", "get_skills"}
            \cup Applying \cup {"done"}

\* Every manifest, sent or read, is of a snapshot that was made.
SnapInv ==
  /\ remote.manifest # None => remote.manifest \in built
  /\ \A d \in Device : op[d].pc \in Carrying => op[d].snap \in built

\* What is on a device nobody has edited, at each stage of apply_snapshot.
Stage(q, D, S) ==
  /\ q.pc \in {"extract", "copy", "snap", "import", "rollback", "restore", "failed"} => D = q.was
  /\ q.pc = "extract" => S = q.saved
  /\ q.pc = "copy" => q.bak = q.saved
  /\ q.pc \in {"snap", "import"} => S = q.snap.skills
  /\ q.pc = "done" => S = q.snap.skills /\ D = IF q.unwritten THEN q.was ELSE q.snap.db
  /\ q.pc = "failed" => S = q.saved
ApplyInv == \A d \in Device : ~op[d].touched => Stage(op[d], db[d], skills[d])

\* What is on the server at each stage of an upload that none has overlapped.
Sent(q, R) ==
  /\ q.pc \in {"put_skills", "put_manifest", "uploaded"} => R.db = q.snap.db
  /\ q.pc \in {"put_manifest", "uploaded"} => R.skills = q.snap.skills
  /\ q.pc = "uploaded" => R.manifest = q.snap
AloneInv ==
  \A d \in alone : Sent(op[d], remote) /\ \A e \in Device : Uploading(e) => e = d

IInv == TypeOK /\ SnapInv /\ ApplyInv /\ AloneInv

-----------------------------------------------------------------------------
(* Types *)

LEMMA Contents ==
  /\ Content \subseteq Nat /\ 0 \in Content /\ 0 .. Known \subseteq Content
  /\ \A n \in 0 .. MaxEdits : Known + n \in Content
  /\ Content \subseteq Skills /\ Half \in Skills /\ Content \subseteq Exported /\ Blank \in Exported
  /\ NoSnapshot \in Snapshot /\ NoOp \in OpRec
<1>1. /\ Content \subseteq Nat /\ 0 \in Content /\ 0 .. Known \subseteq Content
      /\ \A n \in 0 .. MaxEdits : Known + n \in Content
      /\ 0 \in 0 .. MaxEdits
  BY SyncConstants DEF Content
<1>2. /\ Content \subseteq Skills /\ Half \in Skills
      /\ Content \subseteq Exported /\ Blank \in Exported
  BY DEF Skills, Exported
<1>3. NoSnapshot \in Snapshot
  BY <1>1, <1>2 DEF NoSnapshot, Snapshot
<1>4. NoOp \in OpRec
  BY <1>1, <1>2, <1>3 DEF NoOp, OpRec
<1> QED BY <1>1, <1>2, <1>3, <1>4

LEMMA InitType == Init => TypeOK
<1> SUFFICES ASSUME Init PROVE TypeOK
  OBVIOUS
<1>1. /\ db \in [Device -> Content] /\ skills \in [Device -> Skills]
      /\ rows \in [Device -> Nat]
  BY SyncConstants, Contents DEF Init
<1>2. op \in [Device -> OpRec] /\ built \subseteq Snapshot
  BY Contents DEF Init
<1>3. remote \in [db : Exported \cup {None}, skills : Skills \cup {None},
                  manifest : Snapshot \cup {None}]
  BY DEF Init
<1> QED BY <1>1, <1>2, <1>3, SyncConstants DEF Init, TypeOK

LEMMA FieldTypes ==
  ASSUME TypeOK, NEW d \in Device
  PROVE  /\ op[d] \in OpRec
         /\ op[d].snap \in Snapshot /\ op[d].snap.db \in Exported /\ op[d].snap.skills \in Skills
         /\ op[d].saved \in Skills /\ op[d].was \in Content /\ op[d].bak \in Skills
         /\ op[d].rows \in Nat /\ op[d].touched \in BOOLEAN
         /\ op[d].unwritten \in BOOLEAN
         /\ db[d] \in Content /\ skills[d] \in Skills /\ rows[d] \in Nat
<1>1. op[d] \in OpRec /\ db[d] \in Content /\ skills[d] \in Skills /\ rows[d] \in Nat
  BY DEF TypeOK
<1>2. op[d].snap \in Snapshot
  BY <1>1 DEF OpRec
<1> QED BY <1>1, <1>2 DEF OpRec, Snapshot

LEMMA GotoType ==
  ASSUME NEW q \in OpRec, NEW pc \in {"idle"} \cup Sending \cup Fetching \cup Applying \cup Ended
  PROVE  [q EXCEPT !.pc = pc] \in OpRec
BY DEF OpRec

-----------------------------------------------------------------------------
(* Steps *)

\* A step of one device that does not write to the server needs no more than this.
LEMMA Frame ==
  ASSUME IInv, NEW d \in Device, NEW n \in OpRec,
         op' = [op EXCEPT ![d] = n], remote' = remote, alone' = alone,
         built' \subseteq Snapshot, built \subseteq built',
         edits' \in 0 .. MaxEdits, faults' \in 0 .. MaxFaults,
         db' \in [Device -> Content], skills' \in [Device -> Skills],
         rows' \in [Device -> Nat],
         \A e \in Device \ {d} : db'[e] = db[e] /\ skills'[e] = skills[e],
         n.pc \in Carrying => n.snap \in built',
         ~n.touched => Stage(n, db'[d], skills'[d]),
         n.pc \in Sending => Uploading(d),
         d \in alone => Sent(n, remote)
  PROVE  IInv'
<1>1. op' \in [Device -> OpRec] /\ op'[d] = n /\ \A e \in Device \ {d} : op'[e] = op[e]
  BY DEF IInv, TypeOK
<1>2. TypeOK'
  BY <1>1 DEF IInv, TypeOK
<1>3. SnapInv'
  BY <1>1 DEF IInv, SnapInv
<1>4. ApplyInv'
  BY <1>1 DEF IInv, ApplyInv
<1>5. AloneInv'
  <2>1. \A f \in Device : Uploading(f)' => Uploading(f)
    BY <1>1 DEF Uploading
  <2>2. \A e \in alone : Sent(op'[e], remote')
    BY <1>1 DEF IInv, TypeOK, AloneInv
  <2> QED BY <2>1, <2>2 DEF IInv, AloneInv
<1> QED BY <1>2, <1>3, <1>4, <1>5 DEF IInv

\* The end of an operation.
LEMMA Idle ==
  ASSUME IInv, NEW d \in Device, op' = [op EXCEPT ![d] = NoOp], faults' \in 0 .. MaxFaults,
         UNCHANGED <<local, remote, built, alone, edits>>
  PROVE  IInv'
<1>1. /\ NoOp \in OpRec /\ NoOp.pc = "idle" /\ Stage(NoOp, db[d], skills[d])
      /\ NoOp.pc \notin Carrying \cup Sending /\ Sent(NoOp, remote)
  BY Contents DEF NoOp, Stage, Sent, Carrying, Applying, Sending
<1>2. /\ built' \subseteq Snapshot /\ edits' \in 0 .. MaxEdits /\ db' \in [Device -> Content]
      /\ skills' \in [Device -> Skills] /\ rows' \in [Device -> Nat]
      /\ db' = db /\ skills' = skills /\ remote' = remote /\ built' = built
  BY DEF IInv, TypeOK, local
<1> QED BY <1>1, <1>2, Frame

LEMMA FaultType == TypeOK /\ Fault => faults' \in 0 .. MaxFaults
BY SyncConstants DEF TypeOK, Fault

\* What the type invariant says of the variables a step leaves alone.
LEMMA Kept ==
  ASSUME TypeOK
  PROVE  /\ built \subseteq Snapshot /\ edits \in 0 .. MaxEdits /\ faults \in 0 .. MaxFaults
         /\ db \in [Device -> Content] /\ skills \in [Device -> Skills]
         /\ rows \in [Device -> Nat] /\ op \in [Device -> OpRec]
BY DEF TypeOK

LEMMA ExportKeeps ==
  ASSUME IInv, NEW d \in Device, NEW content \in Exported, Export(d, content),
         faults' \in 0 .. MaxFaults
  PROVE  IInv'
<1> DEFINE s == [NoSnapshot EXCEPT !.db = content]
           n == [NoOp EXCEPT !.pc = "zip", !.snap = s]
<1>1. /\ op' = [op EXCEPT ![d] = n] /\ UNCHANGED <<local, remote, built, edits>>
      /\ alone' = IF \E e \in Device : Uploading(e) THEN {} ELSE {d}
  BY DEF Export, Become
<1>2. s \in Snapshot /\ NoOp \in OpRec
  BY FieldTypes, Contents DEF IInv, NoSnapshot, Snapshot
<1> HIDE DEF s
<1>3. n \in OpRec /\ n.pc = "zip" /\ Stage(n, db[d], skills[d]) /\ Sent(n, remote)
      /\ n.pc \notin Carrying
  BY <1>2 DEF OpRec, Sending, Stage, Sent, Carrying, Applying
<1> HIDE DEF n
<1>4. op' \in [Device -> OpRec] /\ op'[d] = n /\ \A e \in Device \ {d} : op'[e] = op[e]
  BY <1>1, <1>3 DEF IInv, TypeOK
<1>5. alone' \subseteq {d} /\ (alone' # {} => \A e \in Device : ~Uploading(e))
  BY <1>1
<1>6. TypeOK'
  BY <1>1, <1>4, <1>5 DEF IInv, TypeOK, local
<1>7. SnapInv'
  BY <1>1, <1>3, <1>4 DEF IInv, SnapInv
<1>8. ApplyInv'
  BY <1>1, <1>3, <1>4 DEF IInv, ApplyInv, local
<1>9. AloneInv'
  BY <1>1, <1>3, <1>4, <1>5 DEF AloneInv, Uploading
<1> QED BY <1>6, <1>7, <1>8, <1>9 DEF IInv

LEMMA StartUploadKeeps ==
  ASSUME IInv, NEW d \in Device, StartUpload(d) \/ ExportLocked(d)
  PROVE  IInv'
<1>1. db[d] \in Exported /\ Blank \in Exported /\ faults \in 0 .. MaxFaults
  BY FieldTypes, Contents, Kept DEF IInv
<1>2. CASE StartUpload(d)
  BY <1>1, <1>2, ExportKeeps DEF StartUpload
<1>3. CASE ExportLocked(d)
  BY <1>1, <1>3, FaultType, ExportKeeps DEF ExportLocked, IInv
<1> QED BY <1>2, <1>3

LEMMA Replaced ==
  ASSUME NEW A, NEW B, NEW C, NEW r \in [db : A, skills : B, manifest : C],
         NEW a \in A, NEW b \in B, NEW c \in C
  PROVE  /\ [r EXCEPT !.db = a] \in [db : A, skills : B, manifest : C]
         /\ [r EXCEPT !.db = a].db = a /\ [r EXCEPT !.db = a].skills = r.skills
         /\ [r EXCEPT !.db = a].manifest = r.manifest
         /\ [r EXCEPT !.skills = b] \in [db : A, skills : B, manifest : C]
         /\ [r EXCEPT !.skills = b].skills = b /\ [r EXCEPT !.skills = b].db = r.db
         /\ [r EXCEPT !.skills = b].manifest = r.manifest
         /\ [r EXCEPT !.manifest = c] \in [db : A, skills : B, manifest : C]
         /\ [r EXCEPT !.manifest = c].manifest = c /\ [r EXCEPT !.manifest = c].db = r.db
         /\ [r EXCEPT !.manifest = c].skills = r.skills
OBVIOUS

\* A file is written: the request may be answered (n is the next place) or not (NoOp).
LEMMA SendKeeps ==
  ASSUME IInv, NEW d \in Device, NEW n \in OpRec, Send(d), op' = [op EXCEPT ![d] = n],
         faults' \in 0 .. MaxFaults, UNCHANGED <<local, built, alone, edits>>,
         \/ n = NoOp
         \/ /\ n.snap = op[d].snap
            /\ At(d, "put_db") => n.pc = "put_skills"
            /\ At(d, "put_skills") => n.pc = "put_manifest"
            /\ At(d, "put_manifest") => n.pc = "uploaded"
  PROVE  IInv'
<1>1. op' \in [Device -> OpRec] /\ op'[d] = n /\ \A e \in Device \ {d} : op'[e] = op[e]
  BY DEF IInv, TypeOK
<1>2. /\ op[d] \in OpRec /\ op[d].snap \in Snapshot
      /\ op[d].snap.db \in Exported /\ op[d].snap.skills \in Skills
  BY FieldTypes DEF IInv
<1>3. op[d].pc \in {"put_db", "put_skills", "put_manifest"} /\ Uploading(d)
  BY DEF Send, SendDb, SendSkills, SendManifest, At, Uploading, Sending
<1>4. op[d].snap \in built
  BY <1>3 DEF IInv, SnapInv, Carrying
<1>5. remote \in [db : Exported \cup {None}, skills : Skills \cup {None},
                  manifest : Snapshot \cup {None}]
  BY DEF IInv, TypeOK
<1>6. /\ At(d, "put_db") =>
           /\ remote'.db = op[d].snap.db /\ remote'.skills = remote.skills
           /\ remote'.manifest = remote.manifest
      /\ At(d, "put_skills") =>
           /\ remote'.skills = op[d].snap.skills /\ remote'.db = remote.db
           /\ remote'.manifest = remote.manifest
      /\ At(d, "put_manifest") =>
           /\ remote'.manifest = op[d].snap /\ remote'.db = remote.db
           /\ remote'.skills = remote.skills
      /\ remote' \in [db : Exported \cup {None}, skills : Skills \cup {None},
                      manifest : Snapshot \cup {None}]
  <2> DEFINE S == op[d].snap
  <2>1. S \in Snapshot /\ S.db \in Exported /\ S.skills \in Skills
    BY <1>2
  <2>2. \/ At(d, "put_db") /\ remote' = [remote EXCEPT !.db = S.db]
        \/ At(d, "put_skills") /\ remote' = [remote EXCEPT !.skills = S.skills]
        \/ At(d, "put_manifest") /\ remote' = [remote EXCEPT !.manifest = S]
    BY DEF Send, SendDb, SendSkills, SendManifest
  <2> HIDE DEF S
  <2> DEFINE A == Exported \cup {None}
             B == Skills \cup {None}
             C == Snapshot \cup {None}
  <2>a. remote \in [db : A, skills : B, manifest : C] /\ S.db \in A /\ S.skills \in B /\ S \in C
    BY <1>5, <2>1
  <2> HIDE DEF A, B, C
  <2>6. /\ [remote EXCEPT !.db = S.db] \in [db : A, skills : B, manifest : C]
        /\ [remote EXCEPT !.db = S.db].db = S.db
        /\ [remote EXCEPT !.db = S.db].skills = remote.skills
        /\ [remote EXCEPT !.db = S.db].manifest = remote.manifest
        /\ [remote EXCEPT !.skills = S.skills] \in [db : A, skills : B, manifest : C]
        /\ [remote EXCEPT !.skills = S.skills].skills = S.skills
        /\ [remote EXCEPT !.skills = S.skills].db = remote.db
        /\ [remote EXCEPT !.skills = S.skills].manifest = remote.manifest
        /\ [remote EXCEPT !.manifest = S] \in [db : A, skills : B, manifest : C]
        /\ [remote EXCEPT !.manifest = S].manifest = S
        /\ [remote EXCEPT !.manifest = S].db = remote.db
        /\ [remote EXCEPT !.manifest = S].skills = remote.skills
    BY <2>a, Replaced
  <2> USE DEF A, B, C
  <2>3. CASE At(d, "put_db")
    BY <2>2, <2>3, <2>6 DEF At, S
  <2>4. CASE At(d, "put_skills")
    BY <2>2, <2>4, <2>6 DEF At, S
  <2>5. CASE At(d, "put_manifest")
    BY <2>2, <2>5, <2>6 DEF At, S
  <2> QED BY <1>3, <2>3, <2>4, <2>5 DEF At, S
<1>7. \/ n.pc = "idle" /\ n = NoOp
      \/ /\ n.snap = op[d].snap /\ n.pc \in {"put_skills", "put_manifest", "uploaded"}
         /\ At(d, "put_db") => n.pc = "put_skills"
         /\ At(d, "put_skills") => n.pc = "put_manifest"
         /\ At(d, "put_manifest") => n.pc = "uploaded"
  <2>1. NoOp.pc = "idle"
    BY DEF NoOp
  <2> QED BY <1>3, <2>1 DEF At
<1>8. n.pc \in {"idle", "put_skills", "put_manifest", "uploaded"}
  BY <1>7
<1>9. TypeOK'
  BY <1>1, <1>6 DEF IInv, TypeOK, local
<1>10. SnapInv'
  <2>1. remote'.manifest # None => remote'.manifest \in built
    BY <1>3, <1>4, <1>6 DEF IInv, SnapInv, At
  <2>2. n.pc \in Carrying => n.snap \in built
    BY <1>4, <1>7 DEF Carrying, Applying
  <2> QED BY <1>1, <2>1, <2>2 DEF IInv, SnapInv
<1>11. ApplyInv'
  <2>1. Stage(n, db[d], skills[d])
    BY <1>8 DEF Stage
  <2> QED BY <1>1, <2>1 DEF IInv, ApplyInv, local
<1>12. AloneInv'
  <2>1. alone \subseteq {d} \cup {e \in Device : ~Uploading(d)}
    BY DEF IInv, TypeOK, AloneInv
  <2>2. alone \subseteq {d}
    BY <1>3, <2>1
  <2>3. d \in alone => Sent(op[d], remote) /\ \A e \in Device : Uploading(e) => e = d
    BY DEF IInv, AloneInv
  <2>4. d \in alone => Sent(n, remote')
    BY <1>2, <1>3, <1>6, <1>7, <2>3 DEF Sent, At
  <2>5. \A e \in Device \ {d} : Uploading(e)' => Uploading(e)
    BY <1>1 DEF Uploading
  <2> QED BY <1>1, <2>2, <2>3, <2>4, <2>5 DEF AloneInv
<1> QED BY <1>9, <1>10, <1>11, <1>12 DEF IInv

LEMMA UploadKeeps ==
  ASSUME IInv, NEW d \in Device, Zip(d) \/ Put(d) \/ PutFails(d)
  PROVE  IInv'
<1>0. /\ op[d] \in OpRec /\ op[d].snap \in Snapshot /\ NoOp \in OpRec
      /\ db[d] \in Content /\ skills[d] \in Skills
  BY FieldTypes, Contents DEF IInv
<1>1. CASE Zip(d)
  <2> DEFINE s == [op[d].snap EXCEPT !.skills = skills[d]]
             n == [op[d] EXCEPT !.pc = "put_db", !.snap = s]
  <2>1. /\ At(d, "zip") /\ op' = [op EXCEPT ![d] = n] /\ built' = built \cup {s}
        /\ UNCHANGED <<local, remote, alone, edits, faults>>
    BY <1>1 DEF Zip, Become
  <2>2. s \in Snapshot
    BY <1>0 DEF Snapshot
  <2> HIDE DEF s
  <2>3. n \in OpRec /\ n.pc = "put_db" /\ n.snap = s
    BY <1>0, <2>2 DEF OpRec, Sending
  <2> HIDE DEF n
  <2>4. /\ Stage(n, db'[d], skills'[d]) /\ Sent(n, remote) /\ n.pc \in Sending
        /\ Uploading(d)
    BY <2>1, <2>3 DEF Stage, Sent, Sending, Uploading, At
  <2>5. built' \subseteq Snapshot /\ built \subseteq built' /\ n.snap \in built'
    BY <2>1, <2>2, <2>3, Kept DEF IInv
  <2>6. db' = db /\ skills' = skills /\ rows' = rows /\ remote' = remote /\ alone' = alone
        /\ edits' = edits /\ faults' = faults
    BY <2>1 DEF local
  <2> QED BY <2>1, <2>3, <2>4, <2>5, <2>6, Kept, Frame DEF IInv
<1>2. CASE Put(d)
  <2> DEFINE pc == CASE At(d, "put_db") -> "put_skills"
                     [] At(d, "put_skills") -> "put_manifest"
                     [] At(d, "put_manifest") -> "uploaded"
             n == [op[d] EXCEPT !.pc = pc]
  <2>1. /\ Send(d) /\ op' = [op EXCEPT ![d] = n]
        /\ UNCHANGED <<local, built, alone, edits, faults>>
    BY <1>2 DEF Put, Goto, Become
  <2>2. At(d, "put_db") \/ At(d, "put_skills") \/ At(d, "put_manifest")
    BY <2>1 DEF Send, SendDb, SendSkills, SendManifest
  <2>3. /\ At(d, "put_db") => pc = "put_skills"
        /\ At(d, "put_skills") => pc = "put_manifest"
        /\ At(d, "put_manifest") => pc = "uploaded"
    BY <2>2 DEF At
  <2>4. pc \in Sending \cup Ended
    BY <2>2, <2>3 DEF Sending, Ended
  <2> HIDE DEF pc
  <2>5. n \in OpRec /\ n.pc = pc /\ n.snap = op[d].snap
    BY <1>0, <2>4 DEF OpRec
  <2> HIDE DEF n
  <2>6. faults' \in 0 .. MaxFaults /\ UNCHANGED <<local, built, alone, edits>>
    BY <2>1, Kept DEF IInv
  <2> QED BY <2>1, <2>3, <2>5, <2>6, SendKeeps
<1>3. CASE PutFails(d)
  <2>1. /\ op' = [op EXCEPT ![d] = NoOp] /\ UNCHANGED <<local, built, alone, edits>>
        /\ faults' \in 0 .. MaxFaults /\ (Send(d) \/ UNCHANGED remote)
    BY <1>3, FaultType DEF PutFails, Become, IInv
  <2>2. CASE Send(d)
    BY <1>0, <2>1, <2>2, SendKeeps
  <2>3. CASE UNCHANGED remote
    BY <2>1, <2>3, Idle
  <2> QED BY <2>1, <2>2, <2>3
<1> QED BY <1>1, <1>2, <1>3

\* A download goes on, with the snapshot it has, and leaves the server alone.
LEMMA DownloadFrame ==
  ASSUME IInv, NEW d \in Device, NEW n \in OpRec, op' = [op EXCEPT ![d] = n],
         op[d].pc \in Carrying, n.pc \notin Sending \cup {"uploaded"}, n.snap = op[d].snap,
         UNCHANGED <<remote, built, alone, edits>>, faults' \in 0 .. MaxFaults,
         db' \in [Device -> Content], skills' \in [Device -> Skills],
         rows' \in [Device -> Nat],
         \A e \in Device \ {d} : db'[e] = db[e] /\ skills'[e] = skills[e],
         ~n.touched => Stage(n, db'[d], skills'[d])
  PROVE  IInv'
<1>1. n.snap \in built /\ built' = built /\ Sent(n, remote)
  BY DEF IInv, SnapInv, Sent, Sending
<1>2. built' \subseteq Snapshot /\ edits' \in 0 .. MaxEdits
  BY Kept DEF IInv
<1> QED BY <1>1, <1>2, Frame

LEMMA FetchKeeps ==
  ASSUME IInv, NEW d \in Device,
         StartDownload(d) \/ GetManifest(d) \/ GetDb(d) \/ GetSkills(d) \/ GetFails(d)
  PROVE  IInv'
<1>0. /\ op[d] \in OpRec /\ NoOp \in OpRec /\ db \in [Device -> Content]
      /\ skills \in [Device -> Skills] /\ rows \in [Device -> Nat]
      /\ built \subseteq Snapshot /\ edits \in 0 .. MaxEdits /\ faults \in 0 .. MaxFaults
  BY FieldTypes, Contents, Kept DEF IInv
<1>1. CASE StartDownload(d)
  <2> DEFINE n == [NoOp EXCEPT !.pc = "get_manifest"]
  <2>1. op' = [op EXCEPT ![d] = n] /\ UNCHANGED <<local, remote, built, alone, edits, faults>>
    BY <1>1 DEF StartDownload, Become
  <2>2. n \in OpRec /\ n.pc = "get_manifest"
    BY <1>0 DEF OpRec, Fetching
  <2> HIDE DEF n
  <2>3. /\ Stage(n, db[d], skills[d]) /\ Sent(n, remote) /\ n.pc \notin Sending
        /\ n.pc \notin Carrying
    BY <2>2 DEF Stage, Sent, Sending, Carrying, Applying
  <2>4. db' = db /\ skills' = skills /\ rows' = rows /\ remote' = remote /\ alone' = alone
        /\ built' = built /\ edits' = edits /\ faults' = faults
    BY <2>1 DEF local
  <2> QED BY <1>0, <2>1, <2>2, <2>3, <2>4, Frame
<1>2. ASSUME op' = [op EXCEPT ![d] = NoOp], UNCHANGED <<local, remote, built, alone, edits, faults>>
      PROVE  IInv'
  BY <1>0, <1>2, Idle
<1>3. CASE GetManifest(d) /\ remote.manifest # None
  <2> DEFINE n == [op[d] EXCEPT !.pc = "get_db", !.snap = remote.manifest]
  <2>1. op' = [op EXCEPT ![d] = n] /\ UNCHANGED <<local, remote, built, alone, edits, faults>>
    BY <1>3 DEF GetManifest, Become
  <2>2. remote.manifest \in Snapshot /\ remote.manifest \in built
    BY <1>3, Kept DEF IInv, SnapInv
  <2>3. n \in OpRec /\ n.pc = "get_db" /\ n.snap = remote.manifest
    BY <1>0, <2>2 DEF OpRec, Fetching
  <2> HIDE DEF n
  <2>4. Stage(n, db[d], skills[d]) /\ Sent(n, remote) /\ n.pc \notin Sending
    BY <2>3 DEF Stage, Sent, Sending
  <2>5. db' = db /\ skills' = skills /\ rows' = rows /\ remote' = remote /\ alone' = alone
        /\ built' = built /\ edits' = edits /\ faults' = faults
    BY <2>1 DEF local
  <2> QED BY <1>0, <2>1, <2>2, <2>3, <2>4, <2>5, Frame
<1>4. ASSUME NEW pc \in {"get_skills", "save"}, Goto(d, pc), op[d].pc \in {"get_db", "get_skills"},
             UNCHANGED <<local, remote, built, alone, edits, faults>>
      PROVE  IInv'
  <2> DEFINE n == [op[d] EXCEPT !.pc = pc]
  <2>1. op' = [op EXCEPT ![d] = n] /\ op[d].pc \in Carrying
    BY <1>4 DEF Goto, Become, Carrying
  <2>2. n \in OpRec /\ n.pc = pc /\ n.snap = op[d].snap
    BY <1>0 DEF OpRec, Fetching, Applying
  <2> HIDE DEF n
  <2>3. Stage(n, db[d], skills[d]) /\ n.pc \notin Sending \cup {"uploaded"}
    BY <2>2 DEF Stage, Sending
  <2>4. db' = db /\ skills' = skills /\ rows' = rows /\ faults' = faults
        /\ UNCHANGED <<remote, built, alone, edits>>
    BY <1>4 DEF local
  <2> QED BY <1>0, <2>1, <2>2, <2>3, <2>4, DownloadFrame
<1>5. CASE GetManifest(d) /\ remote.manifest = None
  BY <1>2, <1>5 DEF GetManifest, Become
<1>6. CASE GetDb(d)
  BY <1>2, <1>4, <1>6 DEF GetDb, Become, At
<1>7. CASE GetSkills(d)
  BY <1>2, <1>4, <1>7 DEF GetSkills, Become, At
<1>8. CASE GetFails(d)
  <2>1. faults' \in 0 .. MaxFaults /\ op' = [op EXCEPT ![d] = NoOp]
        /\ UNCHANGED <<local, remote, built, alone, edits>>
    BY <1>8, FaultType DEF GetFails, Become, IInv
  <2> QED BY <2>1, Idle
<1> QED BY <1>1, <1>3, <1>5, <1>6, <1>7, <1>8

LEMMA ApplyKeeps ==
  ASSUME IInv, NEW d \in Device,
         Save(d) \/ SetAside(d) \/ Copy(d) \/ CopyFails(d) \/ Snap(d) \/ SnapLocked(d)
         \/ Refuse(d) \/ Import(d) \/ ImportLocked(d) \/ ImportFails(d) \/ Remove(d) \/ Restore(d) \/ RestoreFails(d)
  PROVE  IInv'
<1>0. /\ op[d] \in OpRec /\ db \in [Device -> Content] /\ skills \in [Device -> Skills]
      /\ rows \in [Device -> Nat] /\ faults \in 0 .. MaxFaults
      /\ db[d] \in Content /\ skills[d] \in Skills /\ rows[d] \in Nat
      /\ op[d].snap.db \in Exported /\ op[d].snap.skills \in Skills /\ op[d].saved \in Skills
      /\ op[d].bak \in Skills /\ op[d].rows \in Nat /\ 0 \in Skills /\ Half \in Skills
  BY FieldTypes, Contents, Kept DEF IInv
<1>a. ~op[d].touched => Stage(op[d], db[d], skills[d])
  BY DEF IInv, ApplyInv
<1>1. CASE Save(d)
  <2> DEFINE n == [op[d] EXCEPT !.pc = "extract", !.saved = skills[d], !.was = db[d]]
  <2>1. /\ op[d].pc = "save" /\ op' = [op EXCEPT ![d] = n]
        /\ UNCHANGED <<local, remote, built, alone, edits, faults>>
    BY <1>1 DEF Save, Become, At
  <2>2. /\ n \in OpRec /\ n.pc = "extract" /\ n.saved = skills[d] /\ n.was = db[d]
        /\ n.snap = op[d].snap
    BY <1>0 DEF OpRec, Applying
  <2> HIDE DEF n
  <2>3. Stage(n, db'[d], skills'[d])
    BY <2>1, <2>2 DEF Stage, local
  <2> QED BY <1>0, <2>1, <2>2, <2>3, DownloadFrame DEF local, Carrying, Applying, Sending
<1>2. CASE SetAside(d)
  <2> DEFINE n == [op[d] EXCEPT !.pc = "copy", !.bak = skills[d]]
  <2>1. /\ op[d].pc = "extract" /\ op' = [op EXCEPT ![d] = n]
        /\ skills' = [skills EXCEPT ![d] = Half]
        /\ UNCHANGED <<db, rows, remote, built, alone, edits, faults>>
    BY <1>2 DEF SetAside, Become, At
  <2>2. /\ n \in OpRec /\ n.pc = "copy" /\ n.saved = op[d].saved /\ n.was = op[d].was
        /\ n.bak = skills[d] /\ n.snap = op[d].snap /\ n.touched = op[d].touched
    BY <1>0 DEF OpRec, Applying
  <2> HIDE DEF n
  <2>3. ~n.touched => Stage(n, db'[d], skills'[d])
    BY <1>a, <2>1, <2>2 DEF Stage
  <2> QED BY <1>0, <2>1, <2>2, <2>3, DownloadFrame DEF Carrying, Applying, Sending
<1>3. CASE Copy(d)
  <2> DEFINE n == [op[d] EXCEPT !.pc = "snap", !.bak = 0]
  <2>1. /\ op[d].pc = "copy" /\ op' = [op EXCEPT ![d] = n]
        /\ skills' = [skills EXCEPT ![d] = op[d].snap.skills]
        /\ UNCHANGED <<db, rows, remote, built, alone, edits, faults>>
    BY <1>3 DEF Copy, Become, At
  <2>2. /\ n \in OpRec /\ n.pc = "snap" /\ n.was = op[d].was /\ n.snap = op[d].snap
        /\ n.touched = op[d].touched
    BY <1>0 DEF OpRec, Applying
  <2> HIDE DEF n
  <2>3. ~n.touched => Stage(n, db'[d], skills'[d])
    BY <1>0, <1>a, <2>1, <2>2 DEF Stage
  <2> QED BY <1>0, <2>1, <2>2, <2>3, DownloadFrame DEF Carrying, Applying, Sending
<1>4. CASE CopyFails(d)
  <2> DEFINE n == [op[d] EXCEPT !.pc = "failed", !.bak = 0]
  <2>1. /\ op' = [op EXCEPT ![d] = n] /\ faults' \in 0 .. MaxFaults
        /\ \/ op[d].pc = "extract" /\ UNCHANGED skills
           \/ op[d].pc = "copy" /\ skills' = [skills EXCEPT ![d] = op[d].bak]
        /\ UNCHANGED <<db, rows, remote, built, alone, edits>>
    BY <1>4, FaultType DEF CopyFails, Become, At, IInv
  <2>2. /\ n \in OpRec /\ n.pc = "failed" /\ n.was = op[d].was /\ n.snap = op[d].snap
        /\ n.saved = op[d].saved /\ n.touched = op[d].touched
    BY <1>0 DEF OpRec, Ended
  <2> HIDE DEF n
  <2>3. ~n.touched => Stage(n, db'[d], skills'[d])
    BY <1>0, <1>a, <2>1, <2>2 DEF Stage
  <2>4. /\ skills' \in [Device -> Skills] /\ \A e \in Device \ {d} : skills'[e] = skills[e]
        /\ op[d].pc \in Carrying
    BY <1>0, <2>1 DEF Carrying, Applying
  <2> QED BY <1>0, <2>1, <2>2, <2>3, <2>4, DownloadFrame DEF Sending
<1>5. ASSUME NEW count \in Nat, TakeRows(d, count), faults' \in 0 .. MaxFaults PROVE IInv'
  <2> DEFINE n == [op[d] EXCEPT !.pc = "import", !.rows = count]
  <2>1. /\ op[d].pc = "snap" /\ op' = [op EXCEPT ![d] = n]
        /\ UNCHANGED <<local, remote, built, alone, edits>>
    BY <1>5 DEF TakeRows, Become, At
  <2>2. /\ n \in OpRec /\ n.pc = "import" /\ n.was = op[d].was /\ n.snap = op[d].snap
        /\ n.touched = op[d].touched
    BY <1>0 DEF OpRec, Applying
  <2> HIDE DEF n
  <2>3. ~n.touched => Stage(n, db'[d], skills'[d])
    BY <1>a, <2>1, <2>2 DEF Stage, local
  <2> QED BY <1>0, <1>5, <2>1, <2>2, <2>3, DownloadFrame DEF local, Carrying, Applying, Sending
<1>6. CASE Import(d)
  <2> DEFINE n == [op[d] EXCEPT !.pc = "done", !.unwritten = FALSE]
  <2>1. /\ op[d].pc = "import" /\ op' = [op EXCEPT ![d] = n] /\ op[d].snap.db \in Content
        /\ db' = [db EXCEPT ![d] = op[d].snap.db] /\ rows' = [rows EXCEPT ![d] = op[d].rows]
        /\ UNCHANGED <<skills, remote, built, alone, edits, faults>>
    BY <1>0, <1>6 DEF Import, Become, At, Exported
  <2>2. /\ n \in OpRec /\ n.pc = "done" /\ n.snap = op[d].snap /\ n.touched = op[d].touched
        /\ ~n.unwritten
    BY <1>0 DEF OpRec, Ended
  <2> HIDE DEF n
  <2>3. ~n.touched => Stage(n, db'[d], skills'[d])
    BY <1>0, <1>a, <2>1, <2>2 DEF Stage
  <2> QED BY <1>0, <2>1, <2>2, <2>3, DownloadFrame DEF Carrying, Applying, Sending
<1>7. CASE ImportLocked(d)
  <2> DEFINE n == [op[d] EXCEPT !.pc = "done", !.unwritten = TRUE]
  <2>1. /\ op[d].pc = "import" /\ op' = [op EXCEPT ![d] = n]
        /\ faults' \in 0 .. MaxFaults /\ UNCHANGED <<local, remote, built, alone, edits>>
    BY <1>7, FaultType DEF ImportLocked, Become, At, IInv
  <2>2. /\ n \in OpRec /\ n.pc = "done" /\ n.snap = op[d].snap /\ n.touched = op[d].touched
        /\ n.was = op[d].was /\ n.unwritten
    BY <1>0 DEF OpRec, Ended
  <2> HIDE DEF n
  <2>3. ~n.touched => Stage(n, db'[d], skills'[d])
    BY <1>a, <2>1, <2>2 DEF Stage, local
  <2> QED BY <1>0, <2>1, <2>2, <2>3, DownloadFrame DEF local, Carrying, Applying, Sending
<1>8. CASE ImportFails(d) \/ Refuse(d)
  <2> DEFINE n == [op[d] EXCEPT !.pc = "rollback"]
  <2>1. /\ op[d].pc \in {"snap", "import"} /\ op' = [op EXCEPT ![d] = n]
        /\ faults' \in 0 .. MaxFaults /\ UNCHANGED <<local, remote, built, alone, edits>>
    BY <1>0, <1>8, FaultType DEF ImportFails, Refuse, At, Goto, Become, IInv
  <2>2. /\ n \in OpRec /\ n.pc = "rollback" /\ n.was = op[d].was /\ n.snap = op[d].snap
        /\ n.touched = op[d].touched
    BY <1>0 DEF OpRec, Applying
  <2> HIDE DEF n
  <2>3. ~n.touched => Stage(n, db'[d], skills'[d])
    BY <1>a, <2>1, <2>2 DEF Stage, local
  <2> QED BY <1>0, <2>1, <2>2, <2>3, DownloadFrame DEF local, Carrying, Applying, Sending
<1>9. CASE Remove(d)
  <2> DEFINE n == [op[d] EXCEPT !.pc = "restore"]
  <2>1. /\ op[d].pc = "rollback" /\ op' = [op EXCEPT ![d] = n]
        /\ skills' = [skills EXCEPT ![d] = Half]
        /\ UNCHANGED <<db, rows, remote, built, alone, edits, faults>>
    BY <1>9 DEF Remove, Goto, Become, At
  <2>2. /\ n \in OpRec /\ n.pc = "restore" /\ n.was = op[d].was /\ n.snap = op[d].snap
        /\ n.touched = op[d].touched
    BY <1>0 DEF OpRec, Applying
  <2> HIDE DEF n
  <2>3. ~n.touched => Stage(n, db'[d], skills'[d])
    BY <1>a, <2>1, <2>2 DEF Stage
  <2> QED BY <1>0, <2>1, <2>2, <2>3, DownloadFrame DEF Carrying, Applying, Sending
<1>10. CASE Restore(d)
  <2> DEFINE n == [op[d] EXCEPT !.pc = "failed"]
  <2>1. /\ op[d].pc = "restore" /\ op' = [op EXCEPT ![d] = n]
        /\ skills' = [skills EXCEPT ![d] = op[d].saved]
        /\ UNCHANGED <<db, rows, remote, built, alone, edits, faults>>
    BY <1>10 DEF Restore, Goto, Become, At
  <2>2. /\ n \in OpRec /\ n.pc = "failed" /\ n.was = op[d].was /\ n.snap = op[d].snap
        /\ n.saved = op[d].saved /\ n.touched = op[d].touched
    BY <1>0 DEF OpRec, Ended
  <2> HIDE DEF n
  <2>3. ~n.touched => Stage(n, db'[d], skills'[d])
    BY <1>0, <1>a, <2>1, <2>2 DEF Stage
  <2> QED BY <1>0, <2>1, <2>2, <2>3, DownloadFrame DEF Carrying, Applying, Sending
<1>11. CASE RestoreFails(d)
  <2> DEFINE n == [op[d] EXCEPT !.pc = "broken"]
  <2>1. /\ op[d].pc \in {"rollback", "restore"} /\ op' = [op EXCEPT ![d] = n]
        /\ faults' \in 0 .. MaxFaults /\ UNCHANGED <<local, remote, built, alone, edits>>
    BY <1>11, FaultType DEF RestoreFails, Goto, Become, IInv
  <2>2. n \in OpRec /\ n.pc = "broken" /\ n.snap = op[d].snap
    BY <1>0 DEF OpRec, Ended
  <2> HIDE DEF n
  <2>3. Stage(n, db'[d], skills'[d])
    BY <2>2 DEF Stage
  <2> QED BY <1>0, <2>1, <2>2, <2>3, DownloadFrame DEF local, Carrying, Applying, Sending
<1>12. CASE Snap(d) \/ SnapLocked(d)
  BY <1>0, <1>5, <1>12, FaultType DEF Snap, SnapLocked, IInv
<1> QED BY <1>1, <1>2, <1>3, <1>4, <1>6, <1>7, <1>8, <1>9, <1>10, <1>11, <1>12

LEMMA DeviceKeeps ==
  ASSUME IInv, NEW d \in Device, EditDb(d) \/ EditSkills(d) \/ Record(d)
  PROVE  IInv'
<1>0. /\ op \in [Device -> OpRec] /\ op[d] \in OpRec /\ db \in [Device -> Content]
      /\ skills \in [Device -> Skills] /\ rows \in [Device -> Nat]
      /\ faults \in 0 .. MaxFaults /\ built \subseteq Snapshot
  BY FieldTypes, Kept DEF IInv
<1>1. /\ edits' \in 0 .. MaxEdits /\ edits' \in Nat /\ Known + edits' \in Content
      /\ Known + edits' \in Skills
  <2>1. edits \in 0 .. MaxEdits /\ edits < MaxEdits /\ edits' = edits + 1
    BY Kept DEF IInv, EditDb, EditSkills, Record
  <2>2. edits' \in 0 .. MaxEdits
    BY <2>1, SyncConstants
  <2>3. edits' \in Nat
    BY <2>2, SyncConstants
  <2>4. Known + edits' \in Content /\ Content \subseteq Skills
    BY <2>2, Contents, Zenon
  <2> QED BY <2>2, <2>3, <2>4
<1>2. CASE Record(d)
  <2>1. /\ UNCHANGED <<db, skills, remote, op, built, alone, faults>> /\ rows' \in [Device -> Nat]
    BY <1>0, <1>2 DEF Record
  <2>2. TypeOK'
    BY <1>1, <2>1 DEF IInv, TypeOK
  <2> QED BY <2>1, <2>2 DEF IInv, SnapInv, ApplyInv, AloneInv, Uploading
<1>3. CASE EditDb(d) \/ EditSkills(d)
  <2>1. /\ Touched(d) /\ UNCHANGED <<rows, remote, built, alone, faults>>
        /\ db' \in [Device -> Content] /\ skills' \in [Device -> Skills]
        /\ \A e \in Device \ {d} : db'[e] = db[e] /\ skills'[e] = skills[e]
    BY <1>0, <1>1, <1>3 DEF EditDb, EditSkills
  <2>2. CASE op[d].pc \in Applying \cup Ended
    <3> DEFINE n == [op[d] EXCEPT !.touched = TRUE]
    <3>1. op' = [op EXCEPT ![d] = n]
      BY <2>1, <2>2, Zenon DEF Touched
    <3>2. /\ n \in OpRec /\ n.pc = op[d].pc /\ n.snap = op[d].snap /\ n.touched
      BY <1>0 DEF OpRec
    <3> HIDE DEF n
    <3>3. n.pc \notin Sending /\ (n.pc \in Carrying => n.snap \in built)
      BY <2>2, <3>2 DEF IInv, SnapInv, Applying, Ended, Sending
    <3>4. d \in alone => Sent(n, remote)
      BY <3>2 DEF IInv, AloneInv, Sent
    <3> QED BY <1>0, <1>1, <2>1, <3>1, <3>2, <3>3, <3>4, Frame
  <2>3. CASE op[d].pc \notin Applying \cup Ended
    <3>1. op' = op /\ op = [op EXCEPT ![d] = op[d]]
      BY <1>0, <2>1, <2>3 DEF Touched
    <3>2. Stage(op[d], db'[d], skills'[d])
      BY <2>3 DEF Stage, Applying, Ended
    <3>3. op[d].pc \in Sending => Uploading(d)
      BY DEF Uploading
    <3>4. /\ op[d].pc \in Carrying => op[d].snap \in built
          /\ d \in alone => Sent(op[d], remote)
      BY DEF IInv, SnapInv, AloneInv
    <3> QED BY <1>0, <1>1, <2>1, <3>1, <3>2, <3>3, <3>4, Frame
  <2> QED BY <2>2, <2>3
<1> QED BY <1>2, <1>3

-----------------------------------------------------------------------------
(* The theorems *)

LEMMA InitIInv == Init => IInv
<1> SUFFICES ASSUME Init PROVE IInv
  OBVIOUS
<1>1. \A d \in Device : op[d] = NoOp
  BY DEF Init
<1>2. remote.manifest = None /\ alone = {}
  BY DEF Init
<1>3. NoOp.pc = "idle"
  BY DEF NoOp
<1>4. SnapInv
  BY <1>1, <1>2, <1>3 DEF SnapInv, Carrying, Applying
<1>5. ApplyInv
  BY <1>1, <1>3 DEF ApplyInv, Stage
<1>6. AloneInv
  BY <1>2 DEF AloneInv
<1> QED BY <1>4, <1>5, <1>6, InitType DEF IInv

LEMMA StepIInv ==
  ASSUME IInv, [Next]_vars
  PROVE  IInv'
<1>1. CASE UNCHANGED vars
  <2>1. /\ UNCHANGED <<db, skills, rows, remote, op, built, alone>>
        /\ UNCHANGED <<edits, faults>>
    BY <1>1 DEF vars, local
  <2>2. TypeOK' /\ SnapInv'
    BY <2>1 DEF IInv, TypeOK, SnapInv
  <2>3. ApplyInv' /\ AloneInv'
    BY <2>1 DEF IInv, ApplyInv, AloneInv, Uploading
  <2> QED BY <2>2, <2>3 DEF IInv
<1>2. ASSUME NEW d \in Device, Step(d) PROVE IInv'
  <2>1. CASE End(d)
    BY <2>1, Kept, Idle DEF End, Become, IInv
  <2> QED BY <1>2, <2>1, UploadKeeps, FetchKeeps, ApplyKeeps DEF Step
<1>3. ASSUME NEW d \in Device, Crash(d) PROVE IInv'
  BY <1>3, FaultType, Idle DEF Crash, Become, IInv
<1>4. ASSUME NEW d \in Device, Fails(d) PROVE IInv'
  BY <1>4, UploadKeeps, FetchKeeps, ApplyKeeps DEF Fails
<1>5. ASSUME NEW d \in Device, Locked(d) PROVE IInv'
  BY <1>5, StartUploadKeeps, ApplyKeeps DEF Locked
<1> QED BY <1>1, <1>2, <1>3, <1>4, <1>5, StartUploadKeeps, FetchKeeps, DeviceKeeps DEF Next

\* The inductive invariant: what every place of an upload or a download says of the
\* server and of the device (upload, download, apply_snapshot).
THEOREM IInvAlways == Spec => []IInv
<1>1. IInv /\ [Next]_vars => IInv'
  BY StepIInv
<1> QED BY InitIInv, <1>1, PTL DEF Spec

\* The files, the devices and their operations keep their types.
THEOREM SyncTypeCorrect == Spec => []TypeOK
<1>1. IInv => TypeOK
  BY DEF IInv
<1> QED BY IInvAlways, <1>1, PTL

\* No download applies files of two uploads, for any number of devices that upload at once
\* and are killed (verify_artifact against the manifest).
THEOREM NeverApplyAMix == Spec => []NeverAMix
<1>1. IInv => NeverAMix
  BY DEF IInv, SnapInv, NeverAMix, Carrying
<1> QED BY IInvAlways, <1>1, PTL

\* A download replaces database and skills, or neither, unless its rollback fails or the
\* device is edited; if the database was locked when it was to be written, the skills alone
\* (apply_snapshot, restore_skills_zip, restore_skills_from_backup, import_sql_string_inner).
THEOREM AlwaysAllOrNothing == Spec => []AllOrNothing
<1>1. IInv => AllOrNothing
  BY DEF IInv, ApplyInv, Stage, AllOrNothing, At
<1> QED BY IInvAlways, <1>1, PTL

\* An upload that no other overlaps leaves the server with the three files of one snapshot,
\* whatever uploads were broken off before it (upload: the manifest last).
THEOREM AloneIsAlwaysWhole == Spec => []AloneIsWhole
<1>1. ASSUME IInv PROVE AloneIsWhole
  <2> SUFFICES ASSUME NEW d \in Device, op[d].pc = "uploaded", d \in alone
               PROVE  remote = [db |-> op[d].snap.db, skills |-> op[d].snap.skills,
                                manifest |-> op[d].snap]
    BY DEF AloneIsWhole, At
  <2>1. Sent(op[d], remote)
    BY <1>1 DEF IInv, AloneInv
  <2>2. /\ remote.db = op[d].snap.db /\ remote.skills = op[d].snap.skills
        /\ remote.manifest = op[d].snap
    BY <2>1 DEF Sent
  <2>3. remote = [db |-> remote.db, skills |-> remote.skills, manifest |-> remote.manifest]
    BY <1>1 DEF IInv, TypeOK
  <2> QED BY <2>2, <2>3
<1> QED BY IInvAlways, <1>1, PTL

\* What a synchronisation has moved when it ends is a whole snapshot, in both directions
\* and for any number of devices, with the same exceptions.
THEOREM AlwaysMovedWhole == Spec => []MovedWhole
BY AlwaysAllOrNothing, AloneIsAlwaysWhole, PTL DEF MovedWhole

=============================================================================
