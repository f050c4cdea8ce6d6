---------------------------- MODULE ConfigCommit ----------------------------
(***************************************************************************)
(* Applying a connection to an AI tool's live configuration, undoing it,   *)
(* and recovering what a crash interrupted: FileCommitTransaction (the     *)
(* receipt journal and the file writes), Application::apply_editor_draft,  *)
(* undo_config_apply and recover_config_commits (the order of files,       *)
(* device setting and database), and the editor-draft transactions.        *)
(*                                                                         *)
(* One switch-mode application is modelled: its live files, its            *)
(* connections in the database, its current connection in the database    *)
(* (dbCur) and in settings.json (device), its config_apply_heads row       *)
(* (head) and its drafts.  A connection record is abstracted to the bytes  *)
(* its write plan gives each live file, so equality of records stands for  *)
(* equality of provider_revision_hash.                                     *)
(***************************************************************************)
EXTENDS Naturals, FiniteSets

CONSTANTS
  Proc,         \* OcHub processes sharing the data directory
  Viewer,       \* the processes whose other threads read and delete connections
  NFiles,       \* live files of the application, written in this order
  Bytes,        \* contents of a live file
  Absent,       \* the content of a file that does not exist
  ExtBytes,     \* what programs other than OcHub may write to a live file
  Conn,         \* connection ids
  Draft,        \* editor draft ids
  TempDraft,    \* the "operation-<uuid>" drafts of the CLI/RPC bridge
  Receipt,      \* receipt ids
  Input,        \* what a draft may hold
  Policy,       \* what the user does about drift: a subset of DriftPolicy
  Builtin,      \* FALSE for a manifest plugin, which has no device setting
  InitConns,    \* the connections the database starts with
  InitCurrent,  \* the current one
  None,
  MaxRev,       \* bound on draft revisions
  MaxFaults,    \* bound on crashes and failed I/O
  MaxEdits,     \* bound on writes by other programs and connection edits
  InWindow      \* TRUE: other programs may write between a check and its rename

File == 1 .. NFiles
Cfg == [File -> Bytes]
DriftPolicy == {"abort", "save", "revert"}

InputType == [orig : Conn \cup {None}, conn : Conn, cfg : Cfg, gateway : BOOLEAN]

ASSUME ConfigConstants ==
  /\ NFiles \in Nat \ {0}
  /\ MaxRev \in Nat /\ MaxFaults \in Nat /\ MaxEdits \in Nat
  /\ Absent \in Bytes /\ ExtBytes \subseteq Bytes
  /\ Viewer \subseteq Proc /\ TempDraft \subseteq Draft
  /\ Input \subseteq InputType
  /\ Policy \subseteq DriftPolicy
  /\ Builtin \in BOOLEAN /\ InWindow \in BOOLEAN
  /\ InitConns \in [Conn -> Cfg \cup {None}]
  /\ InitCurrent \in Conn
  /\ InitConns[InitCurrent] \in Cfg
  /\ None \notin Proc \cup Conn \cup Draft \cup Receipt \cup Cfg

VARIABLES
  live,      \* the live files
  journal,   \* runtime/config-commits: one record per receipt
  conns,     \* providers table: the record of each connection
  dbCur,     \* providers.is_current
  head,      \* config_apply_heads row of target "*"
  drafts,    \* editor_drafts table
  device,    \* current_provider_<app> in settings.json
  cache,     \* the same field in each process's SETTINGS_STORE
  seen,      \* what another thread of each process has checked and not yet done
  guard,     \* holder of config-apply.lock
  pc,        \* where the holder is
  job,       \* what the holder was asked to do
  mem,       \* the holder's FileCommitTransaction and local variables
  outcome,   \* what the last job reported to its caller
  unrestored,\* history: a step that had to put the device setting back was lost
  faults, edits

durable == <<live, journal, conns, dbCur, head, drafts, device>>
vars == <<live, journal, conns, dbCur, head, drafts, device, cache, seen,
          guard, pc, job, mem, outcome, unrestored, faults, edits>>

-----------------------------------------------------------------------------
(* Types *)

ApplyState == {"Prepared", "FilesWritten", "Completed", "RolledBack", "RecoveryRequired"}
PendingState == {"Prepared", "FilesWritten", "RecoveryRequired"}

\* before/after list provider records: None for a connection not listed.
Records == [Conn -> Cfg \cup {None}]
DraftRec == [rev : Nat, input : InputType, base : Cfg \cup {None}]
Context == [draft : Draft, rev : Nat, input : InputType, base : Cfg \cup {None},
            before : Records, after : Records,
            dbCur : Conn \cup {None}, local : Conn \cup {None},
            head : Receipt \cup {None}]
ReceiptRec == [state : ApplyState, before : Cfg, after : Cfg, undoable : BOOLEAN,
               undoOf : Receipt \cup {None}, ctx : Context \cup {None}]
Job == [kind : {"none", "apply", "undo", "recover", "plain"},
        draft : Draft \cup {None}, rev : Nat, policy : DriftPolicy,
        target : Receipt \cup {None}, cfg : Cfg \cup {None}]
Caller == {"none", "apply", "commit", "recover"}
Mem == [rcpt : Receipt \cup {None}, rec : ReceiptRec \cup {None},
        idx : Nat, bad : BOOLEAN, caller : Caller]
Control == {"idle", "recover", "recVerify", "recComplete", "recLocal",
            "plan", "prepare", "check", "cas", "write", "written", "local",
            "commit", "complete", "markUndone",
            "rbRead", "rbWrite", "rbSave", "restore", "flag"}
Outcome == {"none", "applied", "reused", "undone", "recovered", "failed",
            "recovery",   \* failed, and the caller was told to inspect the receipt
            "blocked"}    \* an earlier receipt could not be recovered first

Intent == [op : {"clear", "delete"}, conn : Conn]

ASSUME NoneIsNoRecord == None \notin ReceiptRec \cup Context \cup DraftRec \cup Intent

NoJob == [kind |-> "none", draft |-> None, rev |-> 0, policy |-> "abort",
          target |-> None, cfg |-> None]
NoMem == [rcpt |-> None, rec |-> None, idx |-> 0, bad |-> FALSE, caller |-> "none"]

TypeOK ==
  /\ live \in Cfg
  /\ journal \in [Receipt -> ReceiptRec \cup {None}]
  /\ conns \in [Conn -> Cfg \cup {None}]
  /\ dbCur \in Conn \cup {None}
  /\ head \in Receipt \cup {None}
  /\ drafts \in [Draft -> DraftRec \cup {None}]
  /\ device \in Conn \cup {None}
  /\ cache \in [Proc -> Conn \cup {None}]
  /\ seen \in [Proc -> Intent \cup {None}]
  /\ guard \in Proc \cup {None}
  /\ pc \in Control
  /\ job \in Job
  /\ mem \in Mem
  /\ outcome \in Outcome
  /\ unrestored \in BOOLEAN
  /\ faults \in 0 .. MaxFaults
  /\ edits \in 0 .. MaxEdits
Init ==
  /\ live = InitConns[InitCurrent]
  /\ journal = [r \in Receipt |-> None]
  /\ conns = InitConns
  /\ dbCur = InitCurrent
  /\ head = None
  /\ drafts = [d \in Draft |-> None]
  /\ device = IF Builtin THEN InitCurrent ELSE None
  /\ cache = [p \in Proc |-> device]
  /\ seen = [p \in Proc |-> None]
  /\ guard = None /\ pc = "idle" /\ job = NoJob /\ mem = NoMem
  /\ outcome = "none" /\ unrestored = FALSE
  /\ faults = 0 /\ edits = 0

-----------------------------------------------------------------------------
(* Receipts *)

Pending == {r \in Receipt : journal[r] # None /\ journal[r].state \in PendingState}
Unused == {r \in Receipt : journal[r] = None}

\* The transaction the holder has in memory; an undo's is the reverse receipt.
Txn == journal[mem.rcpt]
\* Context that recovery and undo read: an undo receipt's is its original's.
CtxOf(r) == IF journal[r].undoOf # None THEN journal[journal[r].undoOf].ctx
                                       ELSE journal[r].ctx

\* Mutants of Committed: recovery always rolls back; or never finishes an undo.
NeverCommitted(r) == r \notin Receipt
UndoNeverCommitted(r) == journal[r].ctx # None /\ head = r

\* The database already holds the outcome of r, so recovery must go forward.
Committed(r) ==
  \/ journal[r].undoOf # None /\ head # journal[r].undoOf
  \/ journal[r].undoOf = None /\ journal[r].ctx # None /\ head = r

-----------------------------------------------------------------------------
(* I/O.  atomic_write_with_mode renames and then syncs the directory, so a *)
(* failure is reported either before ("fail") or after ("late") the new    *)
(* bytes are in place.                                                     *)

IO == {"ok", "fail", "late"}

Spend(io) == \/ io = "ok" /\ UNCHANGED faults
             \/ io # "ok" /\ faults < MaxFaults /\ faults' = faults + 1

Persist(r, state, io) ==
  journal' = IF io = "fail" THEN journal ELSE [journal EXCEPT ![r].state = state]

WriteFile(i, bytes, io) ==
  live' = IF io = "fail" THEN live ELSE [live EXCEPT ![i] = bytes]

\* Mutants of SetDevice: the draft's id is stored; the cache is not changed.
SetDeviceToDraft(p, c, io) ==
  /\ device' = IF io = "fail" THEN device ELSE job.draft
  /\ cache' = IF io = "ok" THEN [cache EXCEPT ![p] = c] ELSE cache
SetFileOnly(p, c, io) ==
  device' = (IF io = "fail" THEN device ELSE c) /\ cache' = cache

\* settings::set_current_provider; a failed save leaves the cache as it was.
SetDevice(p, c, io) ==
  /\ device' = IF io = "fail" THEN device ELSE c
  /\ cache' = IF io = "ok" THEN [cache EXCEPT ![p] = c] ELSE cache

-----------------------------------------------------------------------------
(* Control *)

Begin(p, j) ==
  /\ guard = None
  /\ j.kind # "recover" => Unused # {}        \* bound: the receipts there are
  /\ guard' = p /\ pc' = "recover" /\ job' = j /\ mem' = NoMem /\ outcome' = "none"
  /\ UNCHANGED <<durable, cache, seen, unrestored, faults, edits>>

\* apply_editor_draft, undo_config_apply, recover_config_commits, execute_files:
\* each takes the lock or returns at once.
BeginApply(p, d, rev, pol) ==
  Begin(p, [NoJob EXCEPT !.kind = "apply", !.draft = d, !.rev = rev, !.policy = pol])
BeginUndo(p, r) ==
  /\ journal[r] # None /\ journal[r].ctx # None
  /\ Begin(p, [NoJob EXCEPT !.kind = "undo", !.target = r])
BeginRecover(p) == Begin(p, [NoJob EXCEPT !.kind = "recover"])
BeginPlain(p, c) ==
  /\ ~Builtin /\ conns[c] # None
  /\ Begin(p, [NoJob EXCEPT !.kind = "plain", !.cfg = conns[c]])

At(l) == pc = l
Goto(l) == pc' = l /\ UNCHANGED <<guard, job, outcome>>
\* The function returns: its guard is dropped.
Finish(o) ==
  /\ guard' = None /\ pc' = "idle" /\ job' = NoJob /\ mem' = NoMem /\ outcome' = o
\* Mutant of StartRollback: the file whose write failed is left out.
StartRollbackEarlier(caller) ==
  /\ Goto("rbRead")
  /\ mem' = [mem EXCEPT !.idx = IF @ > 1 THEN @ - 1 ELSE 1, !.bad = FALSE, !.caller = caller]

StartRollback(caller) ==
  /\ Goto("rbRead")
  /\ mem' = [mem EXCEPT !.idx = NFiles, !.bad = FALSE, !.caller = caller]

-----------------------------------------------------------------------------
(* recover_pending_config_commits_locked *)

NoPending ==
  /\ At("recover") /\ Pending = {}
  /\ \/ job.kind \in {"apply", "undo", "plain"} /\ Goto("plan") /\ mem' = NoMem
     \/ job.kind = "recover" /\ Finish("recovered")
  /\ UNCHANGED <<durable, cache, seen, unrestored, faults, edits>>

\* execute_files does not recover: it refuses while anything is pending.
PlainRefused ==
  /\ At("recover") /\ Pending # {} /\ job.kind = "plain"
  /\ Finish("blocked")
  /\ UNCHANGED <<durable, cache, seen, unrestored, faults, edits>>

RecoverReceipt(r) ==
  /\ At("recover") /\ job.kind # "plain" /\ r \in Pending
  /\ \/ /\ journal[r].state = "RecoveryRequired"
        /\ Finish("blocked")
     \/ /\ journal[r].state # "RecoveryRequired" /\ Committed(r)
        /\ Goto("recVerify") /\ mem' = [NoMem EXCEPT !.rcpt = r, !.caller = "recover"]
     \/ /\ journal[r].state # "RecoveryRequired" /\ ~Committed(r)
        /\ journal[r].ctx # None /\ ~journal[r].undoable
        /\ Goto("flag") /\ mem' = [NoMem EXCEPT !.rcpt = r, !.caller = "recover"]
     \/ /\ journal[r].state # "RecoveryRequired" /\ ~Committed(r)
        /\ journal[r].ctx # None => journal[r].undoable
        /\ Goto("rbRead")
        /\ mem' = [NoMem EXCEPT !.rcpt = r, !.idx = NFiles, !.caller = "recover"]
  /\ UNCHANGED <<durable, cache, seen, unrestored, faults, edits>>

RecVerify ==
  /\ At("recVerify")
  /\ IF live = Txn.after THEN Goto("recComplete") /\ UNCHANGED mem
                         ELSE Finish("blocked")
  /\ UNCHANGED <<durable, cache, seen, unrestored, faults, edits>>

\* Mutant of RecComplete: the receipt is verified again and again, never completed.
RecCompleteForgotten(io) ==
  /\ At("recComplete") /\ io = "ok" /\ Spend(io)
  /\ Goto("recover") /\ UNCHANGED mem
  /\ UNCHANGED <<durable, cache, seen, unrestored, edits>>

RecComplete(io) ==
  /\ At("recComplete") /\ Spend(io)
  /\ Persist(mem.rcpt, "Completed", io)
  /\ \/ io # "ok" /\ Finish("blocked")
     \/ io = "ok" /\ Txn.undoOf # None /\ Goto("markUndone") /\ UNCHANGED mem
     \/ io = "ok" /\ Txn.undoOf = None /\ Goto("recover") /\ UNCHANGED mem
  /\ UNCHANGED <<live, conns, dbCur, head, drafts, device, cache, seen, unrestored, edits>>

\* After a rollback the device setting goes back to what the database says.
RecLocal(io) ==
  LET undo == Txn.undoOf # None
      ctx == CtxOf(mem.rcpt)
  IN /\ At("recLocal") /\ Spend(io)
     /\ SetDevice(guard, IF undo THEN ctx.input.conn ELSE ctx.local, io)
     /\ \/ io = "ok" /\ Goto("recover") /\ UNCHANGED mem
        \/ io # "ok" /\ undo /\ Goto("flag") /\ UNCHANGED mem
        \/ io # "ok" /\ ~undo /\ Finish("blocked")
     /\ unrestored' = (unrestored \/ (io # "ok" /\ ~undo))
     /\ UNCHANGED <<live, journal, conns, dbCur, head, drafts, seen, edits>>

-----------------------------------------------------------------------------
(* FileCommitTransaction: prepare, apply, complete, rollback *)

Prepare(r, io) ==
  /\ At("prepare") /\ r \in Unused
  /\ IF live = mem.rec.before
     THEN /\ Spend(io)
          /\ journal' = IF io = "fail" THEN journal ELSE [journal EXCEPT ![r] = mem.rec]
          /\ IF io = "ok" THEN Goto("check") /\ mem' = [NoMem EXCEPT !.rcpt = r]
                          ELSE Finish("failed")
     ELSE io = "ok" /\ Finish("failed") /\ UNCHANGED <<journal, faults>>
  /\ UNCHANGED <<live, conns, dbCur, head, drafts, device, cache, seen, unrestored, edits>>

\* apply's first loop: nothing is written unless every file is as inspected.
Check(io) ==
  /\ At("check") /\ Spend(io)
  /\ IF live = Txn.before
     THEN io = "ok" /\ Goto("cas") /\ mem' = [mem EXCEPT !.idx = 1] /\ UNCHANGED journal
     ELSE Persist(mem.rcpt, "RolledBack", io) /\ Finish("failed")
  /\ UNCHANGED <<live, conns, dbCur, head, drafts, device, cache, seen, unrestored, edits>>

Cas ==
  /\ At("cas")
  /\ IF live[mem.idx] = Txn.before[mem.idx] THEN Goto("write") /\ UNCHANGED mem
                                            ELSE StartRollback("apply")
  /\ UNCHANGED <<durable, cache, seen, unrestored, faults, edits>>

Write(io) ==
  /\ At("write") /\ Spend(io)
  /\ WriteFile(mem.idx, Txn.after[mem.idx], io)
  /\ \/ io # "ok" /\ StartRollback("apply")
     \/ io = "ok" /\ mem.idx < NFiles /\ Goto("cas") /\ mem' = [mem EXCEPT !.idx = @ + 1]
     \/ io = "ok" /\ mem.idx = NFiles /\ Goto("written") /\ UNCHANGED mem
  /\ UNCHANGED <<journal, conns, dbCur, head, drafts, device, cache, seen, unrestored, edits>>

Written(io) ==
  /\ At("written") /\ Spend(io)
  /\ Persist(mem.rcpt, "FilesWritten", io)
  /\ \/ io # "ok" /\ StartRollback("apply")
     \/ io = "ok" /\ job.kind = "plain" /\ Goto("complete") /\ UNCHANGED mem
     \/ /\ io = "ok" /\ job.kind # "plain" /\ UNCHANGED mem
        /\ Goto(IF Builtin THEN "local" ELSE "commit")
  /\ UNCHANGED <<live, conns, dbCur, head, drafts, device, cache, seen, unrestored, edits>>

\* complete: apply reports a failure as a warning, undo and execute_files as an error.
Complete(io) ==
  /\ At("complete") /\ Spend(io)
  /\ Persist(mem.rcpt, "Completed", io)
  /\ \/ job.kind = "apply" /\ Finish("applied")
     \/ job.kind # "apply" /\ io # "ok" /\ Finish("failed")
     \/ job.kind = "plain" /\ io = "ok" /\ Finish("applied")
     \/ job.kind = "undo" /\ io = "ok" /\ Goto("markUndone") /\ UNCHANGED mem
  /\ UNCHANGED <<live, conns, dbCur, head, drafts, device, cache, seen, unrestored, edits>>

\* original.mark_rolled_back, after the reverse receipt completed.
MarkUndone(io) ==
  /\ At("markUndone") /\ Spend(io)
  /\ Persist(Txn.undoOf, "RolledBack", io)
  /\ \/ io # "ok" /\ Finish(IF mem.caller = "recover" THEN "blocked" ELSE "failed")
     \/ io = "ok" /\ mem.caller = "recover" /\ Goto("recover") /\ UNCHANGED mem
     \/ io = "ok" /\ mem.caller # "recover" /\ Finish("undone")
  /\ UNCHANGED <<live, conns, dbCur, head, drafts, device, cache, seen, unrestored, edits>>

\* Mutant of Foreign: rollback trusts that nobody else wrote.
NothingIsForeign(i) == i \notin File

\* Neither what the operation found in a file nor what it wrote there.
Foreign(i) == live[i] \notin {Txn.before[i], Txn.after[i]}

\* rollback, last file first: an unrelated external write is an error, not overwritten.
RbRead(io) ==
  LET now == live[mem.idx]
      conflict == io # "ok" \/ Foreign(mem.idx)
      next == [mem EXCEPT !.idx = @ - 1, !.bad = @ \/ conflict]
  IN /\ At("rbRead") /\ io \in {"ok", "fail"} /\ Spend(io)
     /\ IF ~conflict /\ now # Txn.before[mem.idx]
        THEN Goto("rbWrite") /\ UNCHANGED mem
        ELSE Goto(IF mem.idx > 1 THEN "rbRead" ELSE "rbSave") /\ mem' = next
     /\ UNCHANGED <<durable, cache, seen, unrestored, edits>>

RbWrite(io) ==
  /\ At("rbWrite") /\ Spend(io)
  /\ WriteFile(mem.idx, Txn.before[mem.idx], io)
  /\ Goto(IF mem.idx > 1 THEN "rbRead" ELSE "rbSave")
  /\ mem' = [mem EXCEPT !.idx = @ - 1, !.bad = @ \/ io # "ok"]
  /\ UNCHANGED <<journal, conns, dbCur, head, drafts, device, cache, seen, unrestored, edits>>

\* Persist the verdict, then return to whoever called rollback().
RbSave(io) ==
  LET failed == mem.bad \/ io # "ok"
      restores == Builtin /\ CtxOf(mem.rcpt) # None
  IN /\ At("rbSave") /\ Spend(io)
     /\ Persist(mem.rcpt, IF mem.bad THEN "RecoveryRequired" ELSE "RolledBack", io)
     /\ \/ /\ mem.caller = "apply"
           /\ Finish(IF mem.bad THEN "recovery" ELSE "failed")
        \/ /\ mem.caller = "commit"
           /\ \/ Builtin /\ Goto("restore") /\ mem' = [mem EXCEPT !.bad = failed]
              \/ ~Builtin /\ failed /\ Goto("flag") /\ UNCHANGED mem
              \/ ~Builtin /\ ~failed /\ Finish("failed")
        \/ /\ mem.caller = "recover"
           /\ \/ failed /\ Finish("blocked")
              \/ ~failed /\ restores /\ Goto("recLocal") /\ UNCHANGED mem
              \/ ~failed /\ ~restores /\ Goto("recover") /\ UNCHANGED mem
     /\ unrestored' = \/ unrestored
                      \/ mem.caller = "recover" /\ io = "late" /\ ~mem.bad /\ restores
     /\ UNCHANGED <<live, conns, dbCur, head, drafts, device, cache, seen, edits>>

\* The failed commit of an apply or an undo puts the device setting back.
Restore(io) ==
  LET ctx == CtxOf(mem.rcpt)
  IN /\ At("restore") /\ Spend(io)
     /\ SetDevice(guard, IF job.kind = "undo" THEN ctx.input.conn ELSE ctx.local, io)
     /\ IF mem.bad \/ io # "ok" THEN Goto("flag") /\ UNCHANGED mem ELSE Finish("failed")
     /\ UNCHANGED <<live, journal, conns, dbCur, head, drafts, seen, unrestored, edits>>

\* let _ = transaction.mark_recovery_required(): its failure is ignored.
Flag(io) ==
  /\ At("flag") /\ Spend(io)
  /\ Persist(mem.rcpt, "RecoveryRequired", io)
  /\ Finish(IF mem.caller = "recover" THEN "blocked" ELSE "recovery")
  /\ unrestored' = (unrestored \/ (io = "fail" /\ mem.rcpt \notin Pending))
  /\ UNCHANGED <<live, conns, dbCur, head, drafts, device, cache, seen, edits>>

-----------------------------------------------------------------------------
(* apply_editor_draft *)

\* Provider records and the hash of the one a draft was opened on.
Record(c) == IF c = None THEN None ELSE conns[c]

\* completed_draft_transaction: a lost response may be retried.
Reusable(d, rev) ==
  {r \in Receipt : /\ journal[r] # None /\ journal[r].state = "Completed"
                   /\ journal[r].ctx # None
                   /\ journal[r].ctx.draft = d /\ journal[r].ctx.rev = rev}

Reuse ==
  /\ At("plan") /\ job.kind = "apply"
  /\ drafts[job.draft] = None
  /\ Finish(IF Reusable(job.draft, job.rev) # {} THEN "reused" ELSE "failed")
  /\ UNCHANGED <<durable, cache, seen, unrestored, faults, edits>>

\* The connection being left: the device setting first, then the database.
Outgoing(p) == IF cache[p] # None THEN cache[p] ELSE dbCur

\* preview_current_live_change: a built-in app has no drift when nothing is
\* being left or a live file cannot be read; a plugin compares what it reads.
Drift(p) ==
  LET out == Record(Outgoing(p))
  IN IF Builtin
     THEN out # None /\ live # out /\ \A f \in File : live[f] # Absent
     ELSE IF out = None THEN \E f \in File : live[f] # Absent ELSE live # out

\* The checks of prepare_draft_application, made before anything is written.
Applicable(p, dr, policy) ==
  LET i == dr.input
  IN /\ dr.base = Record(i.orig)
     /\ i.orig # i.conn => conns[i.conn] = None
     /\ Record(i.orig) # None => i.orig = i.conn
     /\ Drift(p) => policy # "abort"

\* Provider records the application touches, as they are and as they will be.
Before(p, i) ==
  [c \in Conn |-> IF c \in {i.orig, Outgoing(p), dbCur} THEN conns[c] ELSE None]
After(p, i, policy) ==
  [c \in Conn |->
     IF c = i.conn THEN i.cfg
     ELSE IF c = Outgoing(p) /\ Record(c) # None /\ Drift(p) /\ policy = "save"
          THEN live ELSE None]

ApplyRecord(p, dr) ==
  LET i == dr.input
  IN [state |-> "Prepared", before |-> live, after |-> i.cfg,
      undoable |-> ~i.gateway, undoOf |-> None,
      ctx |-> [draft |-> job.draft, rev |-> job.rev, input |-> i, base |-> dr.base,
               before |-> Before(p, i), after |-> After(p, i, job.policy),
               dbCur |-> dbCur, local |-> IF Builtin THEN cache[p] ELSE None,
               head |-> head]]

PlanApply ==
  LET dr == drafts[job.draft]
  IN /\ At("plan") /\ job.kind = "apply" /\ dr # None
     /\ IF dr.rev = job.rev /\ Applicable(guard, dr, job.policy)
        THEN Goto("prepare") /\ mem' = [NoMem EXCEPT !.rec = ApplyRecord(guard, dr)]
        ELSE Finish("failed")
     /\ UNCHANGED <<durable, cache, seen, unrestored, faults, edits>>

\* Mutant of Local: an undo selects the connection it is undoing.
LocalForgetsUndo(io) ==
  /\ At("local") /\ Spend(io)
  /\ SetDevice(guard, CtxOf(mem.rcpt).input.conn, io)
  /\ IF io = "ok" THEN Goto("commit") /\ UNCHANGED mem ELSE StartRollback("commit")
  /\ UNCHANGED <<live, journal, conns, dbCur, head, drafts, seen, unrestored, edits>>

\* settings::set_current_provider comes before the database transaction.
Local(io) ==
  LET ctx == CtxOf(mem.rcpt)
  IN /\ At("local") /\ Spend(io)
     /\ SetDevice(guard, IF job.kind = "undo" THEN ctx.local ELSE ctx.input.conn, io)
     /\ IF io = "ok" THEN Goto("commit") /\ UNCHANGED mem ELSE StartRollback("commit")
     /\ UNCHANGED <<live, journal, conns, dbCur, head, drafts, seen, unrestored, edits>>

\* Mutant of CommitValid: the draft is only looked up, not compared.
CommitValidAnyRevision(ctx) ==
  /\ drafts[ctx.draft] # None /\ ctx.base = Record(ctx.input.orig)
  /\ \A c \in Conn : ctx.before[c] # None => conns[c] = ctx.before[c]

\* commit_editor_application: one SQLite transaction that re-checks what was read.
CommitValid(ctx) ==
  LET i == ctx.input
  IN /\ drafts[ctx.draft] # None /\ drafts[ctx.draft].rev = ctx.rev
     /\ ctx.base = Record(i.orig)
     /\ \A c \in Conn : ctx.before[c] # None => conns[c] = ctx.before[c]
     /\ i.orig # i.conn => conns[i.conn] = None

CommitApply(io) ==
  LET ctx == Txn.ctx
  IN /\ At("commit") /\ job.kind = "apply" /\ io \in {"ok", "fail"} /\ Spend(io)
     /\ IF io = "ok" /\ CommitValid(ctx)
        THEN /\ conns' = [c \in Conn |-> IF ctx.after[c] # None THEN ctx.after[c]
                                                             ELSE conns[c]]
             /\ dbCur' = ctx.input.conn
             /\ head' = mem.rcpt
             /\ drafts' = [drafts EXCEPT ![ctx.draft] = None]
             /\ Goto("complete") /\ UNCHANGED mem
        ELSE StartRollback("commit") /\ UNCHANGED <<conns, dbCur, head, drafts>>
     /\ UNCHANGED <<live, journal, device, cache, seen, unrestored, edits>>

-----------------------------------------------------------------------------
(* undo_config_apply *)

\* The records an undo would overwrite or bring back are still as apply left them.
RecordsAsLeft(ctx) ==
  \A c \in Conn :
    /\ ctx.after[c] # None => conns[c] = ctx.after[c]
    /\ ctx.after[c] = None /\ ctx.before[c] # None => conns[c] = ctx.before[c]

UndoValid(r) ==
  LET ctx == journal[r].ctx
  IN /\ journal[r].undoable /\ journal[r].state = "Completed"
     /\ head = r
     /\ RecordsAsLeft(ctx)
     /\ dbCur = ctx.input.conn
     /\ Builtin => cache[guard] = ctx.input.conn
     /\ live = journal[r].after

PlanUndo ==
  LET r == job.target
  IN /\ At("plan") /\ job.kind = "undo"
     /\ IF UndoValid(r)
        THEN /\ Goto("prepare")
             /\ mem' = [NoMem EXCEPT !.rec =
                   [state |-> "Prepared", before |-> journal[r].after,
                    after |-> journal[r].before, undoable |-> FALSE,
                    undoOf |-> r, ctx |-> None]]
        ELSE Finish("failed")
     /\ UNCHANGED <<durable, cache, seen, unrestored, faults, edits>>

\* restore_editor_application: one SQLite transaction.
CommitUndo(io) ==
  LET r == job.target
      ctx == journal[r].ctx
  IN /\ At("commit") /\ job.kind = "undo" /\ io \in {"ok", "fail"} /\ Spend(io)
     /\ IF io = "ok" /\ head = r /\ RecordsAsLeft(ctx)
        THEN /\ conns' = [c \in Conn |->
                            IF ctx.before[c] # None THEN ctx.before[c]
                            ELSE IF ctx.after[c] # None THEN None ELSE conns[c]]
             /\ dbCur' = ctx.dbCur
             /\ head' = ctx.head
             /\ drafts' = IF drafts[ctx.draft] # None THEN drafts
                          ELSE [drafts EXCEPT ![ctx.draft] =
                                  [rev |-> ctx.rev + 1, input |-> ctx.input,
                                   base |-> ctx.base]]
             /\ Goto("complete") /\ UNCHANGED mem
        ELSE StartRollback("commit") /\ UNCHANGED <<conns, dbCur, head, drafts>>
     /\ UNCHANGED <<live, journal, device, cache, seen, unrestored, edits>>

\* ManifestPlugin::write_live through execute_files: no context, no undo.
PlanPlain ==
  /\ At("plan") /\ job.kind = "plain"
  /\ Goto("prepare")
  /\ mem' = [NoMem EXCEPT !.rec =
        [state |-> "Prepared", before |-> live, after |-> job.cfg, undoable |-> FALSE,
         undoOf |-> None, ctx |-> None]]
  /\ UNCHANGED <<durable, cache, seen, unrestored, faults, edits>>

-----------------------------------------------------------------------------
(* Editor drafts: upsert_editor_draft and delete_editor_draft compare and  *)
(* set the revision in one transaction; neither takes config-apply.lock.   *)

CreateDraft(d, i) ==
  /\ drafts[d] = None
  \* draft ids are fresh UUIDs: nothing refers to this one yet
  /\ job.draft # d
  /\ \A r \in Receipt : journal[r] # None /\ journal[r].ctx # None => journal[r].ctx.draft # d
  /\ drafts' = [drafts EXCEPT ![d] = [rev |-> 1, input |-> i, base |-> Record(i.orig)]]
  /\ UNCHANGED <<live, journal, conns, dbCur, head, device, cache, seen, guard, pc, job,
                 mem, outcome, unrestored, faults, edits>>

\* The base of a draft (the connection it was opened on) never changes.
UpdateDraft(d, i) ==
  /\ d \notin TempDraft /\ drafts[d] # None /\ drafts[d].rev < MaxRev
  /\ i.orig = drafts[d].input.orig
  /\ drafts' = [drafts EXCEPT ![d].rev = @ + 1, ![d].input = i]
  /\ UNCHANGED <<live, journal, conns, dbCur, head, device, cache, seen, guard, pc, job,
                 mem, outcome, unrestored, faults, edits>>

\* A user discards a draft; the bridge drops its temporary one after a failed job.
DeleteDraft(d) ==
  /\ drafts[d] # None
  /\ d \in TempDraft => job.draft # d
  /\ drafts' = [drafts EXCEPT ![d] = None]
  /\ UNCHANGED <<live, journal, conns, dbCur, head, device, cache, seen, guard, pc, job,
                 mem, outcome, unrestored, faults, edits>>

-----------------------------------------------------------------------------
(* Other actors *)

\* The tool, or the user's editor, rewrites a live file.
ExternalWrite(f, b) ==
  /\ edits < MaxEdits /\ live[f] # b
  /\ pc \in {"write", "rbWrite"} /\ mem.idx = f => InWindow
  /\ live' = [live EXCEPT ![f] = b] /\ edits' = edits + 1
  /\ UNCHANGED <<journal, conns, dbCur, head, drafts, device, cache, seen, guard, pc, job,
                 mem, outcome, unrestored, faults>>

\* The current connection as a process resolves it (get_effective_current_provider).
Effective(p) == IF Record(cache[p]) # None THEN cache[p] ELSE dbCur

\* update_provider on a connection that is not current only saves the record.
EditConnection(p, c, cfg) ==
  /\ edits < MaxEdits /\ conns[c] # None /\ conns[c] # cfg
  /\ c # Effective(p)
  /\ conns' = [conns EXCEPT ![c] = cfg] /\ edits' = edits + 1
  /\ UNCHANGED <<live, journal, dbCur, head, drafts, device, cache, seen, guard, pc, job,
                 mem, outcome, unrestored, faults>>

\* Threads that do not hold config-apply.lock check first and act later.
Think(p, intent) ==
  /\ p \in Viewer /\ seen[p] = None
  /\ seen' = [seen EXCEPT ![p] = intent]
  /\ UNCHANGED <<durable, cache, guard, pc, job, mem, outcome, unrestored, faults>>

\* delete_provider refuses the connection in use, then deletes the row (which
\* carries is_current).
DeleteCheck(p, c) ==
  /\ edits < MaxEdits /\ edits' = edits + 1
  /\ conns[c] # None /\ c \notin {cache[p], dbCur}
  /\ Think(p, [op |-> "delete", conn |-> c])

DeleteRow(p) ==
  /\ seen[p] # None /\ seen[p].op = "delete"
  /\ conns' = [conns EXCEPT ![seen[p].conn] = None]
  /\ dbCur' = IF dbCur = seen[p].conn THEN None ELSE dbCur
  /\ seen' = [seen EXCEPT ![p] = None]
  /\ UNCHANGED <<live, journal, head, drafts, device, cache, guard, pc, job, mem, outcome,
                 unrestored, faults, edits>>

\* get_effective_current_provider looks the device setting up in the database and,
\* if it is missing and no receipt is pending, clears it.
ViewObserve(p) ==
  /\ cache[p] # None /\ conns[cache[p]] = None
  /\ Think(p, [op |-> "clear", conn |-> cache[p]])
  /\ UNCHANGED edits

ViewClear(p, io) ==
  /\ seen[p] # None /\ seen[p].op = "clear" /\ Spend(io)
  /\ seen' = [seen EXCEPT ![p] = None]
  /\ IF Pending = {} THEN SetDevice(p, None, io)
                     ELSE io = "ok" /\ UNCHANGED <<device, cache>>
  /\ UNCHANGED <<live, journal, conns, dbCur, head, drafts, guard, pc, job, mem, outcome,
                 unrestored, edits>>

\* The process dies: the lock is released, everything in memory is gone.
Crash ==
  /\ guard # None /\ faults < MaxFaults /\ faults' = faults + 1
  /\ cache' = [cache EXCEPT ![guard] = device]
  /\ seen' = [seen EXCEPT ![guard] = None]
  /\ Finish("none")
  /\ unrestored' = \/ unrestored
                   \/ At("restore") /\ mem.rcpt \notin Pending
                   \/ At("recLocal")
                   \/ At("flag") /\ mem.rcpt \notin Pending
  /\ UNCHANGED <<durable, edits>>

\* A process is restarted between jobs and reads settings.json again.
Restart(p) ==
  /\ guard # p /\ cache[p] # device
  /\ cache' = [cache EXCEPT ![p] = device]
  /\ seen' = [seen EXCEPT ![p] = None]
  /\ UNCHANGED <<durable, guard, pc, job, mem, outcome, unrestored, faults, edits>>

-----------------------------------------------------------------------------
StartJob ==
  \E p \in Proc :
    \/ \E d \in Draft, rev \in 1 .. MaxRev, pol \in Policy : BeginApply(p, d, rev, pol)
    \/ \E r \in Receipt : BeginUndo(p, r)
    \/ BeginRecover(p)
    \/ \E c \in Conn : BeginPlain(p, c)

Recover ==
  \/ NoPending \/ PlainRefused \/ RecVerify
  \/ \E r \in Receipt : RecoverReceipt(r)
  \/ \E io \in IO : RecComplete(io) \/ RecLocal(io)

Transact ==
  \/ Cas
  \/ \E io \in IO : \/ Check(io) \/ Write(io) \/ Written(io) \/ Complete(io) \/ MarkUndone(io)
                    \/ \E r \in Receipt : Prepare(r, io)

Rollback ==
  \E io \in IO : RbRead(io) \/ RbWrite(io) \/ RbSave(io) \/ Restore(io) \/ Flag(io)

Work ==
  \/ Reuse \/ PlanApply \/ PlanUndo \/ PlanPlain
  \/ \E io \in IO : Local(io) \/ CommitApply(io) \/ CommitUndo(io)

JobStep == Recover \/ Transact \/ Rollback \/ Work

Environment ==
  \/ \E d \in Draft : \/ \E i \in Input : CreateDraft(d, i) \/ UpdateDraft(d, i)
                     \/ DeleteDraft(d)
  \/ \E f \in File, b \in ExtBytes : ExternalWrite(f, b)
  \/ \E p \in Proc :
       \/ \E c \in Conn : \/ \E i \in Input : EditConnection(p, c, i.cfg)
                         \/ DeleteCheck(p, c)
       \/ DeleteRow(p) \/ ViewObserve(p) \/ \E io \in IO : ViewClear(p, io)
       \/ Restart(p)
  \/ Crash

Next == StartJob \/ JobStep \/ Environment

Spec == Init /\ [][Next]_vars

-----------------------------------------------------------------------------
(* Safety *)

\* A receipt is prepared only once recovery has settled every earlier one, and
\* whatever fails or crashes between two jobs leaves at most one to settle.
AtMostOnePending == \A r, s \in Pending : r = s

\* The receipt the database calls the last application (config_apply_heads) is
\* one whose files were all written, and so is the one an undo would go back to.
HeadIsWritten ==
  head # None =>
    /\ journal[head] # None /\ journal[head].ctx # None
    /\ journal[head].state \in {"FilesWritten", "Completed"}
    /\ LET prev == journal[head].ctx.head
       IN prev # None => journal[prev] # None /\ journal[prev].state = "Completed"

\* However the jobs of several processes crash and fail, the journal's history can be gone
\* on from and gone back on: nothing competes with the receipt to settle, and the receipts
\* the database names are done (recover_config_commits, execute_files, undo_config_apply).
HistoryIsSound == AtMostOnePending /\ HeadIsWritten

Settled == guard = None /\ Pending = {}

\* The bytes the last application the database knows of gave the live files.
AppliedCfg == IF head = None THEN InitConns[InitCurrent] ELSE journal[head].after

\* With no job running and no receipt to recover, every live file is as the last
\* committed application wrote it, or as another program left it: no crash, failed
\* write, undo or recovery leaves the files of two connections mixed.
SettledFilesMatchHead ==
  Settled => \A f \in File : live[f] \in {AppliedCfg[f]} \cup ExtBytes

\* Likewise settings.json and the database agree on the current connection, unless
\* the step that puts settings.json back was lost.
DeviceFollowsDb == Builtin /\ Settled /\ ~unrestored => device = dbCur

\* At rest the live files, settings.json and the database tell of one connection, though
\* three writers of three kinds change them in turn and each may be the one that fails
\* (apply_editor_draft, undo_config_apply, recover_config_commits).
SettledIsInStep == SettledFilesMatchHead /\ DeviceFollowsDb

\* What a job overwrites is what its receipt recorded, and nothing else.
OnlyRecordedBytesReplaced ==
  [][\A f \in File :
       live'[f] # live[f] /\ edits' = edits =>
         /\ mem.rcpt # None
         /\ {live[f], live'[f]} \subseteq {Txn.before[f], Txn.after[f]}]_vars

\* An application reported as failed, with no receipt to inspect, left no trace:
\* its receipt is not the head, its files and the device setting are back.
FailedLeavesNoTrace ==
  [][job.kind = "apply" /\ guard # None /\ outcome' = "failed" /\ mem.rcpt # None =>
       /\ head' # mem.rcpt
       /\ \A f \in File : live'[f] \in {Txn.before[f]} \cup ExtBytes
       /\ Builtin /\ ~unrestored' => device' = Txn.ctx.local]_vars

\* An undo reported as done gives back the files, the current connection, the
\* device setting and the head its application had found.
UndoRestores ==
  [][job.kind = "undo" /\ outcome' = "undone" /\ guard # None =>
       LET r == journal[job.target]
       IN /\ \A f \in File : live'[f] \in {r.before[f]} \cup ExtBytes
          /\ dbCur' = r.ctx.dbCur /\ head' = r.ctx.head
          /\ Builtin => device' = r.ctx.local]_vars

\* What the caller of an application or an undo is told is so, in the files, the device
\* setting and the database (the error paths of apply_editor_draft and undo_config_apply).
ReportsAreTrue == FailedLeavesNoTrace /\ UndoRestores

\* The draft an application consumes is the one it planned from: an edit made
\* while the files were being written is neither applied nor lost.
ConsumedDraftIsThePlanned ==
  [][pc = "commit" /\ job.kind = "apply" /\ head' # head =>
       drafts[job.draft] = [rev |-> job.rev, input |-> Txn.ctx.input,
                            base |-> Txn.ctx.base]]_vars

\* An application changes the records of the connection it applies and of the one it
\* leaves: the drift it saves is the drift of the connection that was in use, as long as
\* one process applies and no restore of the device setting was lost.
OnlyLeftAndAppliedChange ==
  pc = "commit" /\ job.kind = "apply" /\ head' # head =>
    \A c \in Conn : conns'[c] # conns[c] => c \in {Txn.ctx.input.conn, dbCur}
DriftSavedWhenInStep == [][~unrestored => OnlyLeftAndAppliedChange]_vars

-----------------------------------------------------------------------------
(* Refinement: the database transaction is where an operation takes effect. *)

\* Receipts whose operation has begun and not yet taken effect.
Open == {r \in Pending : journal[r].state # "RecoveryRequired" /\ ~Committed(r)}

\* A file already written for an open receipt still counts as what it was.
EffectiveFiles ==
  [f \in File |-> IF \E r \in Open : live[f] = journal[r].after[f]
                  THEN LET r == CHOOSE r \in Open : live[f] = journal[r].after[f]
                       IN journal[r].before[f]
                  ELSE live[f]]

SavedByApply ==
  [r \in Receipt |->
     IF /\ journal[r] # None /\ journal[r].ctx # None
        /\ head = r \/ journal[r].state = "Completed"
     THEN [conf |-> journal[r].before, cur |-> journal[r].ctx.dbCur,
           head |-> journal[r].ctx.head, stored |-> journal[r].ctx.before]
     ELSE None]

\* None is not what an application found either.
ASSUME NoneIsNotFound ==
  None \notin [conf : Cfg, cur : Conn \cup {None}, head : Receipt \cup {None}, stored : Records]

Atomic == INSTANCE AtomicConfig WITH
  conf <- EffectiveFiles, stored <- conns, cur <- dbCur, saved <- SavedByApply,
  flagged <- \E r \in Pending : journal[r].state = "RecoveryRequired"

\* Whatever crashes or fails in between, applying and undoing is atomic.
ImplementsAtomicConfig == Atomic!Spec

-----------------------------------------------------------------------------
(* Liveness *)

\* A job never waits for anything (the lock is tried, not waited for), so the
\* process keeps taking its steps; and while there is something to recover, somebody
\* keeps coming back to it: start-up recovers, and execute_files refuses to write
\* until that has happened.
Fairness == WF_vars(JobStep) /\ SF_vars(\E p \in Proc : BeginRecover(p))

FairSpec == Spec /\ Fairness

\* Recovery cannot decide r: it needs a person, or its files were changed after
\* the database accepted it.
Blocked(r) == \/ journal[r].state = "RecoveryRequired"
              \/ Committed(r) /\ live # journal[r].after

\* Every job returns and drops the lock, and an interrupted receipt is completed,
\* rolled back, or waits for a person.
InterruptedIsSettled ==
  /\ guard # None ~> guard = None
  /\ Pending # {} ~> Pending = {} \/ \E r \in Pending : Blocked(r)
=============================================================================
